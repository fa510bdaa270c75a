SPECIFICATION LaunchSpec
CONSTANTS
    Threshold = 2
    MaxBuffered = 6
    ReadSize = 2
    MaxSent = 6
    MaxOnWire = 3
    MaxLoginPackets = 3
    MaxConfigurationPackets = 3
    MaxAcceptancePackets = 2
    MaxReconfigurations = 1
    Extras = {"plugin_request", "wrong_success", "wrong_pong", "keep_alive", "custom_payload",
              "dimension_type", "disconnect", "chunk_batch_finished", "world_packet",
              "start_configuration"}
    Programs = {p1, p2}
    Pids = {1, 2}
    MaxCrashes = 1
    MaxSpoils = 1
    Commands = {c1, c2}
    MaxTokens = 2
INVARIANTS LaunchTypeOK FramesIntact ServerUnderstands RegistriesLatest CacheSound AccountsSound
PROPERTY ServerIsAnswered

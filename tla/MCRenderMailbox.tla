--------------------------- MODULE MCRenderMailbox ---------------------------
(* Small instances of the render mailbox for TLC.                          *)
EXTENDS RenderMailbox
=============================================================================

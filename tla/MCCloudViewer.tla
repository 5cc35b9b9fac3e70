--------------------------- MODULE MCCloudViewer ---------------------------
(* Two clients with two calls each; the clients are not told apart. *)
EXTENDS CloudViewer
=============================================================================

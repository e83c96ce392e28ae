---------------------------- MODULE MCLifecycle ----------------------------
(* Two workers beside the main thread, and up to four session objects: one  *)
(* being accepted, one starting, one serving and a second accept.           *)
EXTENDS Lifecycle
============================================================================

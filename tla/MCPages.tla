-------------------------------- MODULE MCPages --------------------------------
(* One operation and two calls are enough for it to take effect twice. *)
EXTENDS Pages
===============================================================================

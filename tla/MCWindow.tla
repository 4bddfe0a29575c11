------------------------------ MODULE MCWindow ------------------------------
(* The window with small queues: see Window.cfg.                           *)
EXTENDS Window
=============================================================================

--------------------------- MODULE MCEventListener ---------------------------
(* Event listener: leaves are numbers, Missing is a model value. *)
EXTENDS EventListener

==============================================================================

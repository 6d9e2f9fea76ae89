-------------------------- MODULE MCTemplateOwner --------------------------
(* TLC instance of TemplateOwner: three clones, a TTL of two ticks, and a    *)
(* control channel that one frame fills.                                     *)
EXTENDS TemplateOwner
=============================================================================

------------------------------ MODULE Pointers ------------------------------
(* The null pointer, for the modules whose objects have addresses.          *)
CONSTANT NULL

=============================================================================

------------------------------ MODULE MCSettings ------------------------------
(* A device for Settings: two stored attributes, one of which another handler
   looks at after it was saved, and a name of an older firmware. *)
EXTENDS Settings

CONSTANTS attr1, attr2, old

MCEntries == <<attr1, attr2>>
MCHandlers ==
    <<[attr |-> attr1, saves |-> TRUE], [attr |-> kANY, saves |-> FALSE],
      [attr |-> attr2, saves |-> TRUE]>>

===============================================================================

---------------------------- MODULE MCAtaJournal -----------------------------
(* The undo journal with two undo slots and three target sectors: a           *)
(* transaction can fill the journal, and a later one can use other sectors.   *)
EXTENDS AtaJournal
==============================================================================

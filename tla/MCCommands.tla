----------------------------- MODULE MCCommands -----------------------------
(* Commands for the model checker: registries of up to two entries, which   *)
(* may share a name, and names in which colons stand everywhere.            *)
EXTENDS Commands, SequencesExt

MCRegistries == BoundedSeq(Entry, 2)
MCSkillName == {<<"a">>, <<"a", ":">>, <<":", "a">>, <<"a", ":", "a">>}
MCToolName == BoundedSeq(Char, 3)
=============================================================================

--------------------------- MODULE MCPageCommands ---------------------------
(* A small instance of PageCommands for TLC: a type with a directory, with *)
(* and without a required title, and a type that may have none; one file   *)
(* name under every spelling of its path, with directories below kb/ that  *)
(* are called kb and raw, and inputs that are refused.                     *)
EXTENDS PageCommands

MCTypes == {"note", "adr"}
MCFields == {"title", "status"}

Tmpl(dir, required) == [dir |-> dir, required |-> required]
MCOffered == [t \in MCTypes |->
    IF t = "note" THEN {Tmpl(<<>>, {}), Tmpl(<<"notes">>, {"title"})}
                  ELSE {Tmpl(<<"notes">>, {"title", "status"})}]
MCDirOrder == << <<"notes">> >>
MCManaged == {"index.md", "log.md"}

MCInputs ==
    { <<"a.md">>, <<"notes", "a.md">>, <<"kb", "kb", "a.md">>, <<".", "raw", "a.md">>,
      <<"raw", "a.md">>, <<"..", "a.md">>, <<"/", "a.md">>, <<"kb", "log.md">> }
=============================================================================

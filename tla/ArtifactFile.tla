--------------------------- MODULE ArtifactFile ----------------------------
(***************************************************************************)
(* The states an artifact file can be found in.  Truncated (or created)    *)
(* and not yet filled is empty; two writers that both truncated and then   *)
(* filled may leave the end of the longer content (garbled).               *)
(***************************************************************************)

Absent     == [state |-> "absent"]
Empty      == [state |-> "empty"]
Garbled    == [state |-> "garbled"]
Full(data) == [state |-> "full", data |-> data]

Readable(file) == file.state = "full"

Filled(file, data) ==
  IF file \in {Empty, Full(data)} THEN {Full(data)} ELSE {Full(data), Garbled}
=============================================================================

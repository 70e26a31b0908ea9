---------------------------- MODULE MakeSession -----------------------------
(***************************************************************************)
(* The make commands of the documentation, and one that a comment in the   *)
(* code says will do, played one after another in one directory, each      *)
(* through MakeTargets and Session; no write fails.                        *)
(***************************************************************************)
EXTENDS Session, MakeTargets

CONSTANTS
  Script          \* sequence of [doc, target, vars]; doc is "" for a command
                  \* that only makes an artifact the text takes as given;
                  \* Lines is the set of its lines

VARIABLES
  played,         \* number of commands played
  failed          \* where the documentation asks for a command that failed

makeVars == <<sessionVars, played, failed>>

MakeInit == Init /\ played = 0 /\ failed = {}

Make ==
  /\ played < Len(Script)
  /\ played' = played + 1
  /\ LET s == Script[played']
     IN  /\ Type(MakeLine(s.target, s.vars))
         /\ failed' = failed \cup (IF last'.exit = 0 THEN {} ELSE {s.doc})

MakeSpec == MakeInit /\ [][Make]_makeVars

(* README.md:337-341 and docs/running.md:134-430 ask the reader to run     *)
(* these commands; with the artifacts there that the text takes for        *)
(* granted, every one of them succeeds.  So does a derivation where the    *)
(* receipt is missing: batch_runner.go:14-16 says that it "does not        *)
(* require the prover or any receipts -- just the leaf claim files".       *)
DocumentedCommandsSucceed == played = Len(Script) => failed = {}
=============================================================================

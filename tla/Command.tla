------------------------------- MODULE Command -------------------------------
(***************************************************************************)
(* What `jack run` asks of the manager: the flags, the target and the      *)
(* words of a command line, and the request that becomes of them.          *)
(*                                                                         *)
(* A command is [flags, target, parts, words, lockMode]:                   *)
(*   flags     the targeting flags that are set                            *)
(*   target    what they say to target; with --file, the lines of the file *)
(*   parts     the parts of the task's name                                *)
(*   words     its arguments: [key, value], where key is None unless the   *)
(*             word has the form key=value                                 *)
(*   lockMode  what --lock-mode was given                                  *)
(* Every value is a string: "text", or "json" when it holds JSON.          *)
(***************************************************************************)
EXTENDS Naturals, SequencesExt, FiniteSets

CONSTANT None

-----------------------------------------------------------------------------
(* Arguments *)

Positional(words) == SelectSeq(words, LAMBDA w : w.key = None)

\* The last value of a key counts.
Options(words) ==
    LET keys == {words[i].key : i \in DOMAIN words} \ {None}
        given(k) == CHOOSE i \in DOMAIN words :
                        /\ words[i].key = k
                        /\ \A j \in DOMAIN words : words[j].key = k => j <= i
    IN  [k \in keys |-> words[given(k)].value]

\* ParseArgs: a positional word after a key is an error.
Parsable(words) ==
    ~\E i, j \in DOMAIN words : i < j /\ words[i].key # None /\ words[j].key = None

\* Both parts of the input are there, even when they are empty.
Input(words) ==
    [args |-> [i \in DOMAIN Positional(words) |-> Positional(words)[i].value],
     options |-> Options(words)]

-----------------------------------------------------------------------------
(* Flags *)

\* Target.Mode; a glob unless a flag says otherwise.
Mode(flags) ==
    CASE flags = {"target"} -> "EXACT"
      [] flags \in {{"list"}, {"file"}} -> "LIST"
      [] flags \in {{"glob"}, {}} -> "GLOB"
      [] flags = {"regexp"} -> "REGEX"
      [] flags = {"query"} -> "QUERY"

\* What is targeted: with --file, a list that has each line of the file once.
Target(flags, target) ==
    IF flags = {"file"} THEN [ok |-> TRUE, matches |-> ToSet(target)] ELSE target

\* parseLockMode
LockModeAsked(flag) ==
    IF flag \in {"none", "write", "exclusive"} THEN flag ELSE "unspecified"

-----------------------------------------------------------------------------
\* The flags exclude each other, and arguments that cannot be parsed end the command
\* before anything is sent.
Sends(command) == Cardinality(command.flags) <= 1 /\ Parsable(command.words)

TaskRequest(command) ==
    [parts |-> command.parts, input |-> Input(command.words),
     mode |-> Mode(command.flags), target |-> Target(command.flags, command.target),
     lockMode |-> LockModeAsked(command.lockMode)]
=============================================================================

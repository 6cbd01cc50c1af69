----------------------------- MODULE MCTeamRun -----------------------------
(***************************************************************************)
(* Teams of the application, cut down: two writers and a reviewer; a       *)
(* reviewer of the writer's own vendor; a planner before a writer; an      *)
(* architect that writes first; reviewers without a writer; a tester that  *)
(* may write; a capped budget; and, one seat at a time, two reviewers, and *)
(* a writer after the reviewer.                                            *)
(***************************************************************************)
EXTENDS TeamRun
CONSTANTS Unlimited

Writes(role, harness) == [role |-> role, harness |-> harness, mayWrite |-> TRUE]
Reads(role, harness)  == [role |-> role, harness |-> harness, mayWrite |-> FALSE]

Strict(seats, serial)  == [seats |-> seats, serial |-> serial, policy |-> "STRICT", budget |-> Unlimited]

MCRequests ==
  { Strict(<<Writes("coder", "claude"), Writes("debugger", "codex"), Reads("reviewer", "grok")>>, FALSE),
    Strict(<<Writes("coder", "claude"), Reads("reviewer", "claude")>>, FALSE),
    Strict(<<Reads("planner", "claude"), Writes("coder", "claude"), Reads("reviewer", "codex")>>, FALSE),
    Strict(<<Writes("architect", "codex"), Writes("coder", "claude"), Reads("reviewer", "codex")>>, FALSE),
    Strict(<<Reads("reviewer", "claude"), Reads("security", "codex")>>, FALSE),
    Strict(<<Writes("tester", "claude"), Reads("reviewer", "claude")>>, FALSE),
    Strict(<<Writes("coder", "claude"), Reads("tester", "codex"), Reads("reviewer", "grok")>>, TRUE),
    Strict(<<Writes("coder", "claude"), Reads("reviewer", "codex"), Writes("debugger", "claude")>>, TRUE),
    [seats |-> <<Writes("coder", "claude"), Reads("reviewer", "claude"), Reads("tester", "codex")>>,
     serial |-> FALSE, policy |-> "ADVISORY", budget |-> 2] }

MCCharges == 0 .. 1
=============================================================================

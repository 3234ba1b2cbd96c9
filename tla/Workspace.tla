----------------------------- MODULE Workspace -----------------------------
(***************************************************************************)
(* The file tools (builtin_tools.go) under StaleReadGuard                  *)
(* (tool_middleware.go): sessions, each with a guard over its own log, and *)
(* programs outside them work on one file.  A guarded call checks the file *)
(* against the last hash in the log, works on it in system calls that      *)
(* others may come between, and records the hash of what is there then.    *)
(*                                                                         *)
(* The content of the file is a version number: each write makes a new     *)
(* one; Empty is the file os.WriteFile has truncated, Absent is no file.   *)
(***************************************************************************)
EXTENDS Naturals

CONSTANTS Sessions,     \* sessions whose tools may touch the file
          NoSession,    \* a program outside them
          MaxVersions   \* bound: contents written

ASSUME WorkspaceAssumption == MaxVersions \in Nat /\ NoSession \notin Sessions

Absent == 0
Empty == 1
FirstVersion == 2

VARIABLES file,         \* the content on disk
          versions,     \* history: the newest version
          requireRead,  \* StaleReadGuard.RequireRead or Strict
          hash,         \* per session: the last hash in its log, Absent for none
          call,         \* per session: the tool call under way
          seen,         \* history: contents a session was shown or wrote
          raced         \* history: others changed the file during the call
                        \* that recorded the session's last hash

workspaceVars == <<file, versions, requireRead, hash, call, seen, raced>>

(* disturbed: others have changed the file since the call began. *)
NoToolCall == [pc |-> "idle", disturbed |-> FALSE]

WorkspaceInit ==
  /\ file \in {Absent, FirstVersion} /\ versions = FirstVersion
  /\ requireRead \in BOOLEAN
  /\ hash = [s \in Sessions |-> Absent]
  /\ call = [s \in Sessions |-> NoToolCall]
  /\ seen = [s \in Sessions |-> {}] /\ raced = [s \in Sessions |-> FALSE]

InCall(s, pc) == call[s].pc = pc
Go(s, pc) == call' = [call EXCEPT ![s].pc = pc]
Leave(s) == call' = [call EXCEPT ![s] = NoToolCall]

(* A change of the file disturbs the calls of the others. *)
DisturbedBy(who, calls) ==
  [s \in Sessions |-> IF s = who \/ InCall(s, "idle") THEN calls[s]
                      ELSE [calls[s] EXCEPT !.disturbed = TRUE]]

-----------------------------------------------------------------------------
StartTool(s, tool) ==
  /\ InCall(s, "idle")
  /\ Go(s, tool)
  /\ UNCHANGED <<file, versions, requireRead, hash, seen, raced>>

(* BuiltinReadFile fails where there is no file. *)
ReadTheFile(s) ==
  /\ InCall(s, "read")
  /\ IF file = Absent THEN Leave(s) /\ UNCHANGED seen
     ELSE Go(s, "record") /\ seen' = [seen EXCEPT ![s] = @ \cup {file}]
  /\ UNCHANGED <<file, versions, requireRead, hash, raced>>

(* StaleReadGuard.check.  CheckedOnce, the mutant, asks only for a read at  *)
(* some time.                                                              *)
CheckedOnce(s) == hash[s] # Absent

Checked(s) ==
  IF hash[s] = Absent THEN file = Absent \/ ~requireRead ELSE file = hash[s]

CheckFile(s) ==
  /\ \/ InCall(s, "write") /\ (IF Checked(s) THEN Go(s, "truncate") ELSE Leave(s))
     \/ InCall(s, "edit") /\ (IF Checked(s) THEN Go(s, "edit text") ELSE Leave(s))
  /\ UNCHANGED <<file, versions, requireRead, hash, seen, raced>>

(* BuiltinEditFile reads the file again; its text may not be there. *)
EditReads(s) ==
  /\ InCall(s, "edit text")
  /\ \/ Leave(s)
     \/ file # Absent /\ Go(s, "truncate")
  /\ UNCHANGED <<file, versions, requireRead, hash, seen, raced>>

(* os.WriteFile, which may fail to open the file. *)
TruncateFile(s) ==
  /\ InCall(s, "truncate")
  /\ \/ Leave(s) /\ UNCHANGED file
     \/ /\ file' = Empty
        /\ call' = DisturbedBy(s, [call EXCEPT ![s].pc = "content"])
  /\ UNCHANGED <<versions, requireRead, hash, seen, raced>>

WriteContent(s) ==
  /\ InCall(s, "content") /\ versions < MaxVersions
  /\ versions' = versions + 1
  /\ file' = IF file = Absent THEN Absent ELSE versions'
  /\ call' = DisturbedBy(s, [call EXCEPT ![s].pc = "record"])
  /\ seen' = [seen EXCEPT ![s] = @ \cup {versions'}]
  /\ UNCHANGED <<requireRead, hash, raced>>

(* recordFileHash: of what is there now.  The append may be refused. *)
RecordHash(s) ==
  /\ InCall(s, "record")
  /\ \/ UNCHANGED <<hash, raced>>
     \/ /\ file # Absent /\ hash' = [hash EXCEPT ![s] = file]
        /\ raced' = [raced EXCEPT ![s] = call[s].disturbed]
  /\ Leave(s)
  /\ UNCHANGED <<file, versions, requireRead, seen>>

(* The tool is stopped where it is, or its process is. *)
ToolStops(s) ==
  /\ ~InCall(s, "idle")
  /\ Leave(s)
  /\ UNCHANGED <<file, versions, requireRead, hash, seen, raced>>

OutsideWrites ==
  /\ versions < MaxVersions
  /\ versions' = versions + 1 /\ file' = versions'
  /\ call' = DisturbedBy(NoSession, call)
  /\ UNCHANGED <<requireRead, hash, seen, raced>>

OutsideRemoves ==
  /\ file # Absent /\ file' = Absent
  /\ call' = DisturbedBy(NoSession, call)
  /\ UNCHANGED <<versions, requireRead, hash, seen, raced>>

WorkspaceNext ==
  \/ OutsideWrites \/ OutsideRemoves
  \/ \E s \in Sessions :
       \/ \E tool \in {"read", "write", "edit"} : StartTool(s, tool)
       \/ ReadTheFile(s) \/ CheckFile(s) \/ EditReads(s) \/ TruncateFile(s)
       \/ WriteContent(s) \/ RecordHash(s) \/ ToolStops(s)

WorkspaceSpec == WorkspaceInit /\ [][WorkspaceNext]_workspaceVars

-----------------------------------------------------------------------------
(* A guarded session that is about to truncate the file destroys no content *)
(* that it has not been shown or written itself, however its calls and      *)
(* those of others interleave, unless the other's write fell inside a call  *)
(* of the session: between the check and the write, or between a read or a  *)
(* write and the recording of the hash, which is of what is there then.    *)
NothingUnseenIsLost ==
  \A s \in Sessions :
    InCall(s, "truncate") /\ file \notin {Absent, Empty} =>
      \/ file \in seen[s] \/ raced[s] \/ call[s].disturbed
      \/ hash[s] = Absent /\ ~requireRead
=============================================================================

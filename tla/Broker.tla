------------------------------- MODULE Broker -------------------------------
(***************************************************************************)
(* SandboxBroker (broker.py): disposable workspaces on the host, with      *)
(* quotas.  A file is written first and the disk quota looked at           *)
(* afterwards; several callers may work in one workspace, and any of them  *)
(* may die in between.  A path stands for one that _resolve admits, a file *)
(* for its size; reading changes nothing and is left out.                  *)
(***************************************************************************)
EXTENDS Integers, FiniteSetsExt

CONSTANTS
  Callers,    \* callers of the broker
  Paths,      \* relative paths in the workspace
  Sizes,      \* sizes of contents
  MaxFile,    \* max_bytes_per_file
  MaxFetch,   \* max_fetch_bytes
  MaxTotal,   \* max_total_bytes
  MaxFiles,   \* max_files
  Allowed,    \* whether the URL's scheme and host may be allowed
  MaxCalls    \* bound: calls, in all

ASSUME BrokerAssumption ==
  /\ Sizes \subseteq Nat \ {0}
  /\ {MaxFile, MaxFetch, MaxTotal, MaxFiles, MaxCalls} \subseteq Nat
  /\ Allowed \subseteq BOOLEAN

None == -1   \* the size of a file that does not exist

VARIABLES
  exists,   \* whether the workspace does
  files,    \* the size of each file in it
  caller,   \* each caller's place in its call
  shaken,   \* the callers that look at the quota while a file has gone
  missed,   \* history: the paths after whose latest write nobody has looked
  left      \* what is left of the calls

brokerVars == <<exists, files, caller, shaken, missed, left>>

-----------------------------------------------------------------------------
Present == {path \in Paths : files[path] # None}
FileCount == Cardinality(Present)
DiskUsage == MapThenSumSet(LAMBDA path : files[path], Present)

Idle == [at |-> "idle", path |-> CHOOSE path \in Paths : TRUE, report |-> "none"]

BrokerInit ==
  /\ exists = FALSE
  /\ files = [path \in Paths |-> None]
  /\ caller = [c \in Callers |-> Idle]
  /\ shaken = {} /\ missed = {} /\ left = MaxCalls

Calling(c) == caller[c].at = "idle" /\ left > 0 /\ left' = left - 1
Answer(c, report) == caller' = [caller EXCEPT ![c] = [Idle EXCEPT !.report = report]]

\* The scan of another caller may stumble over a file that goes meanwhile.
Looking == {c \in Callers : caller[c].at = "check"}
Shake(c) == shaken' = IF files' = files THEN shaken \ {c} ELSE Looking \ {c}

CreateWorkspace(c) ==
  /\ Calling(c) /\ exists' = TRUE
  /\ Answer(c, "done")
  /\ UNCHANGED <<files, shaken, missed>>

DestroyWorkspace(c) ==
  /\ Calling(c) /\ exists' = FALSE
  /\ files' = [path \in Paths |-> None] /\ Shake(c)
  /\ Answer(c, "done")
  /\ UNCHANGED missed

\* write_bytes, which makes the directories it needs and overwrites.
Written(c, path, size) ==
  /\ exists' = TRUE
  /\ files' = [files EXCEPT ![path] = size] /\ missed' = missed \ {path}
  /\ caller' = [caller EXCEPT ![c] = [Idle EXCEPT !.at = "check", !.path = path]]

Refuse(c) == Answer(c, "refused") /\ UNCHANGED <<files, missed>>

\* write_text, up to the write.  When there are too many files the directories
\* have been made already.
WriteText(c) ==
  /\ Calling(c)
  /\ \E path \in Paths, size \in Sizes :
       \/ size > MaxFile /\ Refuse(c) /\ UNCHANGED exists
       \/ /\ size <= MaxFile
          /\ IF FileCount >= MaxFiles /\ files[path] = None
             THEN Refuse(c) /\ exists' = TRUE ELSE Written(c, path, size)
  /\ UNCHANGED shaken

\* fetch_to_file asks nothing about the number of files.
FetchToFile(c) ==
  /\ Calling(c)
  /\ \E path \in Paths, size \in Sizes, allowed \in Allowed :
       IF ~allowed \/ size > MaxFetch \/ size > MaxFile
       THEN Refuse(c) /\ UNCHANGED exists ELSE Written(c, path, size)
  /\ UNCHANGED shaken

\* Mutant: the file stays although the write is refused.
CheckOnly(c) ==
  /\ caller[c].at = "check"
  /\ Answer(c, IF DiskUsage > MaxTotal THEN "refused" ELSE "done")
  /\ UNCHANGED <<exists, files, missed, left>> /\ Shake(c)

\* The disk quota, for both: the file goes, whatever was there before.
Check(c) ==
  /\ caller[c].at = "check"
  /\ IF DiskUsage > MaxTotal
     THEN Answer(c, "refused") /\ files' = [files EXCEPT ![caller[c].path] = None]
     ELSE Answer(c, "done") /\ UNCHANGED files
  /\ UNCHANGED <<exists, missed, left>> /\ Shake(c)

\* Nobody looks after the write.
Unchecked(c) ==
  /\ caller[c].at = "check"
  /\ missed' = missed \cup {caller[c].path} /\ shaken' = shaken \ {c}
  /\ UNCHANGED <<exists, files, left>>

\* disk_usage raises: a file it has met is gone when it asks for the size.
LookFails(c) == c \in shaken /\ Unchecked(c) /\ Answer(c, "failed")

Die(c) == Unchecked(c) /\ caller' = [caller EXCEPT ![c] = Idle]

BrokerNext ==
  \E c \in Callers :
    \/ CreateWorkspace(c) \/ DestroyWorkspace(c) \/ WriteText(c) \/ FetchToFile(c)
    \/ Check(c) \/ LookFails(c) \/ Die(c)

-----------------------------------------------------------------------------

\* The workspace never stays above its disk quota: what is beyond it was written
\* by somebody who is still to look, or whose look never came, for it has died
\* or met a file that had just gone; and what several callers write at once adds
\* up to no more (broker.py:72-74, 97, 123-125).
WithinQuota ==
  MapThenSumSet(LAMBDA path : files[path], Present \ (missed \cup {caller[c].path : c \in Looking})) <= MaxTotal
=============================================================================

------------------------------ MODULE Avatars ------------------------------
(***************************************************************************)
(* The avatar of a user: a file below /uploads (storage/local.go) and its  *)
(* URL in the row of the user (SetAvatar and ClearAvatar of                *)
(* user_service.go, SetAvatarURL of user_repo.go, and their handlers).     *)
(*                                                                         *)
(* Files and row change one after the other, in no transaction; a call may *)
(* fail between two of its steps.  A file's name has the second of its     *)
(* upload and its extension in it, so that a name may come twice.          *)
(***************************************************************************)
EXTENDS Naturals, FiniteSets

CONSTANTS
  Client, \* requests of one user
  Name,   \* names a file may get
  NoFile

ASSUME AvatarAssumption == NoFile \notin Name

VARIABLES
  files,   \* the names on the disk of the files of the user
  url,     \* users.avatar_url, as the name of the file it leads to
  step,    \* where a request is
  name,    \* of the file of an upload
  alone    \* the request ran with no other

avatarVars == <<files, url, step, name, alone>>

Running(c) == step[c] \notin {"idle", "done", "failed"}
SomeoneElse(c) == \E d \in Client \ {c} : Running(d)

AvatarInit ==
  /\ files = {}
  /\ url = NoFile
  /\ step = [c \in Client |-> "idle"]
  /\ name = [c \in Client |-> NoFile]
  /\ alone = [c \in Client |-> TRUE]

\* A request begins; the checks of type and content that refuse an upload come first
\* and change nothing.
Begin(c, s, n) ==
  /\ step[c] \in {"idle", "done", "failed"}
  /\ step' = [step EXCEPT ![c] = s]
  /\ name' = [name EXCEPT ![c] = n]
  /\ alone' = [d \in Client |-> IF d = c THEN ~ SomeoneElse(c)
                                ELSE alone[d] /\ ~ Running(d)]
  /\ UNCHANGED <<files, url>>

Proceed(c, s) == step' = [step EXCEPT ![c] = s]

\* Faulty variant: a file of another extension is kept.
KeptOthers(c) == {n \in files : n # name[c]}

\* removeUserAvatars takes every file of the user away.
Remaining(c) == {}

RemoveFiles(c, next) ==
  /\ files' = Remaining(c)
  /\ Proceed(c, next)
  /\ UNCHANGED <<url, name, alone>>

\* SaveAvatar
RemoveOld(c) == step[c] = "upload" /\ RemoveFiles(c, "create")

CreateFile(c) ==
  /\ step[c] = "create"
  /\ files' = files \cup {name[c]}
  /\ Proceed(c, "link")
  /\ UNCHANGED <<url, name, alone>>

\* SetAvatarURL
Link(c) ==
  /\ step[c] = "link"
  /\ url' = name[c]
  /\ Proceed(c, "done")
  /\ UNCHANGED <<files, name, alone>>

\* ClearAvatar
RemoveAll(c) == step[c] = "delete" /\ RemoveFiles(c, "unlink")

ClearUrl(c) ==
  /\ step[c] = "unlink"
  /\ url' = NoFile
  /\ Proceed(c, "done")
  /\ UNCHANGED <<files, name, alone>>

\* The disk or the database fails, or the process ends.
Fail(c) ==
  /\ Running(c)
  /\ Proceed(c, "failed")
  /\ UNCHANGED <<files, url, name, alone>>

AvatarNext ==
  \E c \in Client :
    \/ \E n \in Name : Begin(c, "upload", n)
    \/ Begin(c, "delete", NoFile)
    \/ RemoveOld(c) \/ CreateFile(c) \/ Link(c) \/ RemoveAll(c) \/ ClearUrl(c) \/ Fail(c)

AvatarSpec == AvatarInit /\ [][AvatarNext]_avatarVars

----------------------------------------------------------------------------
(* Properties. *)

\* Whatever failed or overlapped before, a request that ran with no other leaves the
\* user with the one file the row leads to, or with none: "Old files for the same user
\* are removed so we don't accumulate orphans."
LeavesOneFile ==
  \A c \in Client : Running(c) /\ step'[c] = "done" /\ alone[c] => files' = {url'} \ {NoFile}
UploadRepairs == [][LeavesOneFile]_avatarVars
============================================================================

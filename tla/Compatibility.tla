--------------------------- MODULE Compatibility ---------------------------
(***************************************************************************)
(* Saved people and the reports on them (compatibility_service.go, its     *)
(* handler, compatibility_repo.go, migration 001): a report is written by  *)
(* the language model from the birth data of a person the user has saved.  *)
(*                                                                         *)
(* Generating reads the person, looks for a report of the last hour, asks  *)
(* the model and inserts the row; anything may happen between these steps. *)
(* The text is left out, the birth profile is taken to exist, and the      *)
(* scores are one number, 101 standing for those the table refuses.        *)
(***************************************************************************)
EXTENDS Naturals, Sequences, FiniteSets

CONSTANTS
  User, Person,
  Call,      \* requests for a report
  Score,     \* what the model may answer
  MaxReports \* bound: rows

ASSUME CompatAssumption == "none" \notin User \union Person

VARIABLES
  owner,   \* saved_people: person -> user, or "none"
  reports, \* compatibility_reports in the order they were created
  call     \* [stage, user, person, report]

compatVars == <<owner, reports, call>>

Idle == [stage |-> "idle", user |-> "none", person |-> "none", report |-> 0]

Exists(p) == owner[p] # "none"

\* The rows on a person of a user, by their place; a report stays there, and is known by
\* it, until it is removed.
Of(u, p) == {i \in DOMAIN reports : reports[i].user = u /\ reports[i].person = p
                                    /\ reports[i].kept}

\* GetByUserAndPerson: the newest, joined with the person.
Newest(u, p) == {i \in Of(u, p) : Exists(p) /\ \A j \in Of(u, p) : j <= i}

CompatInit ==
  /\ owner = [p \in Person |-> "none"]
  /\ reports = <<>>
  /\ call = [c \in Call |-> Idle]

AddPerson(u, p) ==
  /\ owner[p] = "none"
  /\ \A i \in DOMAIN reports : reports[i].person # p \* an id is never given twice
  /\ \A c \in Call : call[c].person # p
  /\ owner' = [owner EXCEPT ![p] = u]
  /\ UNCHANGED <<reports, call>>

\* The user must own the person.  Its reports go with it (ON DELETE CASCADE).
DeletePerson(u, p) ==
  /\ owner[p] = u
  /\ owner' = [owner EXCEPT ![p] = "none"]
  /\ reports' = [i \in DOMAIN reports |->
                   IF reports[i].person = p THEN [reports[i] EXCEPT !.kept = FALSE]
                   ELSE reports[i]]
  /\ UNCHANGED call

\* An hour passes: reports are no longer fresh.
Ages ==
  /\ reports' = [i \in DOMAIN reports |-> [reports[i] EXCEPT !.fresh = FALSE]]
  /\ UNCHANGED <<owner, call>>

Go(c, record) == call' = [call EXCEPT ![c] = record]

\* Faulty variant: it is not asked whose person it is.
MayReadAny(u, p) == Exists(p)

MayRead(u, p) == owner[p] = u

\* The person is loaded; a person that is not the user's is not found.
LoadPerson(c, u, p) ==
  /\ call[c].stage \in {"idle", "answered", "failed"}
  /\ Go(c, [stage |-> IF MayRead(u, p) THEN "loaded" ELSE "failed",
            user |-> u, person |-> p, report |-> 0])
  /\ UNCHANGED <<owner, reports>>

\* A report of the last hour is the answer, and the model is not asked.
FindRecent(c) ==
  LET fresh == {i \in Newest(call[c].user, call[c].person) : reports[i].fresh} IN
  /\ call[c].stage = "loaded"
  /\ Go(c, IF fresh = {} THEN [call[c] EXCEPT !.stage = "asking"]
           ELSE [call[c] EXCEPT !.stage = "answered", !.report = CHOOSE i \in fresh : TRUE])
  /\ UNCHANGED <<owner, reports>>

\* The model answers and the row is inserted: the person must still exist and the
\* scores be in range.
StoreReport(c, score) ==
  /\ call[c].stage = "asking"
  /\ Len(reports) < MaxReports
  /\ IF Exists(call[c].person) /\ score <= 100
     THEN /\ reports' = Append(reports, [user |-> call[c].user, person |-> call[c].person,
                                         kept |-> TRUE, fresh |-> TRUE])
          /\ Go(c, [call[c] EXCEPT !.stage = "answered", !.report = Len(reports) + 1])
     ELSE Go(c, [call[c] EXCEPT !.stage = "failed"]) /\ UNCHANGED reports
  /\ UNCHANGED owner

\* The model cannot be reached, or writes no JSON.
ModelFails(c) ==
  /\ call[c].stage = "asking"
  /\ Go(c, [call[c] EXCEPT !.stage = "failed"])
  /\ UNCHANGED <<owner, reports>>

CompatNext ==
  \/ \E u \in User, p \in Person : AddPerson(u, p) \/ DeletePerson(u, p)
  \/ \E c \in Call, u \in User, p \in Person : LoadPerson(c, u, p)
  \/ \E c \in Call : FindRecent(c) \/ ModelFails(c)
  \/ \E c \in Call, score \in Score : StoreReport(c, score)
  \/ Ages

CompatSpec == CompatInit /\ [][CompatNext]_compatVars

----------------------------------------------------------------------------
(* Properties. *)

\* A report, stored or being written, is on a person its own user has saved; a kept
\* row's person exists, and an answer names a row on the person asked about.
ReportsStayWithOwner ==
  /\ \A i \in DOMAIN reports : reports[i].kept => owner[reports[i].person] = reports[i].user
  /\ \A c \in Call :
       /\ call[c].stage \in {"loaded", "asking", "answered"} =>
            owner[call[c].person] \in {call[c].user, "none"}
       /\ call[c].stage = "answered" =>
            /\ reports[call[c].report].user = call[c].user
            /\ reports[call[c].report].person = call[c].person
============================================================================

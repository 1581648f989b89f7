------------------------------- MODULE Corpus -------------------------------
(***************************************************************************)
(* The document corpus: the tables documents, sources and                  *)
(* duplicate_matches, and the transactions of internal/documents/repo.go   *)
(* and repo_fingerprint.go that change them.  Every action is one          *)
(* committed transaction; module FingerprintTx splits the long one,        *)
(* FinalizeFingerprint, into its statements and locks and implements this  *)
(* specification.                                                          *)
(*                                                                         *)
(* Files are abstracted to the relations their fingerprints induce: Near   *)
(* is what the candidate queries return, Match what confidentMatches keeps.*)
(* Upload times with their tie-break by id are the total order Rank.       *)
(*                                                                         *)
(* A definition X_Y is X with a plausible bug Y; no specification uses it. *)
(***************************************************************************)
EXTENDS Naturals, FiniteSets

CONSTANTS
    Docs,        \* document ids
    Sources,     \* source (file) ids
    DocOf,       \* the document a source is uploaded to
    Rank,        \* position of a source in the order of upload
    Near,        \* pairs whose fingerprints the candidate queries join
    Match,       \* pairs that are duplicates of one another
    AdminOwned,  \* documents owned by an admin, or by nobody
    MaxSources   \* MAX_SOURCES, files per document

ASSUME CorpusAssumption ==
    /\ DocOf \in [Sources -> Docs]
    /\ Rank \in [Sources -> Nat]
    /\ \A s, t \in Sources : Rank[s] = Rank[t] => s = t
    /\ Near \subseteq Sources \X Sources
    /\ Match \subseteq Near
    /\ \A s, t \in Sources : <<s, t>> \in Match => <<t, s>> \in Match /\ s # t
    /\ AdminOwned \subseteq Docs
    /\ MaxSources \in Nat \ {0}

VARIABLES
    docStatus,   \* documents.status, or "none" / "deleted" for no row
    notified,    \* documents.notified_at IS NOT NULL
    reviewAsked, \* documents.review_requested_at IS NOT NULL
    live,        \* rows of sources
    spent,       \* source ids ever inserted: uuids are not reused
    hash,        \* content_sha256: "none" (NULL), "real", or "missing" (placeholder)
    uniq,        \* sources.uniqueness
    released,    \* sources.released
    dup          \* rows of duplicate_matches

docVars == <<docStatus, notified, reviewAsked>>
srcVars == <<live, spent, hash, uniq, released, dup>>
vars == <<docStatus, notified, reviewAsked, live, spent, hash, uniq, released, dup>>

Statuses == {"processing", "completed", "duplicate", "pending_review", "rejected"}
Roles == {"unique", "original", "duplicate"}

Exists(d) == docStatus[d] \in Statuses
SourcesOf(d) == {s \in live : DocOf[s] = d}
UploadedFirst(s, t) == Rank[s] < Rank[t]

\* publiclyShareable: the statuses under which files are served to anyone.
Shareable(status) == status \in {"completed", "duplicate", "original"}

Candidates_OtherDocs(s) ==
    {t \in live : hash[t] = "real" /\ <<s, t>> \in Near /\ DocOf[t] # DocOf[s]}

\* Sources the queries of a fingerprint of s return, and those kept.  The
\* placeholder fingerprint of a missing blob has a hash of its own.
Candidates(s) == {t \in live : hash[t] = "real" /\ <<s, t>> \in Near}
Matches(s) == {t \in Candidates(s) : <<s, t>> \in Match}

-----------------------------------------------------------------------------
Init ==
    /\ docStatus = [d \in Docs |-> "none"]
    /\ notified = [d \in Docs |-> FALSE]
    /\ reviewAsked = [d \in Docs |-> FALSE]
    /\ live = {}
    /\ spent = {}
    /\ hash = [s \in Sources |-> "none"]
    /\ uniq = [s \in Sources |-> "unique"]
    /\ released = [s \in Sources |-> TRUE]
    /\ dup = {}

\* Rows of new files: no hash, unique, released (the column's default).
InsertRows(S) ==
    /\ live' = live \union S
    /\ spent' = spent \union S
    /\ UNCHANGED <<hash, uniq, released, dup>>

\* InsertDocument: the document and its first files.
Create(d, S) ==
    /\ docStatus[d] = "none"
    /\ S # {} /\ S \intersect spent = {} /\ \A s \in S : DocOf[s] = d
    /\ Cardinality(S) <= MaxSources
    /\ docStatus' = [docStatus EXCEPT ![d] = "processing"]
    /\ InsertRows(S)
    /\ UNCHANGED <<notified, reviewAsked>>

\* InsertSources: more files, whatever the document's status was.
AddSources(d, S) ==
    /\ Exists(d)
    /\ S # {} /\ S \intersect spent = {} /\ \A s \in S : DocOf[s] = d
    /\ Cardinality(SourcesOf(d)) + Cardinality(S) <= MaxSources
    /\ docStatus' = [docStatus EXCEPT ![d] = "processing"]
    /\ notified' = [notified EXCEPT ![d] = FALSE]
    /\ InsertRows(S)
    /\ UNCHANGED reviewAsked

-----------------------------------------------------------------------------
(* FinalizeFingerprint *)

OwnRole_AnyLater(s, M) ==
    IF M = {} THEN "unique"
    ELSE IF \E m \in M : UploadedFirst(s, m) THEN "original" ELSE "duplicate"
OwnRole_NoOrder(s, M) == IF M = {} THEN "unique" ELSE "duplicate"

\* The role of the file just fingerprinted, and of each file it matches.  A
\* file that is a duplicate of something stays one.
OwnRole(s, M) ==
    IF M = {} THEN "unique"
    ELSE IF \A m \in M : UploadedFirst(s, m) THEN "original" ELSE "duplicate"

MatchRole_Overwrites(m, s) == IF UploadedFirst(m, s) THEN "original" ELSE "duplicate"
MatchRole(m, s) ==
    IF UploadedFirst(m, s)
    THEN IF uniq[m] = "duplicate" THEN "duplicate" ELSE "original"
    ELSE "duplicate"

RolesAfter(s, M) ==
    [t \in Sources |->
        IF t = s THEN OwnRole(s, M) ELSE IF t \in M THEN MatchRole(t, s) ELSE uniq[t]]

ReleasedAfter_Siblings(s, role) ==
    [t \in Sources |-> IF DocOf[t] = DocOf[s]
                       THEN DocOf[s] \in AdminOwned \/ role # "duplicate" ELSE released[t]]
ReleasedAfter(s, role) ==
    [released EXCEPT ![s] = DocOf[s] \in AdminOwned \/ role # "duplicate"]

HasUnhashed(S, h) == \E t \in S : h[t] = "none"
HasHeld(S, u, r) == \E t \in S : u[t] = "duplicate" /\ ~r[t]
HasMatched_OriginalsOnly(S, u) == \E t \in S : u[t] = "original"
HasMatched(S, u) == \E t \in S : u[t] \in {"duplicate", "original"}

StatusAfter_Reopens(old, S, h, u, r) ==
    IF HasUnhashed(S, h) THEN "processing"
    ELSE IF HasHeld(S, u, r) THEN "pending_review"
    ELSE IF HasMatched(S, u) THEN "duplicate" ELSE "completed"

\* The CASE expression that recomputes a document's status from its files.
StatusAfter(old, S, h, u, r) ==
    IF old = "rejected" THEN "rejected"
    ELSE IF HasUnhashed(S, h) THEN "processing"
    ELSE IF HasHeld(S, u, r) THEN "pending_review"
    ELSE IF HasMatched(S, u) THEN "duplicate"
    ELSE "completed"

Touchable_OwnOnly(s, k) == {{DocOf[s]}}

\* The documents the transaction locks and recomputes: its own, those of the
\* candidates, and any whose candidate was removed between query and lock.
Touchable(s, k) ==
    LET found == IF k = "real" THEN Candidates(s) ELSE {}
        removed == IF k = "real"
                   THEN {t \in spent \ live : hash[t] = "real" /\ <<s, t>> \in Near}
                   ELSE {}
    IN  {{DocOf[t] : t \in found \union {s} \union more} : more \in SUBSET removed}

\* Effect of the statements after the row locks, for matches M and documents ids.
ApplyFingerprint(s, k, M, ids) ==
    /\ hash' = [hash EXCEPT ![s] = k]
    /\ uniq' = RolesAfter(s, M)
    /\ released' = ReleasedAfter(s, OwnRole(s, M))
    /\ dup' = dup \union ({s} \X M) \union (M \X {s})
    /\ docStatus' = [d \in Docs |->
           IF d \in ids /\ Exists(d)
           THEN StatusAfter(docStatus[d], SourcesOf(d), hash', uniq', released')
           ELSE docStatus[d]]
    /\ reviewAsked' = [d \in Docs |->
           reviewAsked[d] \/ (d \in ids /\ Exists(d) /\ HasHeld(SourcesOf(d), uniq', released'))]
    /\ notified' = [d \in Docs |->
           notified[d] \/ (d \in ids /\ Exists(d) /\ docStatus'[d] # "processing")]
    /\ UNCHANGED <<live, spent>>

Finalize(s, k, ids) ==
    /\ s \in live
    /\ hash[s] = "none"
    /\ ids \in Touchable(s, k)
    /\ ApplyFingerprint(s, k, IF k = "real" THEN Matches(s) ELSE {}, ids)

-----------------------------------------------------------------------------
(* Review decisions and removal *)

\* Deleted rows take their duplicate_matches along (ON DELETE CASCADE).
RemoveRows(S) ==
    /\ live' = live \ S
    /\ dup' = {p \in dup : p[1] \notin S /\ p[2] \notin S}
    /\ UNCHANGED <<spent, hash, uniq, released>>

Approve(d) ==
    /\ docStatus[d] = "pending_review"
    /\ released' = [s \in Sources |-> released[s] \/ s \in SourcesOf(d)]
    /\ docStatus' = [docStatus EXCEPT ![d] =
           IF HasUnhashed(SourcesOf(d), hash) THEN "processing"
           ELSE IF HasMatched(SourcesOf(d), uniq) THEN "duplicate" ELSE "completed"]
    /\ notified' = [notified EXCEPT ![d] = FALSE]
    /\ UNCHANGED <<reviewAsked, live, spent, hash, uniq, dup>>

\* RejectPending: the files go, the document stays as the record of the decision.
Reject(d) ==
    /\ docStatus[d] = "pending_review"
    /\ RemoveRows(SourcesOf(d))
    /\ docStatus' = [docStatus EXCEPT ![d] = "rejected"]
    /\ UNCHANGED <<notified, reviewAsked>>

Delete(d) ==
    /\ Exists(d)
    /\ RemoveRows(SourcesOf(d))
    /\ docStatus' = [docStatus EXCEPT ![d] = "deleted"]
    /\ UNCHANGED <<notified, reviewAsked>>

Next ==
    \/ \E d \in Docs, S \in SUBSET Sources : Create(d, S) \/ AddSources(d, S)
    \/ \E s \in Sources, k \in {"real", "missing"} :
           \E ids \in Touchable(s, k) : Finalize(s, k, ids)
    \/ \E d \in Docs : Approve(d) \/ Reject(d) \/ Delete(d)

Spec == Init /\ [][Next]_vars

-----------------------------------------------------------------------------
(* Properties *)

TypeOK ==
    /\ docStatus \in [Docs -> Statuses \union {"none", "deleted"}]
    /\ notified \in [Docs -> BOOLEAN]
    /\ reviewAsked \in [Docs -> BOOLEAN]
    /\ live \subseteq spent /\ spent \subseteq Sources
    /\ hash \in [Sources -> {"none", "real", "missing"}]
    /\ uniq \in [Sources -> Roles]
    /\ released \in [Sources -> BOOLEAN]
    /\ dup \subseteq Sources \X Sources

Earlier(s, t) == UploadedFirst(t, s)
RowsOf(s) == {t \in Sources : <<s, t>> \in dup}

\* A document's status always says what its files are, although it is only
\* recomputed for the documents a transaction touches: another document's
\* fingerprint, an approval or a removal never leaves it behind.  A rejected
\* document that has files again has been taken up by AddSources.
StatusDerived ==
    \A d \in Docs :
        /\ ~Exists(d) \/ docStatus[d] = "rejected" => SourcesOf(d) = {}
        /\ Exists(d) /\ docStatus[d] # "rejected" =>
               /\ SourcesOf(d) # {}
               /\ docStatus[d] = StatusAfter("processing", SourcesOf(d), hash, uniq, released)

\* A file that waits for an admin's decision is never in a document that is
\* publicly shareable (PublicView), whatever its neighbours' roles become.
HeldNeverShared ==
    \A s \in live : ~released[s] => ~Shareable(docStatus[DocOf[s]])

\* No match is lost: of two files that match and are both fingerprinted, in
\* either order, the pair is recorded in both directions.
MatchComplete ==
    \A s, t \in live :
        hash[s] = "real" /\ hash[t] = "real" /\ <<s, t>> \in Match =>
            <<s, t>> \in dup /\ <<t, s>> \in dup

\* The rows of duplicate_matches are symmetric and join fingerprinted files
\* that are still there: a decision never leaves a row behind.
RowsSound ==
    \A p \in dup :
        /\ <<p[2], p[1]>> \in dup
        /\ p \in Match
        /\ \A i \in {1, 2} : p[i] \in live /\ hash[p[i]] = "real"

\* Roles agree with the rows: a file with a row to an earlier upload is a
\* duplicate (no later fingerprint turns it into an original), and a file with
\* any row is not unique.
RolesSound ==
    \A s \in live :
        /\ (\E t \in RowsOf(s) : Earlier(s, t)) => uniq[s] = "duplicate"
        /\ RowsOf(s) # {} => uniq[s] # "unique"
        /\ hash[s] # "real" => uniq[s] = "unique"

\* While nothing has been removed, roles depend on what was uploaded when, and
\* not on the order in which the workers fingerprinted it.
RoleByUploads(s) ==
    LET same == {t \in live : hash[t] = "real" /\ <<s, t>> \in Match}
    IN  IF same = {} THEN "unique"
        ELSE IF \E t \in same : Earlier(s, t) THEN "duplicate" ELSE "original"

RolesByUploadOrder ==
    spent = live => \A s \in live : hash[s] = "real" => uniq[s] = RoleByUploads(s)

\* Whoever waits for the outcome is told: a document whose files are all
\* fingerprinted has been marked for notification, except after an approval,
\* which clears the mark and notifies the owner itself.
FinishedIsAnnounced ==
    \A d \in Docs : docStatus[d] \in {"pending_review", "completed", "rejected"} => notified[d]

\* A hold is only lifted by an admin: an unreleased file becomes released in a
\* step in which its document leaves pending_review and keeps its files.
ReleaseIsDecided ==
    [][\A s \in live : ~released[s] /\ released'[s] =>
          /\ docStatus[DocOf[s]] = "pending_review"
          /\ \A t \in SourcesOf(DocOf[s]) : t \in live' /\ released'[t]]_vars

\* A rejection stands: only new files, or deletion, end it.
RejectionStands ==
    [][\A d \in Docs : docStatus[d] = "rejected" /\ docStatus'[d] # "rejected" =>
          \/ docStatus'[d] = "deleted"
          \/ docStatus'[d] = "processing" /\ \E s \in live' \ live : DocOf[s] = d]_vars

\* The comment on PublicView: a duplicate cannot be downloaded before an admin
\* acts.  So a member's file that turns out to be a duplicate is not in a
\* shareable document afterwards.  The code holds only the file it has just
\* fingerprinted (released is set WHERE s.id = $1), not the files it matches.
NewDuplicateIsHeld ==
    [][\A s \in live : DocOf[s] \notin AdminOwned /\ uniq[s] = "unique" /\ uniq'[s] = "duplicate" =>
          ~Shareable(docStatus'[DocOf[s]])]_vars
=============================================================================

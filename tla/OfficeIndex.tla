----------------------------- MODULE OfficeIndex ----------------------------
(***************************************************************************)
(* The index of the office: the daily job that turns files into anchors    *)
(* and vectors (workers/office-indexer-worker).  Two runs of the job may   *)
(* overlap; one may stop anywhere, and a file that failed is tried again   *)
(* the next day.                                                           *)
(*                                                                         *)
(* A text is the sequence of its lines that are not blank; anchor i of a   *)
(* file is its i-th line.  A PDF is indexed with no anchors.  The binding  *)
(* of Vectorize or of the model may be missing, as the first is in the     *)
(* wrangler.toml of the repository: then files are indexed without vectors. *)
(***************************************************************************)
EXTENDS Naturals, Sequences, FiniteSets

CONSTANTS Files, Texts,     \* Texts: what clients upload, of up to MaxLines lines
          MaxLines,
          Runs,             \* bound: runs of the job that overlap
          MaxTime           \* bound: times at which something is written

VARIABLES now,
          blob,        \* the text of each file in R2
          updated_at, indexed_at,   \* of its row; 0 is NULL
          anchor,      \* rows: <<file, i>> and the preview
          vector,      \* ids in Vectorize
          run,         \* the runs
          covered,     \* the text each file was last indexed with
          bound,       \* the deployment binds OFFICE_VECTORS and AI
          embedded,    \* files last indexed by a run that had the bindings
          found        \* the anchors the last search or answer gave

files == <<now, blob, updated_at>>
vars  == <<files, indexed_at, anchor, vector, run, covered, bound, embedded, found>>
index == <<files, indexed_at, anchor, vector, run, covered, bound, embedded>>

Lines  == UNION {{t[i] : i \in DOMAIN t} : t \in Texts}
Anchor == [file : Files, i : 1..MaxLines, preview : Lines]
Run    == [pc : {"idle", "anchors", "vectors", "mark"}, file : Files, text : Texts,
           next : 1..(MaxLines + 1), embeds : BOOLEAN]

IndexAssumption == /\ MaxLines \in Nat /\ MaxTime \in Nat \ {0}
                   /\ Texts \subseteq Seq(Lines) /\ \A t \in Texts : Len(t) <= MaxLines

Init == /\ now = 1
        /\ blob \in [Files -> Texts] /\ updated_at = [f \in Files |-> 1]
        /\ indexed_at = [f \in Files |-> 0]
        /\ anchor = {} /\ vector = {}
        /\ \E f \in Files :
             run = [r \in Runs |-> [pc |-> "idle", file |-> f, text |-> blob[f], next |-> 1,
                                   embeds |-> FALSE]]
        /\ covered = blob /\ bound \in BOOLEAN /\ embedded = {} /\ found = {}
-----------------------------------------------------------------------------
\* External: a client replaces a file and its row, later than anything before.
Upload(f, t) ==
    /\ now < MaxTime /\ now' = now + 1
    /\ blob' = [blob EXCEPT ![f] = t] /\ updated_at' = [updated_at EXCEPT ![f] = now + 1]
    /\ UNCHANGED <<indexed_at, anchor, vector, run, covered, bound, embedded, found>>

\* External: a deployment adds the bindings.
Deploy == /\ ~bound /\ bound' = TRUE
          /\ UNCHANGED <<files, indexed_at, anchor, vector, run, covered, embedded, found>>

Stale(f) == indexed_at[f] = 0 \/ indexed_at[f] < updated_at[f]

\* A file selected, and its text read; the bindings are those of the invocation.
extractText(r, f) ==
    /\ run[r].pc = "idle" /\ Stale(f)
    /\ run' = [run EXCEPT ![r] = [pc |-> "anchors", file |-> f, text |-> blob[f], next |-> 1,
                                   embeds |-> bound]]
    /\ UNCHANGED <<files, indexed_at, anchor, vector, covered, bound, embedded, found>>

Left(r)  == run[r].next <= Len(run[r].text)
Advance(r, pc) == run' = [run EXCEPT ![r].next = IF Left(r) THEN @ + 1 ELSE 1,
                                     ![r].pc = IF Left(r) THEN @ ELSE pc]

\* One row after the other; an anchor there is gets the new preview.  Those of
\* lines that are no more stay.
persistAnchors(r) ==
    /\ run[r].pc = "anchors" /\ Advance(r, "vectors")
    /\ anchor' = IF ~Left(r) THEN anchor
                 ELSE {a \in anchor : a.file # run[r].file \/ a.i # run[r].next}
                      \cup {[file |-> run[r].file, i |-> run[r].next,
                             preview |-> run[r].text[run[r].next]]}
    /\ UNCHANGED <<files, indexed_at, vector, covered, bound, embedded, found>>

\* The id of a vector is not that of its anchor: it has a prefix.
VectorId(f, i) == [prefix |-> "anchor:", file |-> f, i |-> i]
\* Without the bindings it returns at once, and the file is marked all the same.
embedAndStore(r) ==
    /\ run[r].pc = "vectors"
    /\ \/ /\ run[r].embeds /\ Advance(r, "mark")
          /\ vector' = IF Left(r) THEN vector \cup {VectorId(run[r].file, run[r].next)}
                       ELSE vector
       \/ ~run[r].embeds /\ run' = [run EXCEPT ![r].pc = "mark"] /\ UNCHANGED vector
    /\ UNCHANGED <<files, indexed_at, anchor, covered, bound, embedded, found>>

Mark(r) ==
    /\ run' = [run EXCEPT ![r].pc = "idle", ![r].next = 1]
    /\ indexed_at' = [indexed_at EXCEPT ![run[r].file] = now]
    /\ covered' = [covered EXCEPT ![run[r].file] = run[r].text]
    /\ embedded' = IF run[r].embeds THEN embedded \cup {run[r].file}
                   ELSE embedded \ {run[r].file}
    /\ UNCHANGED <<files, anchor, vector, bound, found>>
\* Mutant: marked with the rows still to be written.
markIndexed_Early(r) == run[r].pc \in {"anchors", "mark"} /\ Mark(r)
\* Marked with the time at the end, whatever was uploaded since the text was read.
markIndexed(r) == run[r].pc = "mark" /\ Mark(r)

\* An access fails, or the run is stopped: what it wrote stays.
fails(r) == /\ run[r].pc # "idle" /\ run' = [run EXCEPT ![r].pc = "idle", ![r].next = 1]
            /\ UNCHANGED <<files, indexed_at, anchor, vector, covered, bound, embedded, found>>

AnchorId(a) == [prefix |-> "", file |-> a.file, i |-> a.i]

\* GET /anchors of a file, and one of them.  They are all of the kind "text".
anchorsSearch(f) == \E kind \in {"text", "other"} :
    found' = {a \in anchor : a.file = f /\ kind = "text"} /\ UNCHANGED index
anchorsGet(a)    == a \in anchor /\ found' = {a} /\ UNCHANGED index

\* The rows that have one of the ids Vectorize (external) matched.
Hydrated(ids) == {a \in anchor : AnchorId(a) \in ids}
evidenceSearch == \E ids \in SUBSET vector : found' = Hydrated(ids) /\ UNCHANGED index
\* The citations of an answer: the same rows, with no check of what they say.
evidenceAnswer == \E ids \in SUBSET vector : found' = Hydrated(ids) /\ UNCHANGED index

EvidenceRoutes == \/ \E f \in Files : anchorsSearch(f)
                  \/ \E a \in anchor : anchorsGet(a)
                  \/ evidenceSearch \/ evidenceAnswer
Next == \/ \E f \in Files, t \in Texts : Upload(f, t)
        \/ Deploy \/ EvidenceRoutes
        \/ \E r \in Runs : \/ persistAnchors(r) \/ embedAndStore(r) \/ markIndexed(r) \/ fails(r)
                           \/ \E f \in Files : extractText(r, f)

Spec == Init /\ [][Next]_vars
-----------------------------------------------------------------------------
(* Properties                                                              *)

TypeOK == /\ now \in 1..MaxTime /\ blob \in [Files -> Texts] /\ covered \in [Files -> Texts]
          /\ updated_at \in [Files -> 1..MaxTime] /\ indexed_at \in [Files -> 0..MaxTime]
          /\ anchor \subseteq Anchor /\ run \in [Runs -> Run]
          /\ found \subseteq Anchor /\ bound \in BOOLEAN /\ embedded \subseteq Files
          /\ vector \subseteq {VectorId(f, i) : f \in Files, i \in 1..MaxLines}

\* A file marked as indexed has one anchor for each line of the text it was
\* indexed with, and a vector for each when the run that marked it had the
\* bindings: runs that stop half way, or overlap, with or without vectors, leave
\* none out.  (The preview may be of another run; a file uploaded while it is
\* indexed is marked with the anchors of the text before.)
AnchorsCover ==
    \A f \in Files : indexed_at[f] # 0 =>
        \A i \in DOMAIN covered[f] :
            /\ Cardinality({a \in anchor : a.file = f /\ a.i = i}) = 1
            /\ f \in embedded => VectorId(f, i) \in vector
=============================================================================

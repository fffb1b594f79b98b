--------------------------- MODULE DatasetIntake ---------------------------
(***************************************************************************)
(* How content enters quarantine.  An approved fetch is downloaded, scanned *)
(* and put into the object store of its zone, one object per content; files *)
(* downloaded by hand are matched with committed evidence and stored        *)
(* locally; archives are unpacked.  Several processes do so at once, crash, *)
(* and share buckets and directories with whoever else can write there.     *)
(* A digest is identified with the content it is of, and names the object.  *)
(***************************************************************************)
EXTENDS Naturals, FiniteSets

CONSTANTS
  Process,
  Content,
  Sum,         \* [Content -> ...]: size and CRC32C, which contents may share
  Flawed,      \* contents with a reason not to pass the scan
  Path,        \* files of the download directory
  Entries,     \* per archive: its entries, {} if the limits refuse it
  MaxGeneration, \* bound on the generations of an object
  MaxStray,    \* per way: bound on what others do
  MaxResults,  \* bound on the results kept of each kind
  Nil

VARIABLES
  way,       \* how content enters in this behaviour: "fetch", "files" or "archives"
  body,      \* per name and generation: the content uploaded
  object,    \* per name: the live generation with its metadata, or Nil
  file,      \* per path: the content downloaded by hand, Nil where there is none
  disk,      \* per name: the content of the local store's file, or Nil
  unpacked,  \* the destination of the archives, Nil until it exists
  job,       \* per process: what it is about
  fetched,   \* the QuarantinedFetch results
  replayed,  \* what reading a stored object again returned
  reported,  \* entries of reconciliation reports
  stray      \* how often others wrote

vars == <<way, body, object, file, disk, unpacked, job, fetched, replayed, reported, stray>>
cloud == <<body, object>>
local == <<file, disk>>
results == <<fetched, replayed, reported>>

Generation == 1..MaxGeneration
Object == [generation : Generation, meta : 1..(MaxStray["fetch"] + 1), label : Content \cup {Nil}]
StoredObject == [name : Content, generation : Generation, meta : 1..(MaxStray["fetch"] + 1)]
ScanEvidence == [of : Content, passed : BOOLEAN]
QuarantinedFetch == [stored : StoredObject, evidence : ScanEvidence, upstream : Content \cup {Nil}]
LocalImport == [expected : Content, scanned : Content, stored : Content]
Idle == [at |-> "idle", copy |-> Nil, expected |-> Nil, scan |-> Nil,
         pin |-> Nil, path |-> Nil, valid |-> FALSE, entries |-> {}]

TypeOK ==
  /\ body \in [Content -> [Generation -> Content \cup {Nil}]]
  /\ object \in [Content -> Object \cup {Nil}]
  /\ disk \in [Content -> Content \cup {Nil}] /\ file \in [Path -> Content \cup {Nil}]
  /\ fetched \subseteq QuarantinedFetch /\ reported \subseteq LocalImport
  /\ replayed \subseteq [stored : StoredObject, bytes : Content]
  /\ stray \in 0..MaxStray[way]

Init ==
  /\ way \in {"fetch", "files", "archives"}
  /\ body = [c \in Content |-> [g \in Generation |-> Nil]]
  /\ object = [c \in Content |-> Nil] /\ disk = [c \in Content |-> Nil]
  /\ file \in [Path -> IF way = "files" THEN Content ELSE {Nil}] /\ unpacked = Nil
  /\ job = [p \in Process |-> Idle]
  /\ fetched = {} /\ replayed = {} /\ reported = {} /\ stray = 0

Set(p, record) == job' = [job EXCEPT ![p] = record]
Goto(p, at) == job' = [job EXCEPT ![p].at = at]
End(p) == Set(p, Idle)
At(p, at) == job[p].at = at

-----------------------------------------------------------------------------
(* The approved fetch: read, scan, put.                                    *)

\* assert_fetch_approved, with the plan's upstream digest if it has one; the payload,
\* reached through at most three redirects to allowlisted hosts, is copied to a file
\* of the process's own and scanned there.  A refusal ends the call before it wrote.
Scanned(c) == [of |-> c, passed |-> c \notin Flawed]
Fetch(p) ==
  /\ At(p, "idle") /\ Cardinality(fetched) < MaxResults
  /\ \E upstream \in Content \cup {Nil}, c \in Content :
       Set(p, [Idle EXCEPT !.at = "initiate", !.expected = upstream, !.copy = c,
                           !.scan = Scanned(c)])
  /\ UNCHANGED <<cloud, local, unpacked, results, stray>>

\* A resumable upload begins only where there is no live object; where there is,
\* that one is verified instead.
Initiate(p) ==
  /\ At(p, "initiate")
  /\ Goto(p, IF object[job[p].copy] = Nil THEN "put" ELSE "check")
  /\ UNCHANGED <<cloud, local, unpacked, results, stray>>

Used(c) == {g \in Generation : body[c][g] # Nil}
NextGeneration(c) == Cardinality(Used(c)) + 1
Upload(c, content, label) ==
  /\ NextGeneration(c) \in Generation
  /\ body' = [body EXCEPT ![c][NextGeneration(c)] = content]
  /\ object' = [object EXCEPT ![c] =
       [generation |-> NextGeneration(c), meta |-> 1, label |-> label]]

\* The final request creates the object unless one appeared; its reply may be lost.
Finalise(p) ==
  /\ At(p, "put")
  /\ LET c == job[p].copy IN
     IF object[c] = Nil
     THEN /\ Upload(c, c, c)
          /\ \/ Set(p, [job[p] EXCEPT !.at = "check", !.pin =
                  [name |-> c, generation |-> NextGeneration(c), meta |-> 1]])
             \/ End(p)
     ELSE End(p) /\ UNCHANGED cloud
  /\ UNCHANGED <<local, unpacked, results, stray>>

\* _validated_metadata: the live object is the one that is meant, as far as its
\* metadata tells.
Identified(c, generation) ==
  /\ object[c] # Nil /\ object[c].label = c
  /\ Sum[body[c][object[c].generation]] = Sum[c]
  /\ generation # Nil => object[c].generation = generation
Check(p) ==
  /\ At(p, "check")
  /\ LET c == job[p].copy
         generation == IF job[p].pin = Nil THEN Nil ELSE job[p].pin.generation
     IN IF Identified(c, generation)
        THEN Set(p, [job[p] EXCEPT !.at = "read", !.pin =
               [name |-> c, generation |-> object[c].generation, meta |-> object[c].meta]])
        ELSE End(p)
  /\ UNCHANGED <<cloud, local, unpacked, results, stray>>

\* _read_payload_verified: that generation and metageneration, hashed again.
ReadsBack(pin) ==
  /\ object[pin.name] # Nil
  /\ object[pin.name].generation = pin.generation /\ object[pin.name].meta = pin.meta
  /\ body[pin.name][pin.generation] = pin.name

\* put_stream returns and its result is held against the scan and the plan.
Accept(p) ==
  /\ At(p, "read")
  /\ fetched' = IF /\ ReadsBack(job[p].pin) /\ job[p].pin.name = job[p].scan.of
                   /\ job[p].expected \in {Nil, job[p].pin.name}
                THEN fetched \cup {[stored |-> job[p].pin, evidence |-> job[p].scan,
                                    upstream |-> job[p].expected]}
                ELSE fetched
  /\ End(p) /\ UNCHANGED <<cloud, local, unpacked, replayed, reported, stray>>

\* read_verified of a stored object: metadata first, the payload after it.
Replay(p) ==
  /\ At(p, "idle") /\ Cardinality(replayed) < MaxResults
  /\ \E f \in fetched :
       /\ Identified(f.stored.name, f.stored.generation)
       /\ object[f.stored.name].meta = f.stored.meta
       /\ Set(p, [Idle EXCEPT !.at = "replay", !.pin = f.stored])
  /\ UNCHANGED <<cloud, local, unpacked, results, stray>>
ReplayRead(p) ==
  /\ At(p, "replay")
  /\ LET pin == job[p].pin IN
     replayed' = IF ReadsBack(pin)
                 THEN replayed \cup {[stored |-> pin, bytes |-> body[pin.name][pin.generation]]}
                 ELSE replayed
  /\ End(p) /\ UNCHANGED <<cloud, local, unpacked, fetched, reported, stray>>

-----------------------------------------------------------------------------
(* Local reconciliation: index, scan and store files that may change.      *)

\* _index_files: exactly one file has the digest the evidence commits to.
Index(p) ==
  /\ At(p, "idle") /\ Cardinality(reported) < MaxResults
  /\ \E c \in Content :
       LET matches == {f \in Path : file[f] = c} IN
       /\ Cardinality(matches) = 1
       /\ Set(p, [Idle EXCEPT !.at = "structure", !.expected = c, !.path = CHOOSE f \in matches : TRUE])
  /\ UNCHANGED <<cloud, local, unpacked, results, stray>>

\* The scan reads the file again for its structure, and again for its digest.
ScanStructure(p) ==
  /\ At(p, "structure")
  /\ Set(p, [job[p] EXCEPT !.at = "digest", !.valid = file[job[p].path] \notin Flawed])
  /\ UNCHANGED <<cloud, local, unpacked, results, stray>>
ScanDigest(p) ==
  /\ At(p, "digest")
  /\ Set(p, [job[p] EXCEPT !.at = "copy", !.scan = Scanned(file[job[p].path])])
  /\ UNCHANGED <<cloud, local, unpacked, results, stray>>

\* put_stream of the local store: a hashed copy, a look at the destination, and
\* the replacement.
CopyFile(p) ==
  /\ At(p, "copy")
  /\ Set(p, [job[p] EXCEPT !.at = "look", !.copy = file[job[p].path]])
  /\ UNCHANGED <<cloud, local, unpacked, results, stray>>
Look(p) ==
  /\ At(p, "look")
  /\ CASE disk[job[p].copy] = Nil -> Goto(p, "replace")
       [] disk[job[p].copy] = job[p].copy -> Goto(p, "compare")
       [] OTHER -> End(p)
  /\ UNCHANGED <<cloud, local, unpacked, results, stray>>
Replace(p) ==
  /\ At(p, "replace")
  /\ disk' = [disk EXCEPT ![job[p].copy] = job[p].copy] /\ Goto(p, "compare")
  /\ UNCHANGED <<cloud, file, unpacked, results, stray>>

\* What was scanned and what was stored is what the evidence commits to.
Committed(j) == j.copy = j.expected /\ j.scan.of = j.expected
Report(p) ==
  /\ At(p, "compare")
  /\ reported' = IF Committed(job[p]) /\ job[p].valid
                 THEN reported \cup {[expected |-> job[p].expected, scanned |-> job[p].scan.of,
                                      stored |-> job[p].copy]}
                 ELSE reported
  /\ End(p) /\ UNCHANGED <<cloud, local, unpacked, fetched, replayed, stray>>

-----------------------------------------------------------------------------
(* Archives: entries are written to a directory of the process's own, which *)
(* then becomes the destination.                                            *)

OpenArchive(p) ==
  /\ At(p, "idle") /\ unpacked = Nil
  /\ \E a \in DOMAIN Entries :
       Entries[a] # {} /\ Set(p, [Idle EXCEPT !.at = "extract", !.expected = a])
  /\ UNCHANGED <<cloud, local, unpacked, results, stray>>
ExtractEntry(p) ==
  /\ At(p, "extract")
  /\ \E e \in Entries[job[p].expected] \ job[p].entries : job' = [job EXCEPT ![p].entries = @ \cup {e}]
  /\ UNCHANGED <<cloud, local, unpacked, results, stray>>
\* os.replace refuses a destination with entries.
Publish(p) ==
  /\ At(p, "extract") /\ job[p].entries = Entries[job[p].expected]
  /\ unpacked' = IF unpacked = Nil
                 THEN [archive |-> job[p].expected, entries |-> job[p].entries] ELSE unpacked
  /\ End(p) /\ UNCHANGED <<cloud, local, results, stray>>

-----------------------------------------------------------------------------
(* Others, and crashes.                                                    *)

Stray == stray < MaxStray[way] /\ stray' = stray + 1

\* Whoever has access replaces, relabels or deletes an object, or changes a file.
Overwrite(c) ==
  /\ Stray /\ \E content \in Content, label \in Content \cup {Nil} : Upload(c, content, label)
  /\ UNCHANGED <<local, unpacked, job, results>>
Relabel(c) ==
  /\ Stray /\ object[c] # Nil
  /\ \E label \in Content \cup {Nil} :
       object' = [object EXCEPT ![c].label = label, ![c].meta = @ + 1]
  /\ UNCHANGED <<body, local, unpacked, job, results>>
Delete(c) ==
  /\ Stray /\ object[c] # Nil /\ object' = [object EXCEPT ![c] = Nil]
  /\ UNCHANGED <<body, local, unpacked, job, results>>
ChangeFile ==
  /\ Stray
  /\ \/ \E f \in Path, c \in Content : file' = [file EXCEPT ![f] = c] /\ UNCHANGED disk
     \/ \E n \in Content, c \in Content : disk[n] # Nil /\ disk' = [disk EXCEPT ![n] = c] /\ UNCHANGED file
  /\ UNCHANGED <<cloud, unpacked, job, results>>

Crash(p) == ~At(p, "idle") /\ End(p) /\ UNCHANGED <<cloud, local, unpacked, results, stray>>

Fetches(p) ==
  \/ Fetch(p) \/ Initiate(p) \/ Finalise(p) \/ Check(p) \/ Accept(p) \/ Replay(p) \/ ReplayRead(p)
Reconciles(p) ==
  \/ Index(p) \/ ScanStructure(p) \/ ScanDigest(p) \/ CopyFile(p) \/ Look(p) \/ Replace(p)
  \/ Report(p)
Unpacks(p) == OpenArchive(p) \/ ExtractEntry(p) \/ Publish(p)

Next ==
  /\ UNCHANGED way
  /\ \/ \E p \in Process :
          \/ way = "fetch" /\ Fetches(p)
          \/ way = "files" /\ Reconciles(p)
          \/ way = "archives" /\ Unpacks(p)
          \/ Crash(p)
     \/ way = "fetch" /\ \E c \in Content : Overwrite(c) \/ Relabel(c) \/ Delete(c)
     \/ way = "files" /\ ChangeFile

Spec == Init /\ [][Next]_vars

-----------------------------------------------------------------------------
(* Properties.                                                             *)

\* What quarantine hands on is what was scanned and what the plan asked for: the
\* generation a result names holds the content it is named after, whoever writes
\* to the bucket in between, and reading it again returns that content or fails.
QuarantineHolds ==
  /\ \A f \in fetched :
       /\ body[f.stored.name][f.stored.generation] = f.evidence.of
       /\ f.upstream \in {Nil, f.evidence.of}
  /\ \A r \in replayed : \E f \in fetched : f.stored = r.stored /\ f.evidence.of = r.bytes

\* A reconciliation reports only contents that were scanned and stored as
\* committed, although the file may change between its four readings, and an
\* unpacked directory is an archive's whole content.
LocalIntakeHolds ==
  /\ \A r \in reported : r.scanned = r.expected /\ r.stored = r.expected
  /\ unpacked # Nil => unpacked.entries = Entries[unpacked.archive]

\* Objects are created, never replaced, by the intake: a live object changes only
\* when others write.
CreateOnly == \A c \in Content : object[c] # Nil /\ object'[c] # object[c] => stray' > stray

=============================================================================

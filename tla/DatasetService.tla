--------------------------- MODULE DatasetService ---------------------------
(***************************************************************************)
(* createReversalDataService and the reads of loadDataset                  *)
(* (server/reversal-data.mjs): the first request loads the four files and  *)
(* the metadata of a publication, all five reads at once, and every later  *)
(* request shares the result; a load that fails is not kept.  A publisher  *)
(* may replace the files meanwhile, one by one and in any order.           *)
(*                                                                         *)
(* A file is the number of the publication it belongs to; what follows the *)
(* digests in loadDataset (module ReversalDataset) accepts or rejects.     *)
(* The digest of a text is the text.  Metadata need not describe every     *)
(* file, nor give its digest (server/reversal-data.test.mjs, lines 70 and  *)
(* 241-243): such a file is not compared.                                  *)
(***************************************************************************)
EXTENDS Integers

CONSTANTS
  Clients,
  Content,     \* Content[f][n]: the text of file f in publication n
  Bytes,       \* the size of a text
  Manifest,    \* Manifest[n][f]: what the metadata of publication n says of file f,
               \* if anything, with NotGiven for what it leaves out
  MaxLoads     \* bound: loads

DataFiles    == DOMAIN Content
Metadata     == "metadata"
Published    == DataFiles \cup {Metadata}
Publications == UNION {DOMAIN Content[f] : f \in DataFiles}

Missing == 0
Unread  == -1

NotGiven == -1

NoRead    == [f \in Published |-> Unread]
NoDataset == [f \in Published |-> Missing]

VARIABLES
  disk,      \* the publication of each file, or Missing
  read,      \* of a load: what its reads have returned
  memo,      \* datasetPromise: none, pending, or resolved with dataset
  dataset,
  loads,
  asking,    \* requests awaiting datasetPromise
  answer     \* the dataset of each client's last answer

serviceVars == <<disk, read, memo, dataset, loads, asking, answer>>

ServiceInit ==
  /\ disk \in [Published -> {Missing, 1}] /\ read = NoRead
  /\ memo = "none" /\ dataset = NoDataset /\ loads = 0
  /\ asking = {} /\ answer = [c \in Clients |-> NoDataset]

-----------------------------------------------------------------------------
\* The publisher: a file of the next publication, or of one not complete yet.
Publish(f) ==
  /\ disk[f] + 1 \in Publications
  /\ \A g \in Published : disk[f] <= disk[g]
  /\ disk' = [disk EXCEPT ![f] = @ + 1]
  /\ UNCHANGED <<read, memo, dataset, loads, asking, answer>>

NeedsLoad == memo = "none"

\* getDataset
Request(c) ==
  /\ c \notin asking /\ asking' = asking \cup {c}
  /\ \/ /\ NeedsLoad /\ loads < MaxLoads
        /\ memo' = "pending" /\ read' = NoRead /\ loads' = loads + 1
     \/ ~ NeedsLoad /\ UNCHANGED <<memo, read, loads>>
  /\ UNCHANGED <<disk, dataset, answer>>

\* The load fails: the requests that share it fail, the next one loads again.
FailLoad ==
  /\ memo' = "none" /\ asking' = {} /\ read' = NoRead
  /\ UNCHANGED <<disk, dataset, loads, answer>>

\* readRequiredCsv, readOptionalMetadata
ReadFile(f) ==
  /\ memo = "pending" /\ read[f] = Unread
  /\ IF f \in DataFiles /\ disk[f] = Missing THEN FailLoad
     ELSE /\ read' = [read EXCEPT ![f] = disk[f]]
          /\ UNCHANGED <<disk, memo, dataset, loads, asking, answer>>

\* A read fails otherwise, or metadata that is half written is no JSON.
ReadError(f) == memo = "pending" /\ read[f] = Unread /\ FailLoad

\* Seeded fault: nothing is compared.
DigestAgreesAlways(f) == TRUE

\* The files the metadata of a publication describes.
Described(n) == IF n = Missing THEN {} ELSE DOMAIN Manifest[n]

\* assertPublishedFile
DigestAgrees(f) ==
  f \in Described(read[Metadata]) =>
    LET expected == Manifest[read[Metadata]][f]
        text     == Content[f][read[f]]
    IN  /\ expected.sha256 # NotGiven => expected.sha256 = text
        /\ expected.bytes # NotGiven => expected.bytes = Bytes[text]

AllRead == memo = "pending" /\ \A f \in Published : read[f] # Unread

\* The checks and the conversion of the texts, in one turn of the event loop.
Accept ==
  /\ AllRead /\ \A f \in DataFiles : DigestAgrees(f)
  /\ memo' = "resolved" /\ dataset' = read
  /\ UNCHANGED <<disk, read, loads, asking, answer>>

\* Some digest or some row is wrong.
Reject == AllRead /\ FailLoad

\* A request goes on with the dataset: search and download only read it.
Respond(c) ==
  /\ c \in asking /\ memo = "resolved"
  /\ asking' = asking \ {c} /\ answer' = [answer EXCEPT ![c] = dataset]
  /\ UNCHANGED <<disk, read, memo, dataset, loads>>

ServiceNext ==
  \/ \E f \in Published : Publish(f) \/ ReadFile(f) \/ ReadError(f)
  \/ \E c \in Clients : Request(c) \/ Respond(c)
  \/ Accept \/ Reject

ServiceSpec == ServiceInit /\ [][ServiceNext]_serviceVars

-----------------------------------------------------------------------------
Answers == {answer[c] : c \in Clients} \ {NoDataset}

TextOf(served, f) == Content[f][served[f]]

HasDigest(n, f) == f \in Described(n) /\ Manifest[n][f].sha256 # NotGiven

\* Metadata that gives the digest of every file of its publication.
Complete(n) == \A f \in DataFiles : HasDigest(n, f) /\ Manifest[n][f].sha256 = Content[f][n]

(***************************************************************************)
(* All answers are from the same files, though the publisher replaces them *)
(* one by one while they are read and while a visitor pages and downloads. *)
(* A file whose digest the metadata gives is the text with that digest:    *)
(* where the metadata of a publication gives the digests of all its files, *)
(* the answers are from the texts of that one publication.  A file without *)
(* a digest may be of another publication, with the given size if any.     *)
(***************************************************************************)
DatasetIsOnePublication ==
  \A one, other \in Answers :
    /\ one = other
    /\ \A f \in DataFiles :
         HasDigest(one[Metadata], f) => TextOf(one, f) = Manifest[one[Metadata]][f].sha256
    /\ one[Metadata] # Missing /\ Complete(one[Metadata]) =>
         \A f \in DataFiles : TextOf(one, f) = Content[f][one[Metadata]]
=============================================================================

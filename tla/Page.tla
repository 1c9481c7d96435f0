-------------------------------- MODULE Page --------------------------------
(***************************************************************************)
(* The download page of send --web (internal/web): one browser, and the    *)
(* handler of the request it has made, over files that somebody may change *)
(* meanwhile.  A request names one file, which is served by ServeContent   *)
(* and can be resumed where it broke off, or the archive of all files,     *)
(* which is written as it is read and has no length.                       *)
(*                                                                         *)
(* A file has versions: version[v] is the v-th that any file has had.  A   *)
(* block is known by the version it was read from; its offset is where it  *)
(* stands.  Times are those a response can show, whole seconds: two        *)
(* versions may share one.                                                 *)
(*                                                                         *)
(* The actions are composed with the process that hosts them in Served.    *)
(* Definitions marked "faulty" are no part of the specification.           *)
(***************************************************************************)
EXTENDS Integers, SequencesExt

CONSTANTS
  NFiles,      \* files on offer
  FileSizes,   \* sizes, in blocks, that a file may have
  MaxChanges,  \* bound on the changes made to files
  MaxAsks,     \* bound on the requests of one download
  None         \* no file there, no file open

ASSUME PageAssumption ==
  /\ NFiles \in Nat \ {0}
  /\ FileSizes \subseteq Nat
  /\ {MaxChanges, MaxAsks} \subseteq Nat
  /\ None \notin Nat

VARIABLES
  version,   \* every version there has been: its size, its time, and whether
             \* it was written over the one before or put in its place
  at,        \* at[i]: the version of file i that its name leads to
  fd,        \* the version the handler's open file has, or None
  size,      \* what the handler has measured of it
  offset,    \* blocks of it the handler has sent
  entry,     \* the archive's entry the handler is at
  handler,   \* where the handler is
  browser,   \* how the download stands, as the browser sees it
  what,      \* what the browser asks for
  asks,      \* requests it has made
  have,      \* blocks of the file it has
  stamp,     \* Last-Modified of what it has
  archive,   \* the archive it has: entries, each with its blocks
  directory, \* the archive ends with its directory
  reported   \* the sender was told of a download of the archive

files == <<version, at>>
response == <<handler, fd, size, offset, entry>>
download == <<browser, what, asks, have, stamp>>
zip == <<archive, directory, reported>>
pageVars == <<files, response, download, zip>>

OnOffer == 1 .. NFiles

(* The links of the page, and one that leads nowhere: an index that is not *)
(* on offer, a wrong code.                                                 *)
AllZip == 0
Nowhere == NFiles + 1
Link == OnOffer \cup {AllZip, Nowhere}

PageInit ==
  /\ version \in [OnOffer -> [size : FileSizes, time : {0}, over : {FALSE}]]
  /\ at = [i \in OnOffer |-> i]
  /\ handler = "off"
  /\ fd = None
  /\ size = 0
  /\ offset = 0
  /\ entry = 1
  /\ browser = "off"
  /\ what = Nowhere
  /\ asks = 0
  /\ have = <<>>
  /\ stamp = 0
  /\ archive = <<>>
  /\ directory = FALSE
  /\ reported = FALSE

(* The handler returns; its variables are gone with it. *)
Returned == handler' = "off" /\ fd' = None /\ offset' = 0 /\ entry' = 1

-----------------------------------------------------------------------------
(* The browser.  A download that broke off is asked for again: of a file   *)
(* it wants the rest, if the file is still the one it has a part of        *)
(* (Range with If-Range); the part of an archive is of no use to it.       *)

Request ==
  /\ browser \in {"off", "broken"}
  /\ asks < MaxAsks
  /\ IF browser = "off" THEN what' \in Link ELSE UNCHANGED what
  /\ browser' = "waiting"
  /\ handler' = "route"
  /\ asks' = asks + 1
  /\ UNCHANGED <<files, fd, size, offset, entry, have, stamp, zip>>

(* The connection breaks: the handler's next write fails and it returns.   *)
Break ==
  /\ browser \in {"waiting", "reading"}
  /\ browser' = "broken"
  /\ Returned
  /\ archive' = <<>>
  /\ UNCHANGED <<files, size, what, asks, have, stamp, directory, reported>>

-----------------------------------------------------------------------------
(* ServeHTTP                                                               *)

NotFound ==
  /\ handler = "route"
  /\ what = Nowhere
  /\ browser' = "refused"
  /\ Returned
  /\ UNCHANGED <<files, size, what, asks, have, stamp, zip>>

(* file: Open, then Stat of what was opened                                *)

OpenFile ==
  /\ handler = "route"
  /\ what \in OnOffer
  /\ at[what] # None
  /\ fd' = at[what]
  /\ handler' = "stat"
  /\ UNCHANGED <<files, size, offset, entry, download, zip>>

FileIsGone ==
  /\ handler = "route"
  /\ what \in OnOffer
  /\ at[what] = None
  /\ browser' = "refused"
  /\ Returned
  /\ UNCHANGED <<files, size, what, asks, have, stamp, zip>>

(* What ServeContent makes of the file's time, of its size, which is       *)
(* measured now, and of what the browser has.                              *)
Serves(time) ==
  LET resumes == have # <<>> /\ stamp = time
      from == IF resumes THEN Len(have) ELSE 0
  IN /\ size' = version[fd].size
     /\ stamp' = time
     /\ IF resumes /\ from >= version[fd].size
          THEN browser' = "refused" /\ Returned /\ UNCHANGED have
          ELSE /\ browser' = "reading"
               /\ handler' = "content"
               /\ offset' = from
               /\ have' = SubSeq(have, 1, from)
               /\ UNCHANGED <<fd, entry>>

ServeContentByName ==  \* faulty: asks the name for the time, not the file
  /\ handler = "stat"
  /\ at[what] # None
  /\ Serves(version[at[what]].time)
  /\ UNCHANGED <<files, what, asks, zip>>

ServeContent ==
  /\ handler = "stat"
  /\ Serves(version[fd].time)
  /\ UNCHANGED <<files, what, asks, zip>>

WriteBlock ==
  /\ handler = "content"
  /\ offset < size
  /\ offset < version[fd].size
  /\ have' = Append(have, fd)
  /\ offset' = offset + 1
  /\ UNCHANGED <<files, handler, fd, size, entry, browser, what, asks, stamp, zip>>

(* The file has become shorter than its Content-Length: net/http closes    *)
(* the connection.                                                         *)
ContentShort ==
  /\ handler = "content"
  /\ offset < size
  /\ offset >= version[fd].size
  /\ browser' = "broken"
  /\ Returned
  /\ UNCHANGED <<files, size, what, asks, have, stamp, zip>>

ContentDone ==
  /\ handler = "content"
  /\ offset = size
  /\ browser' = "complete"
  /\ Returned
  /\ UNCHANGED <<files, size, what, asks, have, stamp, zip>>

-----------------------------------------------------------------------------
(* zipAll.  Returning ends the chunked response properly, whatever was     *)
(* written before.                                                         *)

StartZip ==
  /\ handler = "route"
  /\ what = AllZip
  /\ handler' = "zip"
  /\ entry' = 1
  /\ browser' = "reading"
  /\ UNCHANGED <<files, fd, size, offset, what, asks, have, stamp, zip>>

(* addToZip: Open and Stat, the entry's header                             *)
AddEntry ==
  /\ handler = "zip"
  /\ entry <= NFiles
  /\ at[entry] # None
  /\ fd' = at[entry]
  /\ offset' = 0
  /\ archive' = Append(archive, [file |-> entry, blocks |-> <<>>])
  /\ handler' = "copy"
  /\ UNCHANGED <<files, size, entry, download, directory, reported>>

SkipEntry ==  \* faulty: goes on without the file
  /\ handler = "zip"
  /\ entry <= NFiles
  /\ at[entry] = None
  /\ entry' = entry + 1
  /\ UNCHANGED <<files, handler, fd, size, offset, download, zip>>

(* A file that is gone, or a read that fails half way through it           *)
EntryFails ==
  /\ \/ handler = "zip" /\ entry <= NFiles /\ at[entry] = None
     \/ handler = "copy"
  /\ browser' = "complete"
  /\ Returned
  /\ UNCHANGED <<files, size, what, asks, have, stamp, zip>>

CopyBlock ==
  /\ handler = "copy"
  /\ offset < version[fd].size
  /\ archive' = [archive EXCEPT ![Len(archive)].blocks = Append(@, fd)]
  /\ offset' = offset + 1
  /\ UNCHANGED <<files, handler, fd, size, entry, download, directory, reported>>

EntryDoneLeaking ==  \* faulty: leaves the file open
  /\ handler = "copy"
  /\ offset >= version[fd].size
  /\ entry' = entry + 1
  /\ handler' = "zip"
  /\ UNCHANGED <<files, fd, size, offset, download, zip>>

EntryDone ==
  /\ handler = "copy"
  /\ offset >= version[fd].size
  /\ entry' = entry + 1
  /\ fd' = None
  /\ handler' = "zip"
  /\ UNCHANGED <<files, size, offset, download, zip>>

(* zip.Writer.Close writes the directory; the sender is told.              *)
CloseZip ==
  /\ handler = "zip"
  /\ entry = NFiles + 1
  /\ directory' = TRUE
  /\ reported' = TRUE
  /\ browser' = "complete"
  /\ Returned
  /\ UNCHANGED <<files, size, what, asks, have, stamp, archive>>

HandlerStep ==
  \/ NotFound \/ OpenFile \/ FileIsGone \/ ServeContent
  \/ WriteBlock \/ ContentShort \/ ContentDone
  \/ StartZip \/ AddEntry \/ EntryFails \/ CopyBlock \/ EntryDone \/ CloseZip

-----------------------------------------------------------------------------
(* The files change.  A new version is written to another file and renamed *)
(* into place, or over the old one, which is another thing only if the old *)
(* one is open; or the file goes away.  Time does not run backwards.  A    *)
(* change before the first request is another initial state; one after the *)
(* last, or to a file not asked for, is seen by nobody.                    *)

NewVersion(i, over) ==
  /\ at[i] # None
  /\ \E s \in FileSizes, t \in {version[at[i]].time, version[at[i]].time + 1} :
       version' = Append(version, [size |-> s, time |-> t, over |-> over])
  /\ at' = [at EXCEPT ![i] = Len(version) + 1]

Change(i) ==
  /\ browser \notin {"off", "refused", "complete"}
  /\ what \in {i, AllZip}
  /\ Len(version) < NFiles + MaxChanges
  /\ \/ NewVersion(i, FALSE) /\ UNCHANGED fd
     \/ fd = at[i] /\ NewVersion(i, TRUE) /\ fd' = at'[i]
     \/ at[i] # None /\ at' = [at EXCEPT ![i] = None] /\ UNCHANGED <<version, fd>>
  /\ UNCHANGED <<handler, size, offset, entry, download, zip>>

-----------------------------------------------------------------------------
(* Properties                                                              *)

Version == 1 .. NFiles + MaxChanges

(* The handler has a file open exactly while it serves or copies one.      *)
PageTypeOK ==
  /\ version \in Seq([size : FileSizes, time : Nat, over : BOOLEAN])
  /\ at \in [OnOffer -> Version \cup {None}]
  /\ handler \in {"off", "route", "stat", "content", "zip", "copy"}
  /\ fd \in Version \cup {None}
  /\ fd = None <=> handler \in {"off", "route", "zip"}
  /\ {size, offset, stamp} \subseteq Nat
  /\ entry \in 1 .. NFiles + 1
  /\ browser \in {"off", "waiting", "reading", "broken", "refused", "complete"}
  /\ what \in Link
  /\ asks \in 0 .. MaxAsks
  /\ have \in Seq(Version)
  /\ archive \in Seq([file : OnOffer, blocks : Seq(Version)])
  /\ {directory, reported} \subseteq BOOLEAN

(* Two neighbouring blocks belong together if they are of one version, or  *)
(* if nobody could have told the versions apart: the file was overwritten  *)
(* while it was open, or changed within the second its time shows.         *)
Coherent(blocks) ==
  \A k \in 1 .. Len(blocks) - 1 :
    LET u == version[blocks[k]]
        v == version[blocks[k + 1]]
    IN blocks[k] = blocks[k + 1] \/ v.over \/ u.time = v.time

(* A file the browser has completely is one version of it, all of it, also *)
(* if the download broke off and was resumed in between while the file was *)
(* replaced ("a dropped download resumes instead of starting over").       *)
ResumedIsCoherent ==
  browser = "complete" /\ what \in OnOffer => Len(have) = size /\ Coherent(have)

(* An archive that can be opened, because it has its directory, has every  *)
(* file once and in order, and only of such an archive is the sender told. *)
OpensMeansWhole ==
  /\ directory => /\ [k \in DOMAIN archive |-> archive[k].file] = [i \in OnOffer |-> i]
                  /\ \A k \in DOMAIN archive : Coherent(archive[k].blocks)
  /\ reported <=> directory

(* A browser that takes the archive for complete can open it ("the only    *)
(* way left to tell the browser the archive is incomplete", zipAll).       *)
CompleteOpens == browser = "complete" /\ what = AllZip => directory
=============================================================================

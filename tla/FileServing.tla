---------------------------- MODULE FileServing ----------------------------
(***************************************************************************)
(* A file under a mount point, while somebody else changes it: the         *)
(* conditional requests are decided on a stat of the path, the content is  *)
(* sent from a mapping of what the path names a little later.              *)
(* (handle_file_request, check_if_not_modified, check_if_range, mmap.)     *)
(* The client keeps a copy, revalidates it, and resumes a broken download. *)
(***************************************************************************)
EXTENDS Integers, Sequences

CONSTANTS
    NMounts,        \* mount points whose prefix matches, in order
    Sizes,          \* file sizes, in blocks
    MaxTime,        \* modification times are 0..MaxTime, in seconds
    MaxVersions,    \* contents ever made
    MaxRequests

\* The constants are of their kinds.
FilesAssumption ==
    /\ NMounts \in Nat \ {0} /\ Sizes \subseteq Nat /\ MaxTime \in Nat \ {0}
    /\ MaxVersions \in Nat /\ MaxRequests \in Nat

NoFile == 0         \* a file is the number of its inode, from 1
Dir == -1           \* a directory
Outside == -2       \* a link that leaves the base directory
ByEtag == -1        \* If-Range with the ETag; otherwise it is a date

VARIABLES
    entry,          \* entry[m]: what the path names below mount m
    inode,          \* inode[i]: the version it holds
    version,        \* version[v] = [size, mtime]
    pc,             \* "idle", "stat", "open", "write", "dead"
    mount,          \* the mount being tried
    req,            \* the request
    seen,           \* the version that stat saw, 0 before
    mapped,         \* the inode that is mapped, 0 when none
    res,            \* the response [status, size, label, touched]
    copy,           \* the client's copy
    requests        \* how many were sent

vars == <<entry, inode, version, pc, mount, req, seen, mapped, res, copy, requests>>
disk == <<entry, inode, version>>
client == <<copy, requests>>

\* label: the version whose ETag and date came with the copy; raced: some
\* content came from another version than the label; spoilt: some was sent
\* after the file was written in place (touched, of one response).
NoCopy == [blocks |-> <<>>, size |-> 0, label |-> 0, raced |-> FALSE, spoilt |-> FALSE]
NoRequest == [method |-> "GET", etag |-> 0, since |-> 0, from |-> 0, ifrange |-> 0]
NoResponse == [status |-> 0, size |-> 0, label |-> 0, touched |-> FALSE]

Complete == copy.label # 0 /\ Len(copy.blocks) = copy.size
Sent == Len(copy.blocks)

-----------------------------------------------------------------------------
\* The headers carry versions; the server compares what it makes of them.

\* compute_etag: W/"mtime-size".
SameEtag(v, w) == version[v] = version[w]

\* Dates go out and come back in whole seconds, and compare as times.
NoYounger(v, w) == version[v].mtime <= version[w].mtime

\* If-None-Match takes precedence over If-Modified-Since.
check_if_not_modified(v) ==
    IF req.etag # 0 THEN SameEtag(req.etag, v)
    ELSE req.since # 0 /\ NoYounger(v, req.since)

\* Weak ETags, the only ones this server makes, never match in If-Range.
check_if_range(v) ==
    req.ifrange # 0 => /\ req.ifrange # ByEtag
                       /\ NoYounger(v, req.ifrange)

-----------------------------------------------------------------------------
\* The client.

Send(r) ==
    /\ pc = "idle" /\ requests < MaxRequests
    /\ req' = r /\ requests' = requests + 1
    /\ pc' = "stat" /\ mount' = 1 /\ seen' = 0 /\ mapped' = 0 /\ res' = NoResponse
    /\ UNCHANGED disk

\* A plain request starts a new copy; HEAD only looks.
Get == Send(NoRequest) /\ copy' = NoCopy
LookUp == Send([NoRequest EXCEPT !.method = "HEAD"]) /\ UNCHANGED copy

Revalidate ==
    /\ Complete
    /\ \E e, s \in {0, copy.label} :
          /\ <<e, s>> # <<0, 0>>
          /\ Send([NoRequest EXCEPT !.etag = e, !.since = s])
    /\ UNCHANGED copy

Resume ==
    /\ copy.label # 0 /\ 0 < Sent /\ Sent < copy.size
    /\ \E v \in {ByEtag, copy.label} :
          Send([NoRequest EXCEPT !.from = Sent, !.ifrange = v])
    /\ UNCHANGED copy

-----------------------------------------------------------------------------
\* The server.

Answer(status, size) ==
    /\ res' = [status |-> status, size |-> size, touched |-> FALSE,
               label |-> IF status \in {200, 206} THEN seen ELSE 0]
    /\ pc' = "idle"

\* The next mount, and the handlers behind the last one.
NotHere ==
    IF mount < NMounts
    THEN mount' = mount + 1 /\ UNCHANGED <<pc, res>>
    ELSE Answer(404, 0) /\ UNCHANGED mount

\* What stat says of the path, and what fstat says of the file that is open.
FileStat == inode[entry[mount]]
MappedSize(i) == version[inode[i]].size

\* canonicalize_path, FileStat and the conditions on what stat saw.
Stat ==
    /\ pc = "stat"
    /\ \/ entry[mount] = NoFile /\ NotHere /\ UNCHANGED <<seen, req>>
       \/ entry[mount] = Outside /\ Answer(403, 0) /\ UNCHANGED <<seen, req, mount>>
       \/ entry[mount] = Dir /\ Answer(301, 0) /\ UNCHANGED <<seen, req, mount>>
       \/ /\ entry[mount] > 0
          /\ LET v == FileStat
             IN /\ seen' = v
                /\ IF check_if_not_modified(v)
                   THEN Answer(304, 0) /\ UNCHANGED req
                   ELSE /\ req' = IF req.from > 0 /\ ~check_if_range(v)
                                  THEN [req EXCEPT !.from = 0] ELSE req
                        /\ pc' = "open" /\ UNCHANGED res
          /\ UNCHANGED mount
    /\ UNCHANGED <<disk, mapped, client>>

\* A wrong Open: the 206 is announced, the content starts over.
OpenFromStart ==
    /\ pc = "open" /\ entry[mount] > 0
    /\ LET size == MappedSize(entry[mount])
       IN /\ mapped' = entry[mount]
          /\ res' = [status |-> IF req.from > 0 THEN 206 ELSE 200, size |-> size,
                     label |-> seen, touched |-> FALSE]
          /\ pc' = "write"
          /\ copy' = [blocks |-> IF req.from > 0 THEN copy.blocks ELSE <<>>,
                      size |-> size, label |-> seen, raced |-> FALSE,
                      spoilt |-> req.from > 0 /\ copy.spoilt]
    /\ UNCHANGED <<disk, mount, req, seen, requests>>

\* The mapping has the size that fstat says now.  A path that is gone leaves
\* the answer to the handlers behind.  (apply_ranges cuts the range out.)
Open ==
    /\ pc = "open"
    /\ IF entry[mount] <= 0
       THEN Answer(404, 0) /\ UNCHANGED <<mapped, copy>>
       ELSE LET size == MappedSize(entry[mount])
            IN /\ mapped' = entry[mount]
               /\ IF req.from >= size /\ req.from > 0
                  THEN Answer(416, 0) /\ UNCHANGED copy
                  ELSE /\ res' = [status |-> IF req.from > 0 THEN 206 ELSE 200,
                                  size |-> size, label |-> seen, touched |-> FALSE]
                       /\ pc' = IF req.method = "HEAD" THEN "idle" ELSE "write"
                       /\ copy' =
                            IF req.method = "HEAD" THEN copy
                            ELSE [blocks |-> IF req.from > 0 THEN copy.blocks ELSE <<>>,
                                  size |-> size, label |-> seen,
                                  spoilt |-> req.from > 0 /\ copy.spoilt,
                                  raced |-> seen # FileStat \/ (req.from > 0 /\ copy.raced)]
    /\ UNCHANGED <<disk, mount, req, seen, requests>>

\* The provider sends from the mapping; past the end of a file that was cut
\* meanwhile there is nothing to read, and the process dies (SIGBUS).
Write ==
    /\ pc = "write" /\ Sent < res.size
    /\ IF Sent < MappedSize(mapped)
       THEN copy' = [copy EXCEPT !.blocks = Append(@, inode[mapped])] /\ UNCHANGED pc
       ELSE pc' = "dead" /\ UNCHANGED copy
    /\ UNCHANGED <<disk, mount, req, seen, mapped, res, requests>>

Done ==
    /\ pc = "write" /\ Sent = res.size
    /\ pc' = "idle" /\ mapped' = 0
    /\ UNCHANGED <<disk, mount, req, seen, res, client>>

\* The connection breaks.
Cut ==
    /\ pc = "write" /\ Sent < res.size
    /\ pc' = "idle" /\ mapped' = 0
    /\ UNCHANGED <<disk, mount, req, seen, res, client>>

-----------------------------------------------------------------------------
\* Whoever owns the files.

New(size, mtime) ==
    /\ Len(version) < MaxVersions
    /\ version' = Append(version, [size |-> size, mtime |-> mtime])

\* A new file takes the path (rename); its date may be an old one.
Replace ==
    /\ \E m \in 1 .. NMounts, size \in Sizes, mtime \in 0 .. MaxTime :
          /\ entry[m] >= 0 /\ New(size, mtime)
          /\ inode' = Append(inode, Len(version) + 1)
          /\ entry' = [entry EXCEPT ![m] = Len(inode) + 1]
    /\ UNCHANGED <<pc, mount, req, seen, mapped, res, client>>

\* The file is written in place: the mapping shows the new content.
Overwrite ==
    /\ \E m \in 1 .. NMounts, size \in Sizes :
          /\ entry[m] > 0
          /\ New(size, MaxTime)
          /\ inode' = [inode EXCEPT ![entry[m]] = Len(version) + 1]
          /\ LET shown == pc = "write" /\ mapped = entry[m]
             IN /\ copy' = [copy EXCEPT !.spoilt = @ \/ shown]
                /\ res' = [res EXCEPT !.touched = @ \/ shown]
    /\ UNCHANGED <<entry, pc, mount, req, seen, mapped, requests>>

Remove ==
    /\ \E m \in 1 .. NMounts : entry[m] > 0 /\ entry' = [entry EXCEPT ![m] = NoFile]
    /\ UNCHANGED <<inode, version, pc, mount, req, seen, mapped, res, client>>

-----------------------------------------------------------------------------

Init ==
    /\ \E size \in Sizes :
          /\ version = <<[size |-> size, mtime |-> 1]>>
          /\ inode = <<1>>
    /\ entry \in [1 .. NMounts -> {NoFile, Dir, Outside, 1}]
    /\ pc = "idle" /\ mount = 1 /\ req = NoRequest /\ seen = 0 /\ mapped = 0
    /\ res = NoResponse /\ copy = NoCopy /\ requests = 0

Next ==
    \/ Get \/ LookUp \/ Revalidate \/ Resume
    \/ Stat \/ Open \/ Write \/ Done \/ Cut
    \/ Replace \/ Overwrite \/ Remove

Spec == Init /\ [][Next]_vars

-----------------------------------------------------------------------------

\* A 304 is the truth: the client's copy is what the file holds, unless two
\* contents share a size and a second, the client only sent a date and the
\* file is no younger, or the copy was never of one version.
\* (check_if_not_modified.)
NotModifiedIsTrue ==
    res.status = 304 /\ Complete /\ ~copy.raced /\ ~copy.spoilt =>
        \/ \A b \in DOMAIN copy.blocks : copy.blocks[b] = seen
        \/ req.etag # 0 /\ SameEtag(copy.label, seen)
        \/ req.etag = 0 /\ NoYounger(seen, copy.label)

\* A download put together from several answers is one version of the file,
\* unless the file changed between stat and open, was written in place, or
\* was replaced by one no younger.  (check_if_range, mmap, apply_ranges.)
CopyIsOneVersion ==
    Complete /\ ~copy.raced /\ ~copy.spoilt =>
        \A a, b \in DOMAIN copy.blocks :
            a < b => \/ copy.blocks[a] = copy.blocks[b]
                     \/ NoYounger(copy.blocks[b], copy.blocks[a])

\* A reader of the mapping dies only of a file cut in place: a new file under
\* the same path leaves the mapped one as it was.  (mmap::open, fd_.)
DeadOnlyWhenCut ==
    pc = "dead" => res.touched /\ Sent < res.size

\* A claim that the code does not keep, in no run: what
\* If-Range promises, a partial answer is of a file no younger than the
\* validator.
PartialIsValid ==
    pc = "write" /\ res.status = 206 /\ ~copy.spoilt =>
        NoYounger(inode[mapped], req.ifrange)

=============================================================================

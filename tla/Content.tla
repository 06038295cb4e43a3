------------------------------ MODULE Content ------------------------------
(***************************************************************************)
(* The four data paths of a message body: multipart forms, ranges of a     *)
(* response, the transfer of a body, files served from disk.  They share   *)
(* no state, so `part` says which of them a behaviour is about and the     *)
(* others' variables stay 0.                                               *)
(***************************************************************************)
EXTENDS Integers, Sequences

CONSTANTS
    Senders, Forms, Preambles, Epilogues, Kind, SendBuffer, MaxParts,
    RangeHeaders, Lengths, Handlers, RangeMaxCount,
    Framings, MaxBody, MaxPiece, Limits, Trailers, Declared, Prohibited, MaxTrailers, Compressors,
    NMounts, Sizes, MaxTime, MaxVersions, MaxRequests

VARIABLES
    part,
    items, epilogue, sender, segs, buffer, stream, form_wire, sending, state, valid, buf, parsing,
    head, form, accepted,
    header, range_length, content, ranges, status, step, announced, contentRange, written,
    framing, length, limit, holds, writer, provided, held, finished, wire, eof, reader, remaining,
    got, trailers, sent, stopped, verdict,
    entry, inode, version, pc, mount, req, seen, mapped, res, copy, requests

M == INSTANCE Multipart WITH wire <- form_wire, verdict <- accepted
R == INSTANCE Ranges WITH length <- range_length
T == INSTANCE Transfer
F == INSTANCE FileServing

ASSUME ContentAssumption ==
    M!MultipartAssumption /\ R!RangesAssumption /\ T!TransferAssumption /\ F!FilesAssumption

formVars == <<items, epilogue, sender, segs, buffer, stream, form_wire, sending, state, valid, buf,
              parsing, head, form, accepted>>
rangeVars == <<header, range_length, content, ranges, status, step, announced, contentRange, written>>
transferVars == <<framing, length, limit, holds, writer, provided, held, finished, wire, eof, reader,
                  remaining, got, trailers, sent, stopped, verdict>>
fileVars == <<entry, inode, version, pc, mount, req, seen, mapped, res, copy, requests>>
contentVars == <<part, formVars, rangeVars, transferVars, fileVars>>

NoForm == /\ items = 0 /\ epilogue = 0 /\ sender = 0 /\ segs = 0 /\ buffer = 0 /\ stream = 0
          /\ form_wire = 0 /\ sending = 0 /\ state = 0 /\ valid = 0 /\ buf = 0 /\ parsing = 0
          /\ head = 0 /\ form = 0 /\ accepted = 0
NoRange == /\ header = 0 /\ range_length = 0 /\ content = 0 /\ ranges = 0 /\ status = 0
           /\ step = 0 /\ announced = 0 /\ contentRange = 0 /\ written = 0
NoTransfer == /\ framing = 0 /\ length = 0 /\ limit = 0 /\ holds = 0 /\ writer = 0
              /\ provided = 0 /\ held = 0 /\ finished = 0 /\ wire = 0 /\ eof = 0 /\ reader = 0
              /\ remaining = 0 /\ got = 0 /\ trailers = 0 /\ sent = 0 /\ stopped = 0 /\ verdict = 0
NoFile == /\ entry = 0 /\ inode = 0 /\ version = 0 /\ pc = 0 /\ mount = 0 /\ req = 0 /\ seen = 0
          /\ mapped = 0 /\ res = 0 /\ copy = 0 /\ requests = 0

ContentInit ==
    \/ part = "form" /\ M!Init /\ NoRange /\ NoTransfer /\ NoFile
    \/ part = "range" /\ NoForm /\ R!Init /\ NoTransfer /\ NoFile
    \/ part = "transfer" /\ NoForm /\ NoRange /\ T!Init /\ NoFile
    \/ part = "file" /\ NoForm /\ NoRange /\ NoTransfer /\ F!Init

ContentNext ==
    \/ part = "form" /\ M!Next /\ UNCHANGED <<part, rangeVars, transferVars, fileVars>>
    \/ part = "range" /\ R!Next /\ UNCHANGED <<part, formVars, transferVars, fileVars>>
    \/ part = "transfer" /\ T!Next /\ UNCHANGED <<part, formVars, rangeVars, fileVars>>
    \/ part = "file" /\ F!Next /\ UNCHANGED <<part, formVars, rangeVars, transferVars>>

ContentSpec == ContentInit /\ [][ContentNext]_contentVars

-----------------------------------------------------------------------------
(* The properties of the parts                                              *)

\* Multipart: what the handler is given is a beginning of what was sent, a form
\* that is accepted is all of it, and a well formed one is never refused,
\* wherever the body was cut (FormDataParser, the content providers).
FormsArrive ==
    part = "form" => M!FormIsAPrefix /\ M!AcceptedIsWhole /\ M!WholeIsAccepted

\* Ranges: a partial answer carries exactly the bytes asked for, every other
\* one all of its content, both as many as announced, and
\* get_range_offset_and_length is given positions inside the content.
RangesServed ==
    part = "range" => /\ R!PartsAreWhatWasAsked /\ R!OtherwiseWhole
                      /\ R!AnnouncedIsWritten /\ R!RangesAreResolved

\* Transfer: a framed body that is accepted is all that was written, what was
\* written with success is read without an error, within payload_max_length
\* and with the trailers declared and allowed.
BodiesArrive ==
    part = "transfer" => /\ T!NeverTruncated /\ T!SuccessIsRead
                         /\ T!LimitKept /\ T!TrailersFiltered

\* FileServing: a 304 is the truth about the client's copy, a download in
\* several answers is one version of the file, and a reader of the mapping
\* dies only of a file cut in place.
CopiesAreTrue ==
    part = "file" => F!NotModifiedIsTrue /\ F!CopyIsOneVersion /\ F!DeadOnlyWhenCut
=============================================================================

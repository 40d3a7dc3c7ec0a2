------------------------------ MODULE Download ------------------------------
(***************************************************************************)
(* http::download (src/src/hostapi/http.rs): a file is fetched into        *)
(* <dest>.part over several attempts, each going on where the one before   *)
(* was cut off if the server allows it, checked, and renamed onto dest.    *)
(*                                                                         *)
(* The server is somebody else's: it fails, cuts bodies short, ignores     *)
(* ranges, and replaces the file between two requests and during one. Of a *)
(* file only its versions matter: version v is Lengths[v] times v, and     *)
(* what was at dest before is version 0.                                   *)
(***************************************************************************)
EXTENDS Naturals, Sequences, FiniteSets

CONSTANTS
  Lengths,             \* of each version, in the order the server has them
  MaxRetries, MaxCalls \* bounds: retries of a call, calls (after a kill, again)

VARIABLES
  server,   \* what it has and how it answers
  dest, part,   \* the two files; << >> for one that is not there
  download  \* the call

downloadVars == << server, dest, part, download >>

Version(v) == [i \in 1 .. Lengths[v] |-> v]
Older      == << 0 >>
NoVersion  == 0   \* no ETag and no Last-Modified; no digest asked for
NoLength   == 99  \* no Content-Length; no size asked for

ASSUME DownloadAssumption ==
  /\ Lengths \in Seq(Nat \ {NoLength}) /\ Lengths # << >>
  /\ MaxRetries \in Nat /\ MaxCalls \in Nat

\* opts: how many retries, the size and the digest of which version.
Options == [retries : 0 .. MaxRetries, size : {NoLength} \cup {Lengths[v] : v \in DOMAIN Lengths},
            sha256 : {NoVersion} \cup DOMAIN Lengths]

\* The server may say how long the file is, take ranges, and name versions. A body
\* without a length has framing of its own, or is over when the connection closes.
Servers == [has : {1}, lengths : BOOLEAN, ranges : BOOLEAN, validators : BOOLEAN,
            closes : BOOLEAN]

DownloadOff == server = << >> /\ dest = << >> /\ part = << >> /\ download = << >>

DownloadInit ==
  /\ server \in Servers
  /\ dest \in {<< >>, Older}
  /\ part = << >>
  /\ \E opts \in Options : download = [phase |-> "start", opts |-> opts, calls |-> 1]

\* The file is replaced; a body on its way is of the version it began with.
ServerChanges ==
  /\ server.has < Len(Lengths)
  /\ server' = [server EXCEPT !.has = @ + 1]
  /\ UNCHANGED << dest, part, download >>

\* A .part that an interrupted call has left is removed, or the call fails.
Start ==
  /\ download.phase = "start"
  /\ \/ /\ part' = << >>
        /\ download' = [phase |-> "request", opts |-> download.opts, calls |-> download.calls,
                        made |-> 1, body |-> 0,
                        have |-> 0, ranges |-> FALSE, validator |-> NoVersion,
                        expected |-> NoLength]
     \/ part # << >> /\ part' = part /\ download' = [download EXCEPT !.phase = "failed"]
  /\ UNCHANGED << server, dest >>

(* ------------------------------------------------------------ the attempt *)

\* An attempt fails with what it knows of the .part: another, if that may
\* help and retries are left, or the end.
Fail(st, retry) ==
  download' = [st EXCEPT !.phase = IF retry /\ st.made <= st.opts.retries THEN "pause"
                                   ELSE "failed"]

Pause ==
  /\ download.phase = "pause"
  /\ download' = [download EXCEPT !.phase = "request", !.made = @ + 1]
  /\ UNCHANGED << server, dest, part >>

ResumeFrom == IF download.ranges THEN download.have ELSE 0

\* The file is opened and cut to where the body starts.
Receive(st, start) ==
  /\ part' = SubSeq(part, 1, start)
  /\ download' = [st EXCEPT !.phase = "reading", !.body = server.has]

\* Transport trouble, a 5xx or a 429 on the one hand; any other status, or
\* a file that cannot be opened, on the other.
RequestFails ==
  /\ download.phase = "request"
  /\ \E retry \in BOOLEAN : Fail(download, retry)
  /\ UNCHANGED << server, dest, part >>

\* A mutant of FullStartsAt: behind what there is.
FullStartsBehind == ResumeFrom

\* Where the body of a full response goes.
FullStartsAt == 0

\* 200: the server has not been asked for a range, does not do them, or the
\* validator sent along (If-Range) is not of the version it has.
FullResponse ==
  /\ download.phase = "request"
  /\ Receive([download EXCEPT
                 !.expected = IF server.lengths THEN Lengths[server.has] ELSE NoLength,
                 !.ranges = server.lengths /\ server.ranges,
                 !.validator = IF server.validators THEN server.has ELSE NoVersion],
              FullStartsAt)
  /\ UNCHANGED << server, dest >>

\* 206, the answer to Range with an If-Range that holds, or with none; it may leave
\* the length open ("*"). A Content-Range that starts elsewhere is not taken.
PartialResponse ==
  /\ download.phase = "request"
  /\ server.ranges /\ ResumeFrom > 0 /\ ResumeFrom < Lengths[server.has]
  /\ download.validator \in {NoVersion, server.has}
  /\ \/ \E expected \in {Lengths[server.has], NoLength} :
          Receive([download EXCEPT !.expected = expected], ResumeFrom)
     \/ Fail([download EXCEPT !.have = 0], TRUE) /\ part' = part
  /\ UNCHANGED << server, dest >>

ReceiveChunk ==
  /\ download.phase = "reading"
  /\ Len(part) < Lengths[download.body]
  /\ part' = Append(part, download.body)
  /\ UNCHANGED << server, dest, download >>

\* The connection breaks, or a write or the flush fails.
BodyBreaks ==
  /\ download.phase = "reading"
  /\ \/ Fail([download EXCEPT !.have = Len(part)], TRUE)
     \/ Fail(download, FALSE)
  /\ UNCHANGED << server, dest, part >>

\* The body ends where it should; or early, short of its length or, if it has none
\* and the end of the connection is its end, anywhere.
BodyEnds ==
  /\ download.phase = "reading"
  /\ \/ Len(part) = Lengths[download.body]
     \/ download.expected # NoLength /\ Len(part) < download.expected
     \/ download.expected = NoLength /\ server.closes
  /\ LET total == Len(part)
         expected == download.expected
         size == download.opts.size
     IN CASE expected # NoLength /\ total < expected -> Fail([download EXCEPT !.have = total], TRUE)
          [] expected # NoLength /\ total > expected -> Fail(download, FALSE)
          [] ~(expected # NoLength /\ total # expected) /\ size # NoLength /\ total # size ->
               Fail([download EXCEPT !.have = 0], total < size)
          [] OTHER -> download' = [download EXCEPT !.phase = "check"]
  /\ UNCHANGED << server, dest, part >>

(* ------------------------------------------------------------- the end *)

\* The digest of what is on disk, and the rename, which may fail.
Verified == download.opts.sha256 # NoVersion => part = Version(download.opts.sha256)

Install ==
  /\ download.phase = "check"
  /\ \/ /\ Verified
        /\ dest' = part /\ part' = << >>
        /\ download' = [download EXCEPT !.phase = "done"]
     \/ /\ download' = [download EXCEPT !.phase = "failed"]
        /\ UNCHANGED << dest, part >>
  /\ server' = server

\* Removing the .part of a failed call is tried, no more.
CleanUp ==
  /\ download.phase = "failed"
  /\ part' \in {<< >>, part}
  /\ download' = [download EXCEPT !.phase = "error"]
  /\ UNCHANGED << server, dest >>

\* Killed, and called again by the next run.
KilledAndAgain ==
  /\ download.phase \notin {"done", "start"}
  /\ download.calls < MaxCalls
  /\ download' = [phase |-> "start", opts |-> download.opts, calls |-> download.calls + 1]
  /\ UNCHANGED << server, dest, part >>

DownloadNext ==
  /\ download # << >>
  /\ \/ ServerChanges \/ Start \/ Pause \/ RequestFails \/ FullResponse \/ PartialResponse
     \/ ReceiveChunk \/ BodyBreaks \/ BodyEnds \/ Install \/ CleanUp \/ KilledAndAgain

-----------------------------------------------------------------------------
(* What is at dest is what was there before or one version of the file,    *)
(* the whole of it and nothing of another, wherever bodies were cut off    *)
(* and whenever the server changed the file:                               *)
(*   - if the caller gave a digest, and then it is that version;           *)
(*   - without one, if the server names its versions and a body that was   *)
(*     cut off can be told from one that has ended.                        *)
(* And it has the size that was asked for. The second condition is needed: *)
(* attempt takes a body without a length that ends because the connection  *)
(* is closed for whole, so without digest and size dest may get the first  *)
(* part of a version, although "dest is only ever replaced by a complete,  *)
(* verified file" (src/src/hostapi/http.rs:360).                           *)

\* No body ends with the connection, or none that it could end has no length.
EndsAreSeen == ~server.closes \/ (server.lengths /\ ~server.ranges)

DestIsOneVersion ==
  download # << >> =>
    LET old == dest \in {<< >>, Older}
        opts == download.opts
    IN /\ opts.sha256 # NoVersion => old \/ dest = Version(opts.sha256)
       /\ server.validators /\ EndsAreSeen => old \/ \E v \in DOMAIN Lengths : dest = Version(v)
       /\ opts.size # NoLength => old \/ Len(dest) = opts.size
=============================================================================

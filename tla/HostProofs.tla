----------------------------- MODULE HostProofs -----------------------------
(***************************************************************************)
(* Proofs about what a script reaches the machine and the network with.    *)
(* The parts of Host share no state: the steps of one leave the others     *)
(* alone, so each has an invariant of its own, kept by its own steps.      *)
(***************************************************************************)
EXTENDS Host, WellFoundedInduction, TLAPS

(* ---------------------------------------------------- running programs *)

\* Of pipes of any size and children that write as much as they like.
ChildType ==
  [script : Seq(Pipes), ends : {"exit", "hang"}, heir : BOOLEAN, alive : BOOLEAN]

CallerType ==
  [how : {"captured", "streaming", "deadline"}, timeout : BOOLEAN, left : Nat, open : BOOLEAN,
   fits : BOOLEAN, late : BOOLEAN,
   phase : {"feeding", "streaming", "waiting", "collecting", "ok", "expired"}]

ShellTypeOK ==
  /\ child \in ChildType /\ caller \in CallerType
  /\ pipes \in [Pipes -> Nat] /\ wrote \in [Outputs -> Nat] /\ got \in [Outputs -> Nat]

\* A call with a deadline that has given up on the pipes.
GraceOver == caller.phase = "ok" /\ caller.how = "deadline" /\ caller.late

\* What was written is in the pipe or has been read, and a call that has
\* returned left nothing in it.
Kept ==
  ~GraceOver => /\ \A to \in Outputs : wrote[to] = pipes[to] + got[to]
                /\ caller.phase = "ok" => Joined

ShellInv == caller # << >> => ShellTypeOK /\ Kept

LEMMA ShellStarts == ASSUME ShellInit PROVE ShellTypeOK /\ Kept
<1>1. PICK call \in Calls, program \in Programs :
        /\ child = [script |-> program.script, ends |-> program.ends, heir |-> program.heir,
                    alive |-> TRUE]
        /\ pipes = [p \in Pipes |-> 0]
        /\ wrote = Nothing /\ got = Nothing
        /\ caller = [how |-> call.how, timeout |-> call.timeout, left |-> call.stdin,
                     open |-> call.stdin > 0, fits |-> call.stdin <= PipeRoom,
                     phase |-> "feeding", late |-> FALSE]
  BY DEF ShellInit
<1>2. /\ program.script \in Seq(Pipes)
      /\ program.ends \in {"exit", "hang"} /\ program.heir \in BOOLEAN
  <2>1. program.script \in BoundedSeq(Pipes, MaxChunks)
    BY DEF Programs
  <2>2. PICK n \in 0 .. MaxChunks : program.script \in [1 .. n -> Pipes]
    BY <2>1 DEF BoundedSeq, SeqOf
  <2> QED BY <2>2, ShellAssumption DEF Programs
<1>3. /\ call.how \in {"captured", "streaming", "deadline"} /\ call.timeout \in BOOLEAN
      /\ call.stdin \in Nat
  BY ShellAssumption DEF Calls
<1>4. /\ child \in ChildType /\ pipes \in [Pipes -> Nat]
      /\ wrote \in [Outputs -> Nat] /\ got \in [Outputs -> Nat]
  BY <1>1, <1>2 DEF ChildType, Nothing
<1>5. (call.stdin > 0) \in BOOLEAN /\ (call.stdin <= PipeRoom) \in BOOLEAN
  OBVIOUS
<1>6. caller \in CallerType
  BY <1>1, <1>3, <1>5 DEF CallerType
<1> QED BY <1>1, <1>4, <1>6 DEF ShellTypeOK, Kept, GraceOver, Outputs, Pipes, Nothing

\* The child has written no more than its pipe or its reader has.
LEMMA ChildKeeps == ASSUME ShellTypeOK, Kept, ChildSteps PROVE (ShellTypeOK /\ Kept)'
<1> USE DEF ShellTypeOK, ChildType, Outputs, Pipes
<1>1. ~(caller.phase = "ok" /\ ~GraceOver) /\ caller' = caller /\ got' = got
  BY DEF Kept, Joined, Ended, Hungup, ChildSteps, Reads, Writes, Exits
<1>2. CASE Reads
  <2>1. Tail(child.script) \in Seq(Pipes)
    BY <1>2 DEF Reads
  <2>2. child' \in ChildType
    BY <1>2, <2>1 DEF Reads
  <2>3. pipes' \in [Pipes -> Nat] /\ \A to \in Outputs : pipes'[to] = pipes[to]
    BY <1>2 DEF Reads
  <2>4. wrote' = wrote
    BY <1>2 DEF Reads
  <2> QED BY <1>1, <2>2, <2>3, <2>4 DEF Kept, GraceOver
<1>3. ASSUME NEW to \in Outputs, Writes(to) PROVE (ShellTypeOK /\ Kept)'
  <2>1. Tail(child.script) \in Seq(Pipes)
    BY <1>3 DEF Writes
  <2>2. child' \in ChildType
    BY <1>3, <2>1 DEF Writes
  <2>3. pipes' \in [Pipes -> Nat] /\ wrote' \in [Outputs -> Nat]
    BY <1>3 DEF Writes
  <2>4. \A o \in Outputs : IF o = to THEN pipes'[o] = pipes[o] + 1 /\ wrote'[o] = wrote[o] + 1
                          ELSE pipes'[o] = pipes[o] /\ wrote'[o] = wrote[o]
    BY <1>3 DEF Writes
  <2>5. Kept'
    BY <1>1, <2>3, <2>4 DEF Kept, GraceOver
  <2> QED BY <1>1, <2>2, <2>3, <2>5
<1>4. CASE Exits
  <2>1. child' \in ChildType /\ pipes' = pipes /\ wrote' = wrote
    BY <1>4 DEF Exits
  <2> QED BY <1>1, <2>1 DEF Kept, GraceOver
<1> QED BY <1>2, <1>3, <1>4 DEF ChildSteps

LEMMA ThreadsKeep == ASSUME ShellTypeOK, Kept, Threads PROVE (ShellTypeOK /\ Kept)'
<1> USE DEF ShellTypeOK, Outputs, Pipes
<1>1. PICK from \in Outputs : Drain(from)
  BY DEF Threads
<1>2. ~(caller.phase = "ok" /\ ~GraceOver) /\ UNCHANGED << child, caller, wrote >>
  BY <1>1 DEF Kept, Joined, Ended, Drain
<1>3. /\ pipes' \in [Pipes -> Nat] /\ got' \in [Outputs -> Nat]
      /\ \A o \in Outputs : got'[o] - got[o] = pipes[o] - pipes'[o]
  BY <1>1 DEF Drain
<1>4. \A o \in Outputs : /\ pipes[o] \in Nat /\ pipes'[o] \in Nat /\ wrote[o] \in Nat
                         /\ got[o] \in Nat /\ got'[o] \in Nat
  BY <1>3
<1> QED BY <1>2, <1>3, <1>4 DEF Kept, GraceOver

LEMMA InputFed ==
  ASSUME pipes \in [Pipes -> Nat], caller \in CallerType, Feed
  PROVE  /\ caller.phase = "feeding" /\ caller'.phase = "feeding" /\ caller' \in CallerType
         /\ pipes' \in [Pipes -> Nat] /\ \A to \in Outputs : pipes'[to] = pipes[to]
<1> USE DEF CallerType, Pipes, Outputs
<1>1. caller.phase = "feeding" /\ caller.left \in Nat /\ caller.left > 0
  BY DEF Feed
<1>2. CASE Hungup
  BY <1>1, <1>2 DEF Feed
<1>3. CASE ~Hungup
  <2>1. /\ pipes' = [pipes EXCEPT !["in"] = pipes["in"] + 1]
        /\ caller' = [caller EXCEPT !.left = caller.left - 1]
    BY <1>3 DEF Feed
  <2>2. pipes' \in [Pipes -> Nat] /\ \A to \in Outputs : pipes'[to] = pipes[to]
    BY <2>1
  <2>3. caller' \in CallerType /\ caller'.phase = "feeding"
    BY <1>1, <2>1
  <2> QED BY <1>1, <2>2, <2>3
<1> QED BY <1>2, <1>3

LEMMA CallerKeeps ==
  ASSUME ShellTypeOK, Kept, CallerSteps \/ TimePasses PROVE (ShellTypeOK /\ Kept)'
<1> USE DEF ShellTypeOK, ChildType, CallerType, Outputs, Pipes
<1>1. CASE Feed
  <2>1. /\ caller.phase = "feeding" /\ caller'.phase = "feeding" /\ caller' \in CallerType
        /\ pipes' \in [Pipes -> Nat] /\ \A to \in Outputs : pipes'[to] = pipes[to]
    BY <1>1, InputFed DEF Feed
  <2>3. UNCHANGED << child, wrote, got >>
    BY <1>1 DEF Feed, Hungup
  <2> QED BY <2>1, <2>3 DEF Kept, GraceOver
<1>2. CASE Fed
  BY <1>2 DEF Fed, Kept, GraceOver
<1>3. CASE StreamEnds
  BY <1>3 DEF StreamEnds, Kept, GraceOver
<1>4. CASE WaitEnds
  BY <1>4 DEF WaitEnds, Kept, GraceOver
<1>5. CASE WaitTimesOut
  BY <1>5 DEF WaitTimesOut, Kept, GraceOver
<1>6. CASE Collect
  <2>1. /\ got' = [from \in Outputs |-> IF Ended(from) THEN got[from] ELSE 0]
        /\ UNCHANGED << child, pipes, wrote >> /\ caller' = [caller EXCEPT !.phase = "ok"]
    BY <1>6 DEF Collect
  <2>2. got' \in [Outputs -> Nat]
    BY <2>1
  <2>3. ASSUME Joined PROVE Joined' /\ \A to \in Outputs : got'[to] = got[to]
    BY <2>1, <2>3 DEF Joined, Ended, Hungup
  <2>4. ~Joined => GraceOver'
    BY <1>6, <2>1 DEF Collect, GraceOver
  <2>5. ASSUME Joined PROVE Kept'
    <3>1. \A to \in Outputs : wrote'[to] = pipes'[to] + got'[to]
      BY <1>6, <2>1, <2>3, <2>5 DEF Collect, Kept, GraceOver, Joined, Ended, Hungup
    <3> QED BY <2>3, <2>5, <3>1 DEF Kept
  <2>6. caller' \in CallerType
    BY <2>1
  <2> QED BY <2>1, <2>2, <2>4, <2>5, <2>6 DEF Kept
<1>7. CASE TimePasses
  BY <1>7 DEF TimePasses, Kept, GraceOver
<1> QED BY <1>1, <1>2, <1>3, <1>4, <1>5, <1>6, <1>7 DEF CallerSteps

\* A call that returns a result returns all the child has written, for pipes
\* and outputs of any size and whatever the threads' pace (run_captured,
\* run_streaming_impl and run_cmd_deadline).
THEOREM OutputComplete == HostSpec => []OutputIsWhole
<1>1. HostInit => ShellInv
  BY ShellStarts DEF HostInit, ShellOff, ShellInv
<1>2. ShellInv /\ [HostNext]_hostVars => ShellInv'
  <2> SUFFICES ASSUME ShellInv, [HostNext]_hostVars PROVE ShellInv'
    OBVIOUS
  <2>1. CASE ShellNext
    BY <2>1, ChildKeeps, ThreadsKeep, CallerKeeps DEF ShellNext, ShellInv
  <2>2. CASE UNCHANGED shellVars
    BY <2>2 DEF shellVars, ShellInv, ShellTypeOK, Kept, GraceOver, Joined, Ended, Hungup
  <2> QED BY <2>1, <2>2 DEF HostNext, hostVars
<1>3. ShellInv => OutputIsWhole
  <2> SUFFICES ASSUME ShellTypeOK, Kept, caller.phase = "ok",
                      ~(caller.how = "deadline" /\ caller.late)
               PROVE  got = wrote
    BY DEF ShellInv, OutputIsWhole
  <2>1. \A to \in Outputs : wrote[to] = got[to]
    BY DEF ShellTypeOK, Kept, GraceOver, Joined, Ended, Outputs, Pipes
  <2> QED BY <2>1 DEF ShellTypeOK
<1> QED BY <1>1, <1>2, <1>3, PTL DEF HostSpec

-----------------------------------------------------------------------------
(* ----------------------------------------------------------- downloads *)

\* Of files with any number of versions of any length, with any number of
\* attempts and calls.

Versions == DOMAIN Lengths

ServerType ==
  [has : Versions, lengths : BOOLEAN, ranges : BOOLEAN, validators : BOOLEAN,
   closes : BOOLEAN]

\* A call that has made no attempt yet, and one that has.
CallType == [phase : {"start", "failed", "error"}, opts : Options, calls : Nat]

AttemptType ==
  [phase : {"request", "pause", "reading", "check", "done", "failed", "error"},
   opts : Options, calls : Nat, made : Nat, body : Nat, have : Nat, ranges : BOOLEAN,
   validator : {NoVersion} \cup Versions, expected : Nat]

DownloadTypeOK ==
  /\ server \in ServerType /\ part \in Seq(Nat)
  /\ download \in CallType \cup AttemptType

\* p is the beginning of version v.
Beginning(p, v) == Len(p) <= Lengths[v] /\ \A i \in 1 .. Len(p) : p[i] = v

\* What the next attempt will go on from.
Resumable ==
  download.phase \in {"request", "pause"} =>
    /\ download.have \in {0, Len(part)}
    /\ download.have > 0 /\ download.ranges /\ server.validators =>
         download.validator \in Versions /\ Beginning(part, download.validator)

Coming ==
  download.phase = "reading" =>
    /\ download.body \in Versions /\ Len(part) <= Lengths[download.body]
    /\ download.expected \in {NoLength, Lengths[download.body]}
    /\ server.lengths /\ ~server.ranges => download.expected # NoLength
    /\ server.validators => /\ Beginning(part, download.body)
                            /\ download.ranges => download.validator = download.body

Arrived ==
  download.phase = "check" =>
    /\ download.opts.size # NoLength => Len(part) = download.opts.size
    /\ server.validators /\ EndsAreSeen => \E v \in Versions : part = Version(v)

DownloadInv == DownloadTypeOK /\ Resumable /\ Coming /\ Arrived /\ DestIsOneVersion

LEMMA LengthsAre ==
  Versions = 1 .. Len(Lengths) /\ \A v \in Versions : Lengths[v] \in Nat \ {NoLength}
BY DownloadAssumption DEF Versions

LEMMA DownloadStarts == ASSUME DownloadInit PROVE DownloadInv
<1>1. PICK opts \in Options : download = [phase |-> "start", opts |-> opts, calls |-> 1]
  BY DEF DownloadInit
<1>2. server \in ServerType
  <2>1. 1 \in Versions
    BY LengthsAre, DownloadAssumption
  <2> QED BY <2>1 DEF DownloadInit, Servers, ServerType
<1>3. download \in CallType /\ part \in Seq(Nat) /\ download.phase = "start"
  BY <1>1 DEF CallType, DownloadInit
<1>4. DestIsOneVersion
  BY DEF DownloadInit, DestIsOneVersion
<1> QED BY <1>2, <1>3, <1>4 DEF DownloadInv, DownloadTypeOK, Resumable, Coming, Arrived

\* Nothing but Install touches dest.
LEMMA DestKept ==
  ASSUME DestIsOneVersion, download # << >>, dest' = dest, download'.opts = download.opts,
         server'.validators = server.validators, server'.lengths = server.lengths,
         server'.ranges = server.ranges, server'.closes = server.closes
  PROVE  DestIsOneVersion'
BY DEF DestIsOneVersion, EndsAreSeen, Version

\* A call that is over, or has not begun, has nothing else to keep.
LEMMA NotUnderWay ==
  ASSUME DownloadTypeOK', DestIsOneVersion',
         download'.phase \notin {"request", "pause", "reading", "check"}
  PROVE  DownloadInv'
BY DEF DownloadInv, Resumable, Coming, Arrived

LEMMA UnderWay ==
  ASSUME DownloadTypeOK, download.phase \in {"request", "pause", "reading", "check", "done"}
  PROVE  download \in AttemptType
BY DEF DownloadTypeOK, CallType

LEMMA Failing ==
  ASSUME NEW st \in AttemptType, NEW retry \in BOOLEAN, Fail(st, retry)
  PROVE  /\ download' \in AttemptType /\ download'.phase \in {"pause", "failed"}
         /\ download'.opts = st.opts /\ download'.have = st.have
         /\ download'.ranges = st.ranges /\ download'.validator = st.validator
         /\ ~retry => download'.phase = "failed"
<1>1. PICK phase \in {"pause", "failed"} :
        /\ download' = [st EXCEPT !.phase = phase]
        /\ ~retry => phase = "failed"
  BY DEF Fail
<1> QED BY <1>1 DEF AttemptType

LEMMA ServerChangesKeeps ==
  ASSUME DownloadInv, download # << >>, ServerChanges PROVE DownloadInv'
<1>1. /\ server' \in ServerType /\ server'.validators = server.validators
      /\ server'.lengths = server.lengths /\ server'.ranges = server.ranges
      /\ server'.closes = server.closes
      /\ dest' = dest /\ part' = part /\ download' = download
  <2>1. server \in ServerType /\ server.has \in Nat /\ server.has < Len(Lengths)
    BY LengthsAre DEF ServerChanges, DownloadInv, DownloadTypeOK, ServerType
  <2>2. server.has + 1 \in Versions
    BY <2>1, LengthsAre, DownloadAssumption
  <2> QED BY <2>1, <2>2 DEF ServerChanges, ServerType
<1>2. EndsAreSeen' <=> EndsAreSeen
  BY <1>1 DEF EndsAreSeen
<1> QED
  BY <1>1, <1>2, DestKept
  DEF DownloadInv, DownloadTypeOK, Resumable, Coming, Arrived, Beginning, Version

LEMMA StartKeeps == ASSUME DownloadInv, download # << >>, Start PROVE DownloadInv'
<1>1. server' = server /\ dest' = dest /\ download \in CallType
  BY DEF Start, DownloadInv, DownloadTypeOK, CallType, AttemptType
<1>2. CASE /\ part' = << >>
           /\ download' = [phase |-> "request", opts |-> download.opts,
                           calls |-> download.calls, made |-> 1, body |-> 0, have |-> 0,
                           ranges |-> FALSE, validator |-> NoVersion, expected |-> NoLength]
  <2>1. download' \in AttemptType /\ part' \in Seq(Nat)
    BY <1>1, <1>2 DEF CallType, AttemptType, NoVersion, NoLength
  <2>2. download'.opts = download.opts /\ download'.phase = "request" /\ download'.have = 0
    BY <1>2
  <2> QED
    BY <1>1, <2>1, <2>2, DestKept DEF DownloadInv, DownloadTypeOK, Resumable, Coming, Arrived
<1>3. CASE part' = part /\ download' = [download EXCEPT !.phase = "failed"]
  <2>1. /\ download' \in CallType /\ download'.opts = download.opts
        /\ download'.phase = "failed"
    BY <1>1, <1>3 DEF CallType
  <2> QED BY <1>1, <1>3, <2>1, DestKept, NotUnderWay DEF DownloadInv, DownloadTypeOK
<1> QED BY <1>2, <1>3 DEF Start

LEMMA PauseKeeps == ASSUME DownloadInv, download # << >>, Pause PROVE DownloadInv'
<1>1. download \in AttemptType /\ UNCHANGED << server, dest, part >>
  BY UnderWay DEF Pause, DownloadInv
<1>2. download.made + 1 \in Nat
  BY <1>1 DEF AttemptType
<1>3. /\ download' \in AttemptType /\ download'.phase = "request"
      /\ download'.opts = download.opts /\ download'.have = download.have
      /\ download'.ranges = download.ranges /\ download'.validator = download.validator
  BY <1>1, <1>2 DEF Pause, AttemptType
<1> QED
  BY <1>1, <1>3, DestKept
  DEF Pause, DownloadInv, DownloadTypeOK, Resumable, Coming, Arrived, Beginning

\* An attempt that fails, with the part as long as st says or to be thrown
\* away.
LEMMA FailKeeps ==
  ASSUME DownloadInv, download # << >>, NEW st \in AttemptType, NEW retry \in BOOLEAN,
         Fail(st, retry), UNCHANGED << server, dest, part >>,
         st.opts = download.opts,
         retry => /\ st.have \in {0, Len(part)}
                  /\ st.have > 0 /\ st.ranges /\ server.validators =>
                       st.validator \in Versions /\ Beginning(part, st.validator)
  PROVE  DownloadInv'
<1>1. /\ download' \in AttemptType /\ download'.phase \in {"pause", "failed"}
      /\ download'.opts = st.opts /\ download'.have = st.have
      /\ download'.ranges = st.ranges /\ download'.validator = st.validator
      /\ (~retry => download'.phase = "failed")
  BY Failing
<1> QED
  BY <1>1, DestKept DEF DownloadInv, DownloadTypeOK, Resumable, Coming, Arrived, Beginning

LEMMA RequestFailsKeeps == ASSUME DownloadInv, download # << >>, RequestFails PROVE DownloadInv'
<1>1. download \in AttemptType
  BY UnderWay DEF RequestFails, DownloadInv
<1>2. PICK retry \in BOOLEAN : Fail(download, retry)
  BY DEF RequestFails
<1> QED BY <1>1, <1>2, FailKeeps DEF RequestFails, DownloadInv, Resumable

\* The body is of the version the server has, and goes where it belongs.
LEMMA FullResponseKeeps ==
  ASSUME DownloadInv, download # << >>, FullResponse PROVE DownloadInv'
<1>1. /\ download \in AttemptType /\ server \in ServerType /\ part \in Seq(Nat)
      /\ server.has \in Versions /\ UNCHANGED << server, dest >>
  BY UnderWay DEF FullResponse, DownloadInv, DownloadTypeOK, ServerType
<1> DEFINE expected == IF server.lengths THEN Lengths[server.has] ELSE NoLength
           ranges == server.lengths /\ server.ranges
           validator == IF server.validators THEN server.has ELSE NoVersion
<1>2. /\ expected \in Nat /\ ranges \in BOOLEAN /\ validator \in {NoVersion} \cup Versions
      /\ server.has \in Nat /\ Lengths[server.has] \in Nat
  BY <1>1, LengthsAre DEF NoVersion, NoLength, ServerType
<1>3. /\ part' = SubSeq(part, 1, 0)
      /\ download' = [[download EXCEPT !.expected = expected, !.ranges = ranges,
                                       !.validator = validator]
                        EXCEPT !.phase = "reading", !.body = server.has]
  BY DEF FullResponse, Receive, FullStartsAt
<1> HIDE DEF expected, ranges, validator
<1>4. download' = [phase |-> "reading", opts |-> download.opts, calls |-> download.calls,
                   made |-> download.made, body |-> server.has, have |-> download.have,
                   ranges |-> ranges, validator |-> validator, expected |-> expected]
  BY <1>1, <1>3 DEF AttemptType
<1>5. download' \in AttemptType
  BY <1>1, <1>2, <1>4 DEF AttemptType
<1>6. part' \in Seq(Nat) /\ Len(part') = 0
  BY <1>1, <1>3
<1>7. Coming'
  <2>1. /\ download'.body = server.has /\ server' = server
        /\ download'.expected \in {NoLength, Lengths[server.has]}
        /\ (server.validators => download'.validator = server.has)
    BY <1>1, <1>4 DEF expected, validator
  <2>2. server.lengths => download'.expected # NoLength
    BY <1>1, <1>4, LengthsAre DEF expected
  <2> QED BY <1>1, <1>2, <1>6, <2>1, <2>2 DEF Coming, Beginning
<1> QED
  BY <1>1, <1>4, <1>5, <1>6, <1>7, DestKept DEF DownloadInv, DownloadTypeOK, Resumable, Arrived

LEMMA PartialResponseKeeps ==
  ASSUME DownloadInv, download # << >>, PartialResponse PROVE DownloadInv'
<1>1. /\ download \in AttemptType /\ server \in ServerType /\ part \in Seq(Nat)
      /\ server.has \in Versions /\ UNCHANGED << server, dest >> /\ server.has \in Nat
      /\ Lengths[server.has] \in Nat
  BY UnderWay, LengthsAre DEF PartialResponse, DownloadInv, DownloadTypeOK, ServerType
<1>2. /\ download.ranges /\ download.have > 0 /\ ResumeFrom = download.have
      /\ download.have = Len(part) /\ Len(part) < Lengths[server.has]
  BY <1>1 DEF PartialResponse, ResumeFrom, DownloadInv, Resumable, AttemptType
<1>3. server.validators => download.validator = server.has /\ Beginning(part, server.has)
  BY <1>1, <1>2, LengthsAre DEF PartialResponse, DownloadInv, Resumable, NoVersion
<1>4. ASSUME NEW expected \in {Lengths[server.has], NoLength},
             Receive([download EXCEPT !.expected = expected], ResumeFrom)
      PROVE  DownloadInv'
  <2>0. expected \in Nat /\ server.ranges
    BY <1>1 DEF NoLength, PartialResponse
  <2>1. part' = part
    BY <1>1, <1>2, <1>4 DEF Receive
  <2>2. download' = [[download EXCEPT !.expected = expected]
                       EXCEPT !.phase = "reading", !.body = server.has]
    BY <1>4 DEF Receive
  <2>3. download' = [phase |-> "reading", opts |-> download.opts, calls |-> download.calls,
                     made |-> download.made, body |-> server.has, have |-> download.have,
                     ranges |-> download.ranges, validator |-> download.validator,
                     expected |-> expected]
    BY <1>1, <2>2 DEF AttemptType
  <2>4. download' \in AttemptType
    BY <1>1, <2>0, <2>3 DEF AttemptType
  <2>5. Coming'
    BY <1>1, <1>2, <1>3, <1>4, <2>0, <2>1, <2>3 DEF Coming, Beginning
  <2> QED
    BY <1>1, <2>1, <2>3, <2>4, <2>5, DestKept
    DEF DownloadInv, DownloadTypeOK, Resumable, Arrived
<1>5. CASE Fail([download EXCEPT !.have = 0], TRUE) /\ part' = part
  <2> DEFINE st == [download EXCEPT !.have = 0]
  <2>1. st \in AttemptType /\ st.opts = download.opts /\ st.have = 0
    BY <1>1 DEF AttemptType
  <2> HIDE DEF st
  <2>2. Fail(st, TRUE)
    BY <1>5 DEF st
  <2>3. UNCHANGED << server, dest, part >>
    BY <1>1, <1>5
  <2>4. st.have \in {0, Len(part)} /\ ~(st.have > 0)
    BY <2>1
  <2> QED BY <2>1, <2>2, <2>3, <2>4, FailKeeps
<1> QED BY <1>4, <1>5 DEF PartialResponse

LEMMA ReceiveChunkKeeps ==
  ASSUME DownloadInv, download # << >>, ReceiveChunk PROVE DownloadInv'
<1>1. /\ download.phase = "reading" /\ part \in Seq(Nat) /\ UNCHANGED << server, dest, download >>
      /\ download.body \in Versions /\ download.body \in Nat
      /\ Lengths[download.body] \in Nat /\ Len(part) < Lengths[download.body]
      /\ part' = Append(part, download.body)
  BY LengthsAre DEF ReceiveChunk, DownloadInv, DownloadTypeOK, Coming
<1>2. /\ part' \in Seq(Nat) /\ Len(part') = Len(part) + 1
      /\ \A i \in 1 .. Len(part') : part'[i] = IF i <= Len(part) THEN part[i] ELSE download.body
  BY <1>1
<1>3. Beginning(part, download.body) => Beginning(part, download.body)'
  BY <1>1, <1>2 DEF Beginning
<1>4. Coming'
  BY <1>1, <1>2, <1>3 DEF DownloadInv, Coming
<1>5. DestIsOneVersion'
  BY <1>1, DestKept DEF DownloadInv
<1> QED BY <1>1, <1>2, <1>4, <1>5 DEF DownloadInv, DownloadTypeOK, Resumable, Arrived

\* An attempt whose body stops goes on from what has come of it.
LEMMA StopsShort ==
  ASSUME DownloadInv, download # << >>, download.phase = "reading",
         UNCHANGED << server, dest, part >>, Fail([download EXCEPT !.have = Len(part)], TRUE)
  PROVE  DownloadInv'
<1> DEFINE st == [download EXCEPT !.have = Len(part)]
<1>1. download \in AttemptType /\ Len(part) \in Nat
  BY UnderWay DEF DownloadInv, DownloadTypeOK
<1>2. /\ st \in AttemptType /\ st.opts = download.opts /\ st.have = Len(part)
      /\ st.ranges = download.ranges /\ st.validator = download.validator
  BY <1>1 DEF AttemptType
<1> HIDE DEF st
<1>3. Fail(st, TRUE)
  BY DEF st
<1>4. st.ranges /\ server.validators => st.validator \in Versions /\ Beginning(part, st.validator)
  BY <1>2 DEF DownloadInv, Coming
<1> QED BY <1>2, <1>3, <1>4, FailKeeps

LEMMA FailsForGood ==
  ASSUME DownloadInv, download # << >>, download.phase = "reading",
         UNCHANGED << server, dest, part >>, Fail(download, FALSE)
  PROVE  DownloadInv'
<1>1. download \in AttemptType
  BY UnderWay DEF DownloadInv
<1> QED BY <1>1, FailKeeps

LEMMA BodyBreaksKeeps ==
  ASSUME DownloadInv, download # << >>, BodyBreaks PROVE DownloadInv'
BY StopsShort, FailsForGood DEF BodyBreaks

\* A body that ends with nothing amiss has all of its version, if its end is seen.
LEMMA BodyEndsKeeps == ASSUME DownloadInv, download # << >>, BodyEnds PROVE DownloadInv'
<1>1. /\ download.phase = "reading" /\ UNCHANGED << server, dest, part >>
      /\ download \in AttemptType /\ part \in Seq(Nat)
      /\ download.body \in Versions /\ Lengths[download.body] \in Nat
      /\ download.expected \in Nat /\ Len(part) \in Nat
  BY UnderWay, LengthsAre DEF BodyEnds, DownloadInv, DownloadTypeOK, Coming, AttemptType
<1>2. CASE Fail([download EXCEPT !.have = Len(part)], TRUE)
  BY <1>1, <1>2, StopsShort
<1>3. CASE Fail(download, FALSE)
  BY <1>1, <1>3, FailsForGood
<1>4. CASE \E retry \in BOOLEAN : Fail([download EXCEPT !.have = 0], retry)
  <2> DEFINE st == [download EXCEPT !.have = 0]
  <2>1. st \in AttemptType /\ st.opts = download.opts /\ st.have = 0
    BY <1>1 DEF AttemptType
  <2> HIDE DEF st
  <2>2. PICK retry \in BOOLEAN : Fail(st, retry)
    BY <1>4 DEF st
  <2> QED BY <1>1, <2>1, <2>2, FailKeeps
<1>5. CASE /\ download' = [download EXCEPT !.phase = "check"]
           /\ ~(download.expected # NoLength /\ Len(part) < download.expected)
           /\ download.opts.size # NoLength => Len(part) = download.opts.size
  <2>1. /\ download' \in AttemptType /\ download'.opts = download.opts
        /\ download'.phase = "check"
    BY <1>1, <1>5 DEF AttemptType
  <2>2. EndsAreSeen => Len(part) = Lengths[download.body]
    <3>1. EndsAreSeen /\ server.closes => download.expected # NoLength
      BY <1>1 DEF EndsAreSeen, DownloadInv, Coming
    <3>2. /\ download.expected \in {NoLength, Lengths[download.body]}
          /\ Len(part) <= Lengths[download.body]
      BY <1>1 DEF DownloadInv, Coming
    <3> QED BY <1>1, <1>5, <3>1, <3>2 DEF BodyEnds
  <2>3. server.validators /\ EndsAreSeen => part = Version(download.body)
    BY <1>1, <2>2 DEF DownloadInv, Coming, Beginning, Version
  <2>4. EndsAreSeen' <=> EndsAreSeen
    BY <1>1 DEF EndsAreSeen
  <2>5. Arrived'
    BY <1>1, <1>5, <2>1, <2>3, <2>4 DEF Arrived, Version
  <2> QED
    BY <1>1, <2>1, <2>4, <2>5, DestKept DEF DownloadInv, DownloadTypeOK, Resumable, Coming
<1> QED
  <2>1. \/ Fail([download EXCEPT !.have = Len(part)], TRUE)
        \/ Fail(download, FALSE)
        \/ Fail([download EXCEPT !.have = 0], Len(part) < download.opts.size)
        \/ /\ download' = [download EXCEPT !.phase = "check"]
           /\ ~(download.expected # NoLength /\ Len(part) < download.expected)
           /\ download.opts.size # NoLength => Len(part) = download.opts.size
    <3>1. CASE download.expected # NoLength /\ Len(part) < download.expected
      BY <3>1 DEF BodyEnds
    <3>2. CASE download.expected # NoLength /\ Len(part) > download.expected
      BY <1>1, <3>2 DEF BodyEnds
    <3>3. CASE /\ ~(download.expected # NoLength /\ Len(part) # download.expected)
               /\ download.opts.size # NoLength /\ Len(part) # download.opts.size
      BY <1>1, <3>3 DEF BodyEnds
    <3>4. CASE /\ ~(download.expected # NoLength /\ Len(part) < download.expected)
               /\ ~(download.expected # NoLength /\ Len(part) > download.expected)
               /\ ~(/\ ~(download.expected # NoLength /\ Len(part) # download.expected)
                    /\ download.opts.size # NoLength /\ Len(part) # download.opts.size)
      <4>1. download' = [download EXCEPT !.phase = "check"]
        BY <3>4 DEF BodyEnds
      <4>2. download.opts.size # NoLength => Len(part) = download.opts.size
        BY <1>1, <3>4
      <4> QED BY <3>4, <4>1, <4>2
    <3> QED BY <3>1, <3>2, <3>3, <3>4
  <2>2. (Len(part) < download.opts.size) \in BOOLEAN
    OBVIOUS
  <2> QED BY <1>2, <1>3, <1>4, <1>5, <2>1, <2>2

\* dest becomes what has arrived, or stays.
LEMMA InstallKeeps == ASSUME DownloadInv, download # << >>, Install PROVE DownloadInv'
<1>1. /\ download \in AttemptType /\ download.phase = "check" /\ server' = server
      /\ part \in Seq(Nat)
  BY UnderWay DEF Install, DownloadInv, DownloadTypeOK
<1>2. CASE /\ Verified /\ dest' = part /\ part' = << >>
           /\ download' = [download EXCEPT !.phase = "done"]
  <2>1. /\ download' \in AttemptType /\ download'.opts = download.opts
        /\ download'.phase = "done"
    BY <1>1, <1>2 DEF AttemptType
  <2>2. DestIsOneVersion'
    BY <1>1, <1>2, <2>1 DEF DownloadInv, Arrived, Verified, DestIsOneVersion, EndsAreSeen,
                          Versions, Version
  <2> QED BY <1>1, <1>2, <2>1, <2>2, NotUnderWay DEF DownloadInv, DownloadTypeOK
<1>3. CASE UNCHANGED << dest, part >> /\ download' = [download EXCEPT !.phase = "failed"]
  <2>1. /\ download' \in AttemptType /\ download'.opts = download.opts
        /\ download'.phase = "failed"
    BY <1>1, <1>3 DEF AttemptType
  <2> QED BY <1>1, <1>3, <2>1, DestKept, NotUnderWay DEF DownloadInv, DownloadTypeOK
<1> QED BY <1>2, <1>3 DEF Install

LEMMA CleanUpKeeps == ASSUME DownloadInv, download # << >>, CleanUp PROVE DownloadInv'
<1>1. /\ UNCHANGED << server, dest >> /\ part \in Seq(Nat) /\ part' \in {<< >>, part}
      /\ download' = [download EXCEPT !.phase = "error"]
  BY DEF CleanUp, DownloadInv, DownloadTypeOK
<1>2. /\ download' \in CallType \cup AttemptType /\ download'.opts = download.opts
      /\ download'.phase = "error"
  <2>1. CASE download \in CallType
    BY <1>1, <2>1 DEF CallType
  <2>2. CASE download \in AttemptType
    BY <1>1, <2>2 DEF AttemptType
  <2> QED BY <2>1, <2>2 DEF DownloadInv, DownloadTypeOK
<1>3. part' \in Seq(Nat)
  <2>1. CASE part' = part
    BY <1>1, <2>1
  <2>2. CASE part' = << >>
    BY <2>2
  <2> QED BY <1>1, <2>1, <2>2
<1>4. DownloadTypeOK'
  BY <1>1, <1>2, <1>3 DEF DownloadInv, DownloadTypeOK
<1>5. DestIsOneVersion'
  BY <1>1, <1>2, DestKept DEF DownloadInv
<1> QED BY <1>2, <1>4, <1>5, NotUnderWay

LEMMA KilledKeeps == ASSUME DownloadInv, download # << >>, KilledAndAgain PROVE DownloadInv'
<1>1. /\ UNCHANGED << server, dest, part >>
      /\ download' = [phase |-> "start", opts |-> download.opts, calls |-> download.calls + 1]
  BY DEF KilledAndAgain
<1>2. download.opts \in Options /\ download.calls \in Nat
  BY DEF DownloadInv, DownloadTypeOK, CallType, AttemptType
<1>3. download' \in CallType /\ download'.opts = download.opts /\ download'.phase = "start"
  BY <1>1, <1>2 DEF CallType
<1> QED BY <1>1, <1>3, DestKept, NotUnderWay DEF DownloadInv, DownloadTypeOK

\* dest is what was there before or one version of the file, whole, for any
\* file, number of attempts and calls, and any server that names its versions and
\* shows where its bodies end, or any server at all if the caller gave a digest
\* (http.rs: attempt and download_file).
THEOREM WholeOrNothing == HostSpec => []DestIsOneVersion
<1> DEFINE Inv == download # << >> => DownloadInv
<1>1. HostInit => Inv
  BY DownloadStarts DEF HostInit, DownloadOff
<1>2. Inv /\ [HostNext]_hostVars => Inv'
  <2>1. ASSUME Inv, DownloadNext PROVE Inv'
    BY <2>1, ServerChangesKeeps, StartKeeps, PauseKeeps, RequestFailsKeeps, FullResponseKeeps,
       PartialResponseKeeps, ReceiveChunkKeeps, BodyBreaksKeeps, BodyEndsKeeps, InstallKeeps,
       CleanUpKeeps, KilledKeeps
    DEF DownloadNext
  <2>2. ASSUME Inv, UNCHANGED downloadVars PROVE Inv'
    BY <2>2 DEF downloadVars, DownloadInv, DownloadTypeOK, Resumable, Coming, Arrived,
                Beginning, DestIsOneVersion, EndsAreSeen, Version
  <2> QED BY <2>1, <2>2 DEF HostNext, hostVars
<1>3. Inv => DestIsOneVersion
  BY DEF DownloadInv, DestIsOneVersion
<1> QED BY <1>1, <1>2, <1>3, PTL DEF HostSpec

-----------------------------------------------------------------------------
(* ---------------------------------------------------- scenario scripts *)

\* However many calls they make.

GuestType ==
  [agent : {"off", "booting", "up"}, answers : 0 .. 2, restless : BOOLEAN,
   binary : {"none", "partial", "whole"}, runs : BOOLEAN,
   work : [ScenarioCalls -> SUBSET Nat]]

MachineType == [prepared : BOOLEAN, counter : Nat]

ScriptSteps == {"idle", "up", "restart", "ready", "steady", "exec", "copy", "smoke", "work",
                "stage", "apply", "cleanup"}

ScriptType ==
  [no : 0 .. MaxScenarioCalls, op : ScenarioOps \cup {"none"}, step : ScriptSteps,
   streak : 0 .. 2, late : BOOLEAN, ready : BOOLEAN]

ScenarioTypeOK ==
  /\ guest \in GuestType /\ script \in ScriptType
  /\ machine = << >> \/ machine \in MachineType

SteadyGuest(g) == g.agent = "up" /\ (g.restless => g.answers > 1)

\* What the script was told still holds, and its streak is of answers.
Told == /\ script.ready => SteadyGuest(guest)
        /\ script.step = "steady" => guest.answers >= script.streak

\* A directory is used by the call that has taken its number.
Fresh ==
  /\ machine = << >> => \A n \in ScenarioCalls : guest.work[n] = {}
  /\ machine \in MachineType =>
       /\ machine.counter <= script.no
       /\ \A n \in ScenarioCalls : n > machine.counter => guest.work[n] = {}
       /\ machine.prepared => guest.binary = "whole" /\ guest.runs

\* Where in a call the script can be.
Placed ==
  /\ script.op = "machine" /\ script.step \in {"up", "restart", "ready", "steady"} =>
       machine = << >>
  /\ script.step = "up" => script.op = "machine"
  /\ script.step \in {"copy", "smoke", "work"} =>
       machine \in MachineType /\ machine.counter < script.no
  /\ script.step \in {"copy", "smoke"} => script.op = "run" /\ ~machine.prepared
  /\ script.step \in {"work", "stage"} => script.op \in {"run", "powershell"}
  /\ script.step \in {"stage", "apply"} =>
       machine \in MachineType /\ machine.counter \in ScenarioCalls
  /\ script.step \in {"work", "stage", "apply"} /\ script.op = "run" => machine.prepared
  /\ script.step = "stage" => guest.work[machine.counter] = {}
  /\ script.step = "apply" => script.op = "run" /\ guest.work[machine.counter] = {script.no}

ScenarioInv == ScenarioTypeOK /\ Told /\ Fresh /\ Placed

\* Where a call goes on, and how it ends.
LEMMA Going ==
  ASSUME script \in ScriptType, NEW step \in ScriptSteps, Goes(step)
  PROVE  /\ script' \in ScriptType
         /\ script'.no = script.no /\ script'.op = script.op /\ script'.ready = script.ready
         /\ script'.step = step /\ script'.streak = 0
<1>1. script' = [no |-> script.no, op |-> script.op, step |-> step, streak |-> 0,
                 late |-> FALSE, ready |-> script.ready]
  BY DEF ScriptType, Goes
<1>2. /\ script.no \in 0 .. MaxScenarioCalls /\ script.op \in ScenarioOps \cup {"none"}
      /\ script.ready \in BOOLEAN /\ 0 \in 0 .. 2
  BY DEF ScriptType
<1> QED BY <1>1, <1>2 DEF ScriptType

LEMMA Returning ==
  ASSUME script \in ScriptType, NEW ready \in BOOLEAN, Returns(ready)
  PROVE  /\ script' \in ScriptType
         /\ script'.no = script.no /\ script'.op = script.op /\ script'.ready = ready
         /\ script'.step = "idle"
<1>1. script' = [no |-> script.no, op |-> script.op, step |-> "idle", streak |-> 0,
                 late |-> FALSE, ready |-> ready]
  BY DEF ScriptType, Returns
<1>2. /\ script.no \in 0 .. MaxScenarioCalls /\ script.op \in ScenarioOps \cup {"none"}
      /\ "idle" \in ScriptSteps /\ 0 \in 0 .. 2
  BY DEF ScriptType, ScriptSteps
<1> QED BY <1>1, <1>2 DEF ScriptType

LEMMA Ending ==
  ASSUME script \in ScriptType, Ends
  PROVE  /\ script' \in ScriptType
         /\ script'.no = script.no /\ script'.op = script.op /\ script'.ready = script.ready
         /\ script'.step = "idle"
<1>1. script.ready \in BOOLEAN
  BY DEF ScriptType
<1> QED BY <1>1, Returning DEF Ends

\* An exec in the guest touches nothing but what the agent remembers, and only
\* a restless agent fails to answer.
LEMMA Answering ==
  ASSUME NEW g \in GuestType, Answered(g)
  PROVE  /\ guest' \in GuestType
         /\ guest'.binary = g.binary /\ guest'.runs = g.runs /\ guest'.work = g.work
         /\ guest'.agent = "up" /\ guest'.restless = g.restless
         /\ guest'.answers = IF g.answers < 2 THEN g.answers + 1 ELSE g.answers
<1>1. g.answers \in 0 .. 2 /\ g.agent = "up"
  BY DEF GuestType, Answered
<1>2. CASE g.answers < 2
  <2>1. guest' = [g EXCEPT !.answers = g.answers + 1] /\ g.answers + 1 \in 0 .. 2
    BY <1>1, <1>2 DEF Answered
  <2> QED BY <1>1, <1>2, <2>1 DEF GuestType
<1>3. CASE ~(g.answers < 2)
  <2>1. guest' = g
    BY <1>3 DEF Answered, GuestType
  <2> QED BY <1>1, <1>3, <2>1
<1> QED BY <1>2, <1>3

LEMMA AgentKeeps ==
  ASSUME NEW g \in GuestType, Answered(g) \/ Unanswered(g)
  PROVE  /\ guest' \in GuestType
         /\ guest'.binary = g.binary /\ guest'.runs = g.runs /\ guest'.work = g.work
         /\ SteadyGuest(g) => SteadyGuest(guest')
<1>0. g.answers \in 0 .. 2
  BY DEF GuestType
<1>1. CASE Answered(g)
  BY <1>0, <1>1, Answering DEF SteadyGuest
<1>2. CASE Unanswered(g)
  <2>1. CASE guest' = g
    BY <2>1
  <2>2. CASE /\ g.restless /\ g.answers <= 1
             /\ guest' = [g EXCEPT !.answers = 0, !.restless = FALSE]
    <3>1. guest' = [agent |-> g.agent, answers |-> 0, restless |-> FALSE,
                    binary |-> g.binary, runs |-> g.runs, work |-> g.work]
      BY <2>2 DEF GuestType
    <3>2. guest' \in GuestType
      BY <3>1 DEF GuestType
    <3> QED BY <1>0, <2>2, <3>1, <3>2 DEF SteadyGuest
  <2> QED BY <1>2, <2>1, <2>2 DEF Unanswered
<1> QED BY <1>1, <1>2

LEMMA ScenarioStarts == ASSUME ScenarioInit PROVE ScenarioInv
<1>1. PICK runs \in BOOLEAN :
        guest = [agent |-> "off", answers |-> 0, restless |-> FALSE, binary |-> "none",
                 runs |-> runs, work |-> [n \in ScenarioCalls |-> {}]]
  BY DEF ScenarioInit
<1>2. /\ machine = << >>
      /\ script = [no |-> 0, op |-> "none", step |-> "idle", streak |-> 0, late |-> FALSE,
                   ready |-> FALSE]
  BY DEF ScenarioInit
<1>3. guest \in GuestType
  BY <1>1 DEF GuestType
<1>4. script \in ScriptType
  BY <1>2, ScenarioAssumption DEF ScriptType, ScriptSteps
<1>5. \A n \in ScenarioCalls : guest.work[n] = {}
  BY <1>1
<1>6. machine \notin MachineType
  BY <1>2 DEF MachineType
<1> QED BY <1>2, <1>3, <1>4, <1>5, <1>6 DEF ScenarioInv, ScenarioTypeOK, Told, Fresh, Placed

\* A call that has ended leaves nothing to be kept of where it was.
LEMMA Idle ==
  ASSUME guest' \in GuestType, machine' = << >> \/ machine' \in MachineType, Fresh',
         script' \in ScriptType, script'.step = "idle", script'.ready => SteadyGuest(guest')
  PROVE  ScenarioInv'
BY DEF ScenarioInv, ScenarioTypeOK, Told, Placed, SteadyGuest

\* What is in the guest stays as it is.
LEMMA Undisturbed ==
  ASSUME Fresh, guest'.work = guest.work, guest'.binary = guest.binary,
         guest'.runs = guest.runs, machine' = machine, script'.no = script.no
  PROVE  Fresh'
BY DEF Fresh

LEMMA AgentStartsKeeps == ASSUME ScenarioInv, AgentStarts PROVE ScenarioInv'
<1>1. PICK restless \in BOOLEAN :
        guest' = [guest EXCEPT !.agent = "up", !.restless = restless]
  BY DEF AgentStarts
<1>2. /\ guest' \in GuestType /\ guest'.work = guest.work /\ guest'.binary = guest.binary
      /\ guest'.runs = guest.runs /\ guest'.answers = guest.answers
  BY <1>1 DEF ScenarioInv, ScenarioTypeOK, GuestType
<1>3. ~script.ready
  BY DEF ScenarioInv, Told, SteadyGuest, AgentStarts
<1> QED
  BY <1>2, <1>3, Undisturbed
  DEF AgentStarts, ScenarioInv, ScenarioTypeOK, Told, Placed

LEMMA UpKeeps == ASSUME ScenarioInv, Up PROVE ScenarioInv'
<1>1. PICK agent \in {"off", "booting", guest.agent} :
        /\ guest.agent # "off" => agent = guest.agent
        /\ guest' = [guest EXCEPT !.agent = agent]
        /\ Goes("ready") \/ Ends
  BY DEF Up
<1>2. /\ guest' \in GuestType /\ guest'.work = guest.work /\ guest'.binary = guest.binary
      /\ guest'.runs = guest.runs
  BY <1>1 DEF ScenarioInv, ScenarioTypeOK, GuestType
<1>3. SteadyGuest(guest) => SteadyGuest(guest')
  BY <1>1 DEF SteadyGuest, ScenarioInv, ScenarioTypeOK, GuestType
<1>4. machine' = machine /\ script \in ScriptType
  BY DEF Up, ScenarioInv, ScenarioTypeOK
<1>5. CASE Goes("ready")
  <2>1. /\ script' \in ScriptType /\ script'.no = script.no /\ script'.op = script.op
        /\ script'.ready = script.ready /\ script'.step = "ready"
    BY <1>4, <1>5, Going DEF ScriptSteps
  <2>2. Fresh'
    BY <1>2, <1>4, <2>1, Undisturbed DEF ScenarioInv
  <2> QED BY <1>2, <1>3, <1>4, <2>1, <2>2 DEF Up, ScenarioInv, ScenarioTypeOK, Told, Placed
<1>6. CASE Ends
  BY <1>2, <1>3, <1>4, <1>6, Ending, Undisturbed, Idle DEF ScenarioInv, ScenarioTypeOK, Told
<1> QED BY <1>1, <1>5, <1>6

LEMMA RestartKeeps == ASSUME ScenarioInv, Restart PROVE ScenarioInv'
<1>1. machine' = machine /\ script \in ScriptType
  BY DEF Restart, ScenarioInv, ScenarioTypeOK
<1>2. /\ guest' \in GuestType /\ guest'.work = guest.work /\ guest'.binary = guest.binary
      /\ guest'.runs = guest.runs
  <2>1. guest \in GuestType
    BY DEF ScenarioInv, ScenarioTypeOK
  <2>2. CASE guest' = [guest EXCEPT !.agent = "booting", !.answers = 0]
    <3>1. guest' = [agent |-> "booting", answers |-> 0, restless |-> guest.restless,
                    binary |-> guest.binary, runs |-> guest.runs, work |-> guest.work]
      BY <2>1, <2>2 DEF GuestType
    <3> QED BY <2>1, <3>1 DEF GuestType
  <2>3. CASE guest' = guest
    BY <2>1, <2>3
  <2> QED BY <2>2, <2>3 DEF Restart
<1>3. CASE script' = [script EXCEPT !.step = "ready", !.ready = FALSE, !.late = FALSE]
  <2>1. /\ script' \in ScriptType /\ script'.no = script.no /\ script'.op = script.op
        /\ script'.ready = FALSE /\ script'.step = "ready"
    BY <1>1, <1>3 DEF ScriptType, ScriptSteps
  <2>2. Fresh'
    BY <1>1, <1>2, <2>1, Undisturbed DEF ScenarioInv
  <2> QED BY <1>1, <1>2, <2>1, <2>2 DEF Restart, ScenarioInv, ScenarioTypeOK, Told, Placed
<1>4. CASE Returns(FALSE)
  BY <1>1, <1>2, <1>4, Returning, Undisturbed, Idle DEF ScenarioInv, ScenarioTypeOK
<1> QED BY <1>3, <1>4 DEF Restart

LEMMA ReadyKeeps == ASSUME ScenarioInv, Ready PROVE ScenarioInv'
<1>1. guest' = guest /\ machine' = machine /\ script \in ScriptType /\ guest \in GuestType
  BY DEF Ready, ScenarioInv, ScenarioTypeOK
<1>2. CASE Ends
  BY <1>1, <1>2, Ending, Undisturbed, Idle DEF ScenarioInv, ScenarioTypeOK, Told
<1>3. CASE Goes("steady")
  <2>1. /\ script' \in ScriptType /\ script'.no = script.no /\ script'.op = script.op
        /\ script'.ready = script.ready /\ script'.step = "steady" /\ script'.streak = 0
    BY <1>1, <1>3, Going DEF ScriptSteps
  <2>2. Fresh' /\ guest.answers >= 0
    BY <1>1, <2>1, Undisturbed DEF ScenarioInv, GuestType
  <2> QED BY <1>1, <2>1, <2>2 DEF Ready, ScenarioInv, ScenarioTypeOK, Told, Placed
<1> QED BY <1>2, <1>3 DEF Ready

\* Three answers in a row are more than an agent gives that is still to
\* restart.
LEMMA SteadyKeeps == ASSUME ScenarioInv, Steady PROVE ScenarioInv'
<1>1. /\ script \in ScriptType /\ guest \in GuestType /\ script.step = "steady"
      /\ script.streak \in 0 .. 2 /\ guest.answers \in 0 .. 2
      /\ guest.answers >= script.streak
  BY DEF Steady, ScenarioInv, ScenarioTypeOK, Told, ScriptType, GuestType
<1>2. CASE /\ Answered(guest) /\ script.streak + 1 = Streak /\ Returns(TRUE)
           /\ machine' = IF script.op = "machine" THEN [prepared |-> FALSE, counter |-> 0]
                         ELSE machine
  <2>1. SteadyGuest(guest') /\ guest' \in GuestType /\ guest'.work = guest.work
        /\ guest'.binary = guest.binary /\ guest'.runs = guest.runs
    BY <1>1, <1>2, Answering DEF Streak, SteadyGuest
  <2>2. script' \in ScriptType /\ script'.no = script.no /\ script'.step = "idle"
    BY <1>1, <1>2, Returning
  <2>3. CASE script.op = "machine"
    <3>1. machine = << >> /\ machine' = [prepared |-> FALSE, counter |-> 0]
      BY <1>1, <1>2, <2>3 DEF ScenarioInv, Placed
    <3>2. machine' \in MachineType /\ machine' # << >> /\ script'.no >= 0
      BY <2>2, <3>1 DEF MachineType, ScriptType
    <3>3. Fresh'
      BY <2>1, <2>2, <3>1, <3>2 DEF ScenarioInv, Fresh
    <3> QED BY <2>1, <2>2, <3>2, <3>3, Idle
  <2>4. CASE script.op # "machine"
    BY <1>2, <2>1, <2>2, <2>4, Undisturbed, Idle DEF ScenarioInv, ScenarioTypeOK
  <2> QED BY <2>3, <2>4
<1>3. ASSUME NEW streak \in {0, script.streak + 1}, machine' = machine,
             IF streak = 0 THEN Unanswered(guest) ELSE streak < Streak /\ Answered(guest),
             IF script.late THEN Ends ELSE script' = [script EXCEPT !.streak = streak]
      PROVE  ScenarioInv'
  <2>0. Answered(guest) \/ Unanswered(guest)
    BY <1>3
  <2>1. /\ guest' \in GuestType /\ guest'.work = guest.work /\ guest'.binary = guest.binary
        /\ guest'.runs = guest.runs /\ (SteadyGuest(guest) => SteadyGuest(guest'))
        /\ machine' = machine
    BY <1>1, <1>3, <2>0, AgentKeeps
  <2>2. CASE script.late
    <3>1. Ends
      BY <1>3, <2>2
    <3> QED BY <1>1, <2>1, <3>1, Ending, Undisturbed, Idle DEF ScenarioInv, ScenarioTypeOK, Told
  <2>3. CASE ~script.late
    <3>1. streak \in 0 .. 2
      BY <1>1, <1>3 DEF Streak
    <3>2. /\ script' \in ScriptType /\ script'.no = script.no /\ script'.op = script.op
          /\ script'.ready = script.ready /\ script'.step = "steady"
          /\ script'.streak = streak
      BY <1>1, <1>3, <2>3, <3>1 DEF ScriptType
    <3>3. guest'.answers >= streak
      <4>1. CASE streak = 0
        BY <2>1, <4>1 DEF GuestType
      <4>2. CASE streak # 0
        BY <1>1, <1>3, <3>1, <4>2, Answering
      <4> QED BY <4>1, <4>2
    <3>4. Fresh'
      BY <2>1, <3>2, Undisturbed DEF ScenarioInv
    <3> QED
      BY <1>1, <2>1, <3>2, <3>3, <3>4 DEF ScenarioInv, ScenarioTypeOK, Told, Placed
  <2> QED BY <2>2, <2>3
<1> QED BY <1>2, <1>3 DEF Steady

LEMMA DeadlineKeeps == ASSUME ScenarioInv, DeadlinePasses PROVE ScenarioInv'
<1>1. /\ script' \in ScriptType /\ script'.no = script.no /\ script'.op = script.op
      /\ script'.ready = script.ready /\ script'.step = script.step
      /\ script'.streak = script.streak
  BY DEF DeadlinePasses, ScenarioInv, ScenarioTypeOK, ScriptType
<1>2. guest' = guest /\ machine' = machine
  BY DEF DeadlinePasses
<1> QED BY <1>1, <1>2 DEF ScenarioInv, ScenarioTypeOK, Told, Fresh, Placed, SteadyGuest
LEMMA CallKeeps == ASSUME ScenarioInv, Call PROVE ScenarioInv'
<1>1. PICK op \in IF machine = << >> THEN {"machine"} ELSE ScenarioOps :
        script' = [script EXCEPT !.no = @ + 1, !.op = op, !.step =
                    CASE op = "machine" -> IF machine = << >> THEN "up" ELSE "idle"
                      [] op = "exec" -> "exec"
                      [] op = "powershell" -> "work"
                      [] op = "reboot" -> "restart"
                      [] op = "wait_ready" -> "ready"
                      [] op = "run" -> IF machine.prepared THEN "work" ELSE "copy"]
  BY DEF Call
<1>2. /\ guest' = guest /\ machine' = machine /\ guest \in GuestType /\ script \in ScriptType
      /\ script.step = "idle" /\ script.no < MaxScenarioCalls
      /\ (machine = << >> \/ machine \in MachineType) /\ Fresh
  BY DEF Call, ScenarioInv, ScenarioTypeOK
<1>3. PICK step \in ScriptSteps :
        /\ script' = [no |-> script.no + 1, op |-> op, step |-> step, streak |-> script.streak,
                      late |-> script.late, ready |-> script.ready]
        /\ op = "machine" => step \in {"up", "idle"} /\ (step = "up" => machine = << >>)
        /\ op = "exec" => step = "exec"
        /\ op = "powershell" => step = "work"
        /\ op = "reboot" => step = "restart"
        /\ op = "wait_ready" => step = "ready"
        /\ op = "run" => step = IF machine.prepared THEN "work" ELSE "copy"
  BY <1>1, <1>2 DEF ScriptType, ScriptSteps, ScenarioOps
<1>4. op \in ScenarioOps /\ (op # "machine" => machine # << >>)
  BY <1>1 DEF ScenarioOps
<1>5. /\ script.no + 1 \in 0 .. MaxScenarioCalls /\ script.no \in Nat
      /\ script.streak \in 0 .. 2 /\ script.late \in BOOLEAN /\ script.ready \in BOOLEAN
  BY <1>2, ScenarioAssumption DEF ScriptType
<1>6. script' \in ScriptType
  BY <1>3, <1>4, <1>5 DEF ScriptType
<1>7. machine # << >> => machine \in MachineType /\ machine.counter < script'.no
  BY <1>2, <1>3, <1>5 DEF Fresh, MachineType
<1>8. Fresh'
  BY <1>2, <1>3, <1>5 DEF ScenarioInv, Fresh, MachineType
<1>9. Placed'
  BY <1>2, <1>3, <1>4, <1>7 DEF Placed, ScenarioOps
<1>10. Told'
  BY <1>2, <1>3, <1>4 DEF ScenarioInv, Told, ScenarioOps
<1> QED BY <1>2, <1>6, <1>8, <1>9, <1>10 DEF ScenarioInv, ScenarioTypeOK

LEMMA ExecKeeps == ASSUME ScenarioInv, Exec PROVE ScenarioInv'
<1>1. /\ guest \in GuestType /\ script \in ScriptType /\ machine' = machine
      /\ Answered(guest) \/ Unanswered(guest)
      /\ Goes("cleanup") \/ Ends
  BY DEF Exec, ScenarioInv, ScenarioTypeOK
<1>2. /\ guest' \in GuestType /\ guest'.work = guest.work /\ guest'.binary = guest.binary
      /\ guest'.runs = guest.runs /\ (SteadyGuest(guest) => SteadyGuest(guest'))
  BY <1>1, AgentKeeps
<1>3. CASE Goes("cleanup")
  <2>1. /\ script' \in ScriptType /\ script'.no = script.no /\ script'.op = script.op
        /\ script'.ready = script.ready /\ script'.step = "cleanup"
    BY <1>1, <1>3, Going DEF ScriptSteps
  <2>2. Fresh'
    BY <1>1, <1>2, <2>1, Undisturbed DEF ScenarioInv
  <2> QED BY <1>1, <1>2, <2>1, <2>2 DEF ScenarioInv, ScenarioTypeOK, Told, Placed
<1>4. CASE Ends
  BY <1>1, <1>2, <1>4, Ending, Undisturbed, Idle DEF ScenarioInv, ScenarioTypeOK, Told
<1> QED BY <1>1, <1>3, <1>4

\* The guest with another binary, or with other contents of its directories.
LEMMA OtherBinary ==
  ASSUME guest \in GuestType, NEW binary \in {"none", "partial", "whole"}
  PROVE  LET g == [guest EXCEPT !.binary = binary]
         IN /\ g \in GuestType /\ g.work = guest.work /\ g.runs = guest.runs
            /\ (SteadyGuest(guest) => SteadyGuest(g))
BY DEF GuestType, SteadyGuest

LEMMA OtherWork ==
  ASSUME guest \in GuestType, NEW work \in [ScenarioCalls -> SUBSET Nat],
         NEW g, g = [guest EXCEPT !.work = work]
  PROVE  /\ g \in GuestType /\ g.work = work /\ g.binary = guest.binary /\ g.runs = guest.runs
         /\ (SteadyGuest(guest) => SteadyGuest(g))
BY DEF GuestType, SteadyGuest

LEMMA CopyKeeps == ASSUME ScenarioInv, CopyBinary PROVE ScenarioInv'
<1>1. /\ guest \in GuestType /\ script \in ScriptType /\ machine' = machine
      /\ machine \in MachineType /\ machine.counter < script.no
      /\ script.op = "run" /\ ~machine.prepared
  BY DEF CopyBinary, ScenarioInv, ScenarioTypeOK, Placed
<1>2. PICK binary \in {"none", "partial", "whole"} :
        /\ \/ Answered([guest EXCEPT !.binary = binary])
           \/ Unanswered([guest EXCEPT !.binary = binary])
        /\ Goes("smoke") \/ Ends
  BY <1>1 DEF CopyBinary, GuestType
<1>3. /\ guest' \in GuestType /\ guest'.work = guest.work
      /\ (SteadyGuest(guest) => SteadyGuest(guest'))
  BY <1>1, <1>2, OtherBinary, AgentKeeps
<1>4. script'.no = script.no => Fresh'
  BY <1>1, <1>3 DEF ScenarioInv, Fresh
<1>5. CASE Goes("smoke")
  <2>1. /\ script' \in ScriptType /\ script'.no = script.no /\ script'.op = script.op
        /\ script'.ready = script.ready /\ script'.step = "smoke"
    BY <1>1, <1>5, Going DEF ScriptSteps
  <2> QED BY <1>1, <1>3, <1>4, <2>1 DEF ScenarioInv, ScenarioTypeOK, Told, Placed
<1>6. CASE Ends
  BY <1>1, <1>3, <1>4, <1>6, Ending, Idle DEF ScenarioInv, ScenarioTypeOK, Told
<1> QED BY <1>2, <1>5, <1>6

LEMMA SmokeKeeps == ASSUME ScenarioInv, Smoke PROVE ScenarioInv'
<1>1. /\ guest \in GuestType /\ script \in ScriptType
      /\ Answered(guest) \/ Unanswered(guest)
      /\ machine \in MachineType /\ machine.counter < script.no /\ script.op = "run"
  BY DEF Smoke, ScenarioInv, ScenarioTypeOK, Placed
<1>2. /\ guest' \in GuestType /\ guest'.work = guest.work /\ guest'.binary = guest.binary
      /\ guest'.runs = guest.runs /\ (SteadyGuest(guest) => SteadyGuest(guest'))
  BY <1>1, AgentKeeps
<1>3. CASE Smoked /\ machine' = [machine EXCEPT !.prepared = TRUE] /\ Goes("work")
  <2>1. /\ script' \in ScriptType /\ script'.no = script.no /\ script'.op = script.op
        /\ script'.ready = script.ready /\ script'.step = "work"
    BY <1>1, <1>3, Going DEF ScriptSteps
  <2>2. machine' \in MachineType /\ machine'.counter = machine.counter /\ machine'.prepared
    BY <1>1, <1>3 DEF MachineType
  <2>3. machine # << >> /\ machine' # << >>
    BY <1>1, <2>2 DEF MachineType
  <2>4. Fresh'
    BY <1>1, <1>2, <1>3, <2>1, <2>2, <2>3 DEF ScenarioInv, Fresh, Smoked
  <2> QED BY <1>1, <1>2, <2>1, <2>2, <2>4 DEF ScenarioInv, ScenarioTypeOK, Told, Placed
<1>4. CASE machine' = machine /\ Ends
  BY <1>1, <1>2, <1>4, Ending, Undisturbed, Idle DEF ScenarioInv, ScenarioTypeOK, Told
<1> QED BY <1>3, <1>4 DEF Smoke
LEMMA WorkKeeps == ASSUME ScenarioInv, Work PROVE ScenarioInv'
<1>1. /\ guest \in GuestType /\ script \in ScriptType /\ machine \in MachineType
      /\ machine.counter \in Nat /\ script.no \in 0 .. MaxScenarioCalls
      /\ machine.counter < script.no
      /\ script.op \in {"run", "powershell"} /\ (script.op = "run" => machine.prepared)
  BY DEF Work, ScenarioInv, ScenarioTypeOK, Placed, MachineType, ScriptType
<1>2. machine # << >>
  BY <1>1 DEF MachineType
<1>3. CASE /\ machine' = Bump(machine)
           /\ \/ Answered(guest) /\ Goes("stage")
              \/ (Answered(guest) \/ Unanswered(guest)) /\ Ends
  <2>1. /\ machine' \in MachineType /\ machine' # << >>
        /\ machine'.counter = machine.counter + 1 /\ machine'.prepared = machine.prepared
    BY <1>1, <1>3 DEF Bump, MachineType
  <2>2. Answered(guest) \/ Unanswered(guest)
    BY <1>3
  <2>3. /\ guest' \in GuestType /\ guest'.work = guest.work /\ guest'.binary = guest.binary
        /\ guest'.runs = guest.runs /\ (SteadyGuest(guest) => SteadyGuest(guest'))
    BY <1>1, <2>2, AgentKeeps
  <2>4. /\ machine'.counter \in ScenarioCalls /\ machine'.counter <= script.no
        /\ guest.work[machine'.counter] = {}
    BY <1>1, <1>2, <2>1, ScenarioAssumption DEF ScenarioCalls, ScenarioInv, Fresh
  <2>5. script'.no = script.no => Fresh'
    BY <1>1, <2>1, <2>3, <2>4 DEF ScenarioInv, Fresh, ScenarioCalls
  <2>6. CASE Goes("stage")
    <3>1. /\ script' \in ScriptType /\ script'.no = script.no /\ script'.op = script.op
          /\ script'.ready = script.ready /\ script'.step = "stage"
      BY <1>1, <2>6, Going DEF ScriptSteps
    <3> QED
      BY <1>1, <2>1, <2>3, <2>4, <2>5, <3>1 DEF ScenarioInv, ScenarioTypeOK, Told, Placed
  <2>7. CASE Ends
    BY <1>1, <2>1, <2>3, <2>5, <2>7, Ending, Idle DEF ScenarioInv, ScenarioTypeOK, Told
  <2> QED BY <1>3, <2>6, <2>7
<1>4. CASE Ends /\ UNCHANGED << guest, machine >>
  BY <1>1, <1>4, Ending, Undisturbed, Idle DEF ScenarioInv, ScenarioTypeOK, Told
<1> QED BY <1>3, <1>4 DEF Work

\* The directory is empty when the call's own files come, and whole or in
\* part they are all that comes.
LEMMA StageKeeps == ASSUME ScenarioInv, Stage PROVE ScenarioInv'
<1>1. /\ guest \in GuestType /\ script \in ScriptType /\ machine' = machine
      /\ machine \in MachineType /\ Directory \in ScenarioCalls /\ script.no \in Nat
      /\ script.op \in {"run", "powershell"} /\ (script.op = "run" => machine.prepared)
      /\ guest.work[Directory] = {}
  <2>1. script \in ScriptType /\ script.step = "stage" /\ Placed
    BY DEF Stage, ScenarioInv, ScenarioTypeOK
  <2>2. script.no \in Nat
    BY <2>1, ScenarioAssumption DEF ScriptType
  <2> QED BY <2>1, <2>2 DEF Stage, ScenarioInv, ScenarioTypeOK, Placed, Directory
<1>2. /\ machine # << >> /\ machine.counter \in Nat /\ Directory = machine.counter
  <2>1. machine # << >>
    BY <1>1 DEF MachineType
  <2>2. machine.counter \in Nat
    BY <1>1 DEF MachineType
  <2> QED BY <2>1, <2>2 DEF Directory
<1>3. /\ Staged(guest) = [guest EXCEPT !.work = [guest.work EXCEPT ![Directory] = {script.no}]]
      /\ [guest.work EXCEPT ![Directory] = {script.no}] \in [ScenarioCalls -> SUBSET Nat]
  <2>1. guest.work[Directory] \cup {script.no} = {script.no}
    BY <1>1
  <2>2. Staged(guest) =
          [guest EXCEPT !.work = [guest.work EXCEPT ![Directory] =
                                    guest.work[Directory] \cup {script.no}]]
    BY DEF Staged
  <2>3. [guest.work EXCEPT ![Directory] = {script.no}] \in [ScenarioCalls -> SUBSET Nat]
    BY <1>1 DEF GuestType
  <2> QED BY <2>1, <2>2, <2>3
<1>4. /\ Staged(guest) \in GuestType
      /\ Staged(guest).work = [guest.work EXCEPT ![Directory] = {script.no}]
      /\ Staged(guest).binary = guest.binary /\ Staged(guest).runs = guest.runs
      /\ (SteadyGuest(guest) => SteadyGuest(Staged(guest)))
  BY <1>1, <1>3, OtherWork
<1>5. PICK g \in {guest, Staged(guest)} :
        /\ Answered(g) \/ Unanswered(g)
        /\ \/ Goes("cleanup") \/ Ends
           \/ g = Staged(guest) /\ Goes(IF script.op = "powershell" THEN "exec" ELSE "apply")
  BY DEF Stage, StageFails
<1>6. /\ guest' \in GuestType /\ guest'.binary = guest.binary /\ guest'.runs = guest.runs
      /\ guest'.work = g.work /\ (SteadyGuest(guest) => SteadyGuest(guest'))
  BY <1>1, <1>4, <1>5, AgentKeeps
<1>7. \A n \in ScenarioCalls : n # Directory => guest'.work[n] = guest.work[n]
  BY <1>1, <1>4, <1>5, <1>6 DEF GuestType
<1>8. script'.no = script.no => Fresh'
  BY <1>1, <1>2, <1>6, <1>7 DEF ScenarioInv, Fresh, ScenarioCalls
<1>9. CASE Goes("cleanup")
  <2>1. /\ script' \in ScriptType /\ script'.no = script.no /\ script'.op = script.op
        /\ script'.ready = script.ready /\ script'.step = "cleanup"
    BY <1>1, <1>9, Going DEF ScriptSteps
  <2> QED BY <1>1, <1>6, <1>8, <2>1 DEF ScenarioInv, ScenarioTypeOK, Told, Placed
<1>10. CASE Ends
  BY <1>1, <1>6, <1>8, <1>10, Ending, Idle DEF ScenarioInv, ScenarioTypeOK, Told
<1>11. CASE g = Staged(guest) /\ script.op = "powershell" /\ Goes("exec")
  <2>1. /\ script' \in ScriptType /\ script'.no = script.no /\ script'.op = script.op
        /\ script'.ready = script.ready /\ script'.step = "exec"
    BY <1>1, <1>11, Going DEF ScriptSteps
  <2> QED BY <1>1, <1>6, <1>8, <2>1 DEF ScenarioInv, ScenarioTypeOK, Told, Placed
<1>12. CASE g = Staged(guest) /\ script.op = "run" /\ Goes("apply")
  <2>1. /\ script' \in ScriptType /\ script'.no = script.no /\ script'.op = script.op
        /\ script'.ready = script.ready /\ script'.step = "apply"
    BY <1>1, <1>12, Going DEF ScriptSteps
  <2>2. guest'.work[machine.counter] = {script.no}
    BY <1>1, <1>2, <1>4, <1>6, <1>12 DEF GuestType
  <2> QED
    BY <1>1, <1>2, <1>6, <1>8, <1>12, <2>1, <2>2 DEF ScenarioInv, ScenarioTypeOK, Told, Placed
<1> QED BY <1>1, <1>5, <1>9, <1>10, <1>11, <1>12

LEMMA ApplyKeeps == ASSUME ScenarioInv, Apply PROVE ScenarioInv'
<1>1. /\ guest \in GuestType /\ script \in ScriptType /\ machine' = machine /\ Ends
      /\ Answered(guest) \/ Unanswered(guest)
  BY DEF Apply, ScenarioInv, ScenarioTypeOK
<1>2. /\ guest' \in GuestType /\ guest'.work = guest.work /\ guest'.binary = guest.binary
      /\ guest'.runs = guest.runs /\ (SteadyGuest(guest) => SteadyGuest(guest'))
  BY <1>1, AgentKeeps
<1> QED BY <1>1, <1>2, Ending, Undisturbed, Idle DEF ScenarioInv, ScenarioTypeOK, Told

LEMMA CleanUpScriptKeeps == ASSUME ScenarioInv, CleanUpScript PROVE ScenarioInv'
<1>1. /\ guest \in GuestType /\ script \in ScriptType /\ machine' = machine /\ Ends
  BY DEF CleanUpScript, ScenarioInv, ScenarioTypeOK
<1> DEFINE cleaned == [guest EXCEPT !.work[Directory] = @ \ {script.no}]
<1>2. /\ cleaned \in GuestType /\ cleaned.binary = guest.binary /\ cleaned.runs = guest.runs
      /\ \A n \in ScenarioCalls : cleaned.work[n] \in SUBSET guest.work[n]
      /\ (SteadyGuest(guest) => SteadyGuest(cleaned))
  <2>1. cleaned = [guest EXCEPT !.work = [guest.work EXCEPT ![Directory] = @ \ {script.no}]]
    OBVIOUS
  <2>2. /\ [guest.work EXCEPT ![Directory] = @ \ {script.no}] \in [ScenarioCalls -> SUBSET Nat]
        /\ \A n \in ScenarioCalls :
             [guest.work EXCEPT ![Directory] = @ \ {script.no}][n] \in SUBSET guest.work[n]
    BY <1>1 DEF GuestType
  <2> HIDE DEF cleaned
  <2> QED BY <1>1, <2>1, <2>2, OtherWork
<1>3. PICK g \in {guest, cleaned} : Answered(g) \/ Unanswered(g)
  BY DEF CleanUpScript
<1>4. /\ guest' \in GuestType /\ guest'.binary = guest.binary /\ guest'.runs = guest.runs
      /\ \A n \in ScenarioCalls : guest'.work[n] \in SUBSET guest.work[n]
      /\ (SteadyGuest(guest) => SteadyGuest(guest'))
  <2> HIDE DEF cleaned
  <2> QED BY <1>1, <1>2, <1>3, AgentKeeps
<1>5. script'.no = script.no => Fresh'
  BY <1>1, <1>4 DEF ScenarioInv, Fresh
<1> QED BY <1>1, <1>4, <1>5, Ending, Idle DEF ScenarioInv, ScenarioTypeOK, Told

\* What the steps of a scenario keep, for scripts of any length.
LEMMA ScenarioKeeps ==
  /\ HostInit => (script # << >> => ScenarioInv)
  /\ (script # << >> => ScenarioInv) /\ [HostNext]_hostVars => (script # << >> => ScenarioInv)'
<1>1. HostInit => (script # << >> => ScenarioInv)
  BY ScenarioStarts DEF HostInit, ScenarioOff
<1>2. ASSUME script # << >> => ScenarioInv, ScenarioNext
      PROVE  (script # << >> => ScenarioInv)'
  BY <1>2, AgentStartsKeeps, UpKeeps, RestartKeeps, ReadyKeeps, SteadyKeeps, DeadlineKeeps,
     CallKeeps, ExecKeeps, CopyKeeps, SmokeKeeps, WorkKeeps, StageKeeps, ApplyKeeps,
     CleanUpScriptKeeps
  DEF ScenarioNext
<1>3. ASSUME script # << >> => ScenarioInv, UNCHANGED scenarioVars
      PROVE  (script # << >> => ScenarioInv)'
  BY <1>3 DEF scenarioVars, ScenarioInv, ScenarioTypeOK, Told, Fresh, Placed, SteadyGuest
<1> QED BY <1>1, <1>2, <1>3 DEF HostNext, hostVars

\* config-weave is only run where it has been shown to run, and over nothing
\* but the playbook of the call (testlab.rs: prepare, bump and run_config_weave).
THEOREM OwnPlaybook == HostSpec => []RunsItsOwn
<1>1. (script # << >> => ScenarioInv) => RunsItsOwn
  BY DEF RunsItsOwn, ScenarioInv, Fresh, Placed, Directory, MachineType
<1> QED BY <1>1, ScenarioKeeps, PTL DEF HostSpec

\* A machine the script was told is ready has an agent that will not restart
\* any more (guest.rs: await_steady_agent).
THEOREM TrulySteady == HostSpec => []ReadyIsSteady
<1>1. (script # << >> => ScenarioInv) => ReadyIsSteady
  BY DEF ReadyIsSteady, Unsteady, ScenarioInv, ScenarioTypeOK, Told, SteadyGuest, GuestType
<1> QED BY <1>1, ScenarioKeeps, PTL DEF HostSpec

-----------------------------------------------------------------------------
(* ------------------------------------------------------------ services *)

\* Of chains of any length, in any states to begin with.

SCMType == [state : [Services -> States], locked : BOOLEAN, touched : SUBSET Services]

\* A call that has not looked yet, and one that has.
BegunType ==
  [phase : {"begin"}, op : {"start", "stop", "stop_with", "restart"}, dependents : BOOLEAN]

TreeType ==
  [phase : {"observe", "act", "ok", "error"},
   step : {"dependents", "name", "restore", "start", "again"},
   op : {"start", "stop", "stop_with", "restart"}, dependents : BOOLEAN,
   snapshot : [Services -> States], todo : SUBSET Services, stopped : SUBSET Services,
   named : SUBSET Services, acted : BOOLEAN, pending : BOOLEAN,
   action : {"", "start", "continue", "stop"}]

ServiceTypeOK ==
  /\ scm \in SCMType /\ tree \in BegunType \cup TreeType
  /\ tree.op = "start" => ~tree.dependents

\* What a step has to do is the name, or some of those that were up.
Agenda ==
  /\ IF tree.step \in {"name", "start"} THEN tree.todo = {Name} ELSE tree.todo \subseteq WasUp
  /\ tree.stopped \subseteq WasUp
  /\ Underway => tree.todo # {}
  /\ tree.phase = "act" => tree.action # "" /\ (tree.action = "stop" <=> Target = "stopped")

\* Every dependent that was up is still to be stopped or has been.
Remembered ==
  tree.dependents =>
    /\ tree.step = "dependents" /\ Underway => WasUp \subseteq tree.todo \cup tree.stopped
    /\ tree.step \in {"name", "start"} => WasUp \subseteq tree.stopped

\* Of those that were up and nobody else touched: while the call stops
\* services, one is down that the call has stopped or is stopping; then one
\* that it has yet to start, or names; a restart ends with all of them up.
Accounted ==
  \A s \in WasUp \ scm.touched :
    /\ Underway /\ Target = "stopped" =>
         scm.state[s] # "stopped" \/ s \in tree.stopped \/ s = Current
    /\ Underway /\ tree.step = "restore" =>
         scm.state[s] # "stopped" \/ s \in tree.todo \/ s \in tree.named
    /\ Underway /\ tree.step = "again" /\ tree.dependents =>
         scm.state[s] = "running" \/ s \in tree.todo
    /\ tree.phase = "ok" /\ tree.op = "restart" /\ tree.dependents => scm.state[s] = "running"

\* A restart starts the name first.
NameUp ==
  (Underway /\ tree.step = "again") \/ (tree.phase = "ok" /\ tree.op = "restart") =>
    Name \in scm.touched \/ scm.state[Name] = "running"

\* A dependent that was stopped is started only as what another one needs.
StaysStopped ==
  \A s \in Services \ (WasUp \cup scm.touched \cup {Name}) :
    scm.state[s] = "stopped" \/ Dependents(s) \cap (WasUp \cup scm.touched) # {}

TreeInv == Agenda /\ Remembered /\ Accounted /\ NameUp /\ StaysStopped /\ NoneLeftStopped

ServiceInv == ServiceTypeOK /\ (tree.phase # "begin" => TreeInv)

LEMMA ChainIs ==
  /\ Name \in Services /\ Name = Chain[1] /\ DOMAIN Chain = 1 .. Len(Chain) /\ Len(Chain) \in Nat
  /\ \A s \in Services : \E i \in 1 .. Len(Chain) : s = Chain[i]
  /\ \A i, j \in 1 .. Len(Chain) : Chain[i] = Chain[j] => i = j
<1>1. /\ Chain \in Seq(Range(Chain)) /\ Chain # << >>
      /\ \A i, j \in DOMAIN Chain : Chain[i] = Chain[j] => i = j
  BY ServiceAssumption DEF IsInjective
<1>2. Len(Chain) \in Nat /\ Len(Chain) # 0 /\ DOMAIN Chain = 1 .. Len(Chain)
  BY <1>1
<1>3. 1 \in DOMAIN Chain /\ Head(Chain) = Chain[1]
  BY <1>1, <1>2
<1> QED BY <1>1, <1>2, <1>3 DEF Name, Services, Range

\* The name depends on nothing of the chain.
LEMMA NameFirst == ASSUME NEW s PROVE Name \notin Dependents(s)
<1> SUFFICES ASSUME Name \in Dependents(s) PROVE FALSE
  OBVIOUS
<1>1. PICK j \in 1 .. Len(Chain) : Name = Chain[j] /\ \E i \in 1 .. j - 1 : Chain[i] = s
  BY ChainIs DEF Dependents
<1>2. 1 \in 1 .. Len(Chain)
  BY <1>1, ChainIs
<1>3. j = 1
  BY <1>1, <1>2, ChainIs
<1> QED BY <1>1, <1>3

\* Of any services one comes first, and one last.
LEMMA EndOf ==
  ASSUME NEW T \in SUBSET Services, T # {}
  PROVE  /\ \E s \in T : Dependencies(s) \cap T = {}
         /\ \E s \in T : Dependents(s) \cap T = {}
<1> DEFINE Ranks == {i \in 1 .. Len(Chain) : Chain[i] \in T}
           FromEnd == {Len(Chain) - i : i \in Ranks}
<1>1. Ranks # {} /\ Ranks \subseteq Nat /\ FromEnd # {} /\ FromEnd \subseteq Nat
  <2>1. PICK s \in T : s \in Services
    OBVIOUS
  <2>2. PICK i \in 1 .. Len(Chain) : s = Chain[i]
    BY <2>1, ChainIs
  <2>3. i \in Ranks
    BY <2>1, <2>2
  <2>4. \A k \in Ranks : k \in Nat /\ Len(Chain) - k \in Nat
    BY ChainIs
  <2> QED BY <2>3, <2>4
<1>2. ASSUME NEW S, S # {}, S \subseteq Nat
      PROVE  \E n \in S : \A m \in S : ~(m < n)
  <2>1. PICK n \in S : \A m \in S : ~(<<m, n>> \in OpToRel(<, Nat))
    BY <1>2, NatLessThanWellFounded, WFMin, Zenon
  <2> QED BY <1>2, <2>1 DEF OpToRel
<1>3. PICK i \in Ranks : \A k \in Ranks : ~(k < i)
  <2> HIDE DEF Ranks, FromEnd
  <2> QED BY <1>1, <1>2
<1>4. PICK j \in Ranks : \A k \in Ranks : ~(k > j)
  <2>1. PICK l \in FromEnd : \A m \in FromEnd : ~(m < l)
    <3> HIDE DEF Ranks, FromEnd
    <3> QED BY <1>1, <1>2
  <2>2. PICK j \in Ranks : l = Len(Chain) - j
    OBVIOUS
  <2>3. \A k \in Ranks : Len(Chain) - k \in FromEnd
    OBVIOUS
  <2>4. Len(Chain) \in Nat /\ \A k \in Ranks : k \in Nat
    BY ChainIs
  <2>5. ASSUME NEW k \in Ranks PROVE ~(k > j)
    <3> HIDE DEF Ranks, FromEnd
    <3>1. ~(Len(Chain) - k < Len(Chain) - j)
      BY <2>1, <2>2, <2>3
    <3> QED BY <2>4, <3>1
  <2> QED BY <2>5
<1>5. Dependencies(Chain[i]) \cap T = {}
  <2> SUFFICES ASSUME NEW t \in T, t \in Dependencies(Chain[i]) PROVE FALSE
    OBVIOUS
  <2>1. PICK k \in 1 .. Len(Chain) :
          Chain[i] = Chain[k] /\ \E m \in 1 .. k - 1 : Chain[m] = t
    BY ChainIs DEF Dependencies, Dependents
  <2>2. k = i
    BY <2>1, ChainIs
  <2>3. PICK m \in 1 .. i - 1 : Chain[m] = t
    BY <2>1, <2>2
  <2>4. m \in Ranks /\ m < i
    BY <2>3, ChainIs
  <2> QED BY <1>3, <2>4
<1>6. Dependents(Chain[j]) \cap T = {}
  <2> SUFFICES ASSUME NEW t \in T, t \in Dependents(Chain[j]) PROVE FALSE
    OBVIOUS
  <2>1. PICK k \in 1 .. Len(Chain) :
          t = Chain[k] /\ \E m \in 1 .. k - 1 : Chain[m] = Chain[j]
    BY ChainIs DEF Dependents
  <2>2. PICK m \in 1 .. k - 1 : Chain[m] = Chain[j]
    BY <2>1
  <2>3. m = j
    BY <2>1, <2>2, ChainIs
  <2>4. k \in Ranks /\ k > j
    BY <2>1, <2>2, <2>3, ChainIs
  <2> QED BY <1>4, <2>4
<1> QED BY <1>5, <1>6

\* The call works on one of those it has left.
LEMMA CurrentIs ==
  ASSUME tree.todo \in SUBSET Services, tree.todo # {}
  PROVE  Current \in tree.todo
BY EndOf DEF Current

LEMMA BeginIs ==
  ASSUME NEW t \in TreeType
  PROVE  /\ Begin(t) \in TreeType /\ Begin(t).phase = "observe"
         /\ Begin(t).step = t.step /\ Begin(t).op = t.op /\ Begin(t).dependents = t.dependents
         /\ Begin(t).snapshot = t.snapshot /\ Begin(t).todo = t.todo
         /\ Begin(t).stopped = t.stopped /\ Begin(t).named = t.named
BY DEF Begin, TreeType

\* An accepted action changes the service it is for and, when it starts it,
\* those it depends on; none of them is at rest afterwards.
LEMMA AcceptedIs ==
  ASSUME scm \in SCMType, NEW s \in Services, NEW action \in {"start", "continue", "stop"},
         Accepted(s, action)
  PROVE  /\ scm' \in SCMType /\ scm'.touched = scm.touched
         /\ \A t \in Services : scm'.state[t] # scm.state[t] =>
              /\ t = s \/ t \in Dependencies(s)
              /\ scm'.state[t] # "stopped"
              /\ action # "stop" => scm.state[t] # "running"
<1>1. CASE action = "start"
  <2> DEFINE state == [t \in Services |->
                         IF t = s \/ (t \in Dependencies(s) /\ scm.state[t] = "stopped")
                         THEN "start_pending" ELSE scm.state[t]]
  <2>1. scm' = [scm EXCEPT !.state = state] /\ scm.state[s] = "stopped"
    BY <1>1 DEF Accepted, Startable
  <2>2. state \in [Services -> States]
    BY DEF SCMType, States
  <2> HIDE DEF state
  <2>3. scm' \in SCMType /\ scm'.touched = scm.touched /\ scm'.state = state
    BY <2>1, <2>2 DEF SCMType
  <2> QED BY <1>1, <2>1, <2>3 DEF state
<1>2. CASE action = "continue"
  BY <1>2 DEF Accepted, SCMType, States
<1>3. CASE action = "stop"
  BY <1>3 DEF Accepted, SCMType, States
<1> QED BY <1>1, <1>2, <1>3

LEMMA ServiceStarts == ASSUME ServiceInit PROVE ServiceInv
<1>1. PICK state \in [Services -> InitialStates], locked \in BOOLEAN :
        scm = [state |-> state, locked |-> locked, touched |-> {}]
  BY DEF ServiceInit
<1>2. PICK call \in ServiceOps :
        tree = [phase |-> "begin", op |-> call.op, dependents |-> call.dependents]
  BY DEF ServiceInit
<1>3. state \in [Services -> States]
  BY <1>1, ServiceAssumption
<1>4. /\ call.op \in {"start", "stop", "stop_with", "restart"} /\ call.dependents \in BOOLEAN
      /\ call.op = "start" => ~call.dependents
  BY <1>2 DEF ServiceOps
<1> QED BY <1>1, <1>2, <1>3, <1>4 DEF ServiceInv, ServiceTypeOK, SCMType, BegunType

\* What else happens to the services: only one that nobody else touched and
\* that the call is at work on comes to a stop.
LEMMA OthersKeep ==
  ASSUME ServiceTypeOK, tree.phase # "begin" => TreeInv, tree' = tree,
         tree.phase \notin {"ok", "error"},
         scm' \in SCMType, scm.touched \subseteq scm'.touched,
         \A s \in Services : s \notin scm'.touched /\ scm'.state[s] # scm.state[s] =>
           /\ scm.state[s] \notin {"stopped", "running"}
           /\ scm'.state[s] = "stopped" => s \in Driven
  PROVE  ServiceInv'
<1> SUFFICES ASSUME tree.phase # "begin" PROVE TreeInv'
  BY DEF ServiceInv, ServiceTypeOK
<1>1. Underway /\ tree.phase \notin {"ok", "error"} /\ tree \in TreeType
  BY DEF Underway, ServiceTypeOK, BegunType, TreeType
<1>2. /\ Underway' /\ Target' = Target /\ Current' = Current /\ Driven = {Current}
      /\ WasUp' = WasUp
  BY <1>1 DEF Underway, Target, Current, Driven, WasUp
<1>3. Agenda' /\ Remembered'
  BY <1>2 DEF TreeInv, Agenda, Remembered, Underway
<1>4. Current \in tree.todo
  BY <1>1, CurrentIs DEF TreeInv, Agenda, TreeType
<1>5. \A s \in Services : s \notin scm'.touched =>
        /\ scm.state[s] = "running" => scm'.state[s] = "running"
        /\ scm.state[s] = "stopped" => scm'.state[s] = "stopped"
        /\ scm.state[s] # "stopped" => scm'.state[s] # "stopped" \/ s = Current
  BY <1>2
<1>6. Accounted'
  BY <1>1, <1>2, <1>4, <1>5 DEF TreeInv, Accounted, WasUp
<1>7. NameUp'
  BY <1>1, <1>2, <1>5, ChainIs DEF TreeInv, NameUp
<1>8. StaysStopped'
  BY <1>2, <1>5 DEF TreeInv, StaysStopped
<1>9. NoneLeftStopped'
  BY <1>1 DEF NoneLeftStopped, ReturnedWith
<1> QED BY <1>3, <1>6, <1>7, <1>8, <1>9 DEF TreeInv

LEMMA SettlesKeeps ==
  ASSUME ServiceInv, tree.phase \notin {"ok", "error"}, NEW s \in Services, Settles(s)
  PROVE  ServiceInv'
<1>1. PICK state \in Settled[scm.state[s]] :
        scm' = [scm EXCEPT !.state[s] = state,
                  !.touched = IF state = "stopped" /\ s \notin Driven THEN @ \cup {s} ELSE @]
  BY DEF Settles
<1>2. /\ scm \in SCMType /\ tree' = tree
      /\ scm.state[s] \in {"start_pending", "stop_pending", "continue_pending", "pause_pending"}
  BY DEF Settles, Settled, ServiceInv, ServiceTypeOK
<1>3. state \in States
  BY <1>1, <1>2 DEF Settled, States
<1>4. /\ scm' \in SCMType /\ scm.touched \subseteq scm'.touched
      /\ scm'.state = [scm.state EXCEPT ![s] = state]
      /\ state = "stopped" /\ s \notin Driven => s \in scm'.touched
  BY <1>1, <1>2, <1>3 DEF SCMType
<1>5. \A t \in Services : t \notin scm'.touched /\ scm'.state[t] # scm.state[t] =>
        /\ scm.state[t] \notin {"stopped", "running"}
        /\ scm'.state[t] = "stopped" => t \in Driven
  BY <1>2, <1>4 DEF SCMType
<1> QED BY <1>2, <1>4, <1>5, OthersKeep DEF ServiceInv

LEMMA InterferesKeeps ==
  ASSUME ServiceInv, tree.phase \notin {"ok", "error"}, NEW s \in Services, Interferes(s)
  PROVE  ServiceInv'
<1>1. PICK state \in {"start_pending", "stop_pending", "stopped"} :
        scm' = [scm EXCEPT !.state[s] = state, !.touched = {s}]
  BY DEF Interferes
<1>2. scm \in SCMType /\ tree' = tree /\ scm.touched = {}
  BY DEF Interferes, ServiceInv, ServiceTypeOK
<1>3. /\ scm' \in SCMType /\ scm.touched \subseteq scm'.touched
      /\ scm'.state = [scm.state EXCEPT ![s] = state] /\ s \in scm'.touched
  BY <1>1, <1>2 DEF SCMType, States
<1>4. \A t \in Services : t \notin scm'.touched => scm'.state[t] = scm.state[t]
  BY <1>2, <1>3 DEF SCMType
<1> QED BY <1>2, <1>3, <1>4, OthersKeep DEF ServiceInv

\* A service is at hand, and where that is where it is to be, it is there.
LEMMA AtHand ==
  ASSUME ServiceInv, Underway
  PROVE  /\ TreeInv /\ scm \in SCMType /\ tree \in TreeType
         /\ Current \in tree.todo /\ Current \in Services /\ Driven = {Current}
         /\ WasUp \subseteq Services /\ Name \notin WasUp
         /\ Converged => scm' = scm /\ scm.state[Current] = Target
<1>1. TreeInv /\ scm \in SCMType /\ tree \in TreeType
  BY DEF ServiceInv, ServiceTypeOK, Underway, BegunType
<1>2. tree.todo \in SUBSET Services /\ tree.todo # {}
  BY <1>1 DEF TreeInv, Agenda, TreeType
<1>3. Current \in tree.todo /\ Current \in Services
  BY <1>2, CurrentIs
<1>4. Converged => scm' = scm /\ scm.state[Current] = Target
  <2>1. \A target, state : Plan(target, state) = "done" => target = state
    BY DEF Plan
  <2> QED BY <2>1 DEF Converged, Planned
<1> QED BY <1>1, <1>3, <1>4 DEF WasUp, Driven, Underway

LEMMA BeginCallKeeps == ASSUME ServiceInv, BeginCall PROVE ServiceInv'
<1>1. /\ scm \in SCMType /\ tree \in BegunType /\ scm' = scm
      /\ scm.state \in [Services -> States] /\ (tree.op = "start" => ~tree.dependents)
  BY DEF BeginCall, ServiceInv, ServiceTypeOK, TreeType, SCMType
<1> DEFINE running == IF tree.dependents THEN Running(scm.state) ELSE {}
           call == [op |-> tree.op, dependents |-> tree.dependents, snapshot |-> scm.state,
                    phase |-> "observe", step |-> "dependents", todo |-> {}, stopped |-> {},
                    named |-> {}, acted |-> FALSE, pending |-> FALSE, action |-> ""]
<1>2. /\ call \in TreeType
      /\ running \in SUBSET Services /\ {Name} \in SUBSET Services
  BY <1>1, ChainIs DEF TreeType, BegunType, Running
<1>3. \/ /\ tree.op = "start"
         /\ tree' = [call EXCEPT !.step = "start", !.todo = {Name}]
      \/ /\ tree.op # "start" /\ running = {}
         /\ tree' = [call EXCEPT !.step = "name", !.todo = {Name}]
      \/ /\ tree.op # "start" /\ running # {}
         /\ tree' = [call EXCEPT !.phase = "error"]
      \/ /\ tree.op # "start" /\ running # {}
         /\ tree' = [call EXCEPT !.todo = running]
  BY DEF BeginCall
<1>4. /\ tree'.op = tree.op /\ tree'.dependents = tree.dependents
      /\ tree'.snapshot = scm.state /\ tree'.stopped = {} /\ tree'.named = {}
      /\ \/ /\ tree.op = "start" /\ tree'.phase = "observe" /\ tree'.step = "start"
            /\ tree'.todo = {Name}
         \/ running = {} /\ tree'.phase = "observe" /\ tree'.step = "name" /\ tree'.todo = {Name}
         \/ tree'.phase = "error" /\ tree'.step = "dependents" /\ tree'.todo = {}
         \/ /\ tree'.phase = "observe" /\ tree'.step = "dependents"
            /\ tree'.todo = running /\ running # {}
  BY <1>3
<1>5. tree' \in TreeType
  <2> HIDE DEF call, running
  <2> QED BY <1>2, <1>3 DEF TreeType
<1>6. /\ WasUp' = {s \in Services \ {Name} : scm.state[s] # "stopped"}
      /\ running = IF tree.dependents THEN WasUp' ELSE {}
  <2> HIDE DEF call
  <2> QED BY <1>4 DEF WasUp, Running
<1> HIDE DEF call, running
<1>7. Agenda' /\ Remembered'
  BY <1>1, <1>4, <1>6 DEF Agenda, Remembered, Underway, ServiceInv, ServiceTypeOK, BegunType
<1>8. Accounted'
  BY <1>1, <1>4, <1>6 DEF Accounted
<1>9. NameUp' /\ StaysStopped' /\ NoneLeftStopped'
  BY <1>1, <1>4, <1>6 DEF NameUp, StaysStopped, NoneLeftStopped, ReturnedWith, Underway
<1> QED BY <1>1, <1>4, <1>5, <1>7, <1>8, <1>9 DEF ServiceInv, ServiceTypeOK, TreeInv

\* The state is read, or looked at again.
LEMMA WatchingKeeps ==
  ASSUME ServiceInv, Underway, Decide \/ Poll
  PROVE  ServiceInv'
<1>1. /\ tree \in TreeType /\ scm' = scm /\ TreeInv /\ scm \in SCMType
  BY AtHand DEF Decide, Poll
<1>2. /\ tree' \in TreeType /\ Underway'
      /\ tree'.step = tree.step /\ tree'.op = tree.op /\ tree'.dependents = tree.dependents
      /\ tree'.snapshot = tree.snapshot /\ tree'.todo = tree.todo
      /\ tree'.stopped = tree.stopped /\ tree'.named = tree.named
      /\ (tree'.phase = "act" =>
            tree'.action # "" /\ (tree'.action = "stop" <=> Target = "stopped"))
  <2>1. CASE Decide
    <3>1. /\ tree' = [tree EXCEPT !.phase = "act", !.action = Planned]
          /\ Planned \notin {"done", "wait"}
      BY <2>1 DEF Decide
    <3>2. /\ Planned \in {"start", "continue", "stop"}
          /\ Planned = "stop" <=> Target = "stopped"
      BY <3>1 DEF Planned, Plan, Target
    <3> QED BY <1>1, <3>1, <3>2 DEF TreeType, Underway
  <2>2. CASE Poll
    <3>1. /\ tree' = [tree EXCEPT !.pending = @ \/ (Planned = "wait" /\ tree.acted)]
          /\ tree.phase = "observe"
      BY <2>2 DEF Poll
    <3>2. (tree.pending \/ (Planned = "wait" /\ tree.acted)) \in BOOLEAN
      OBVIOUS
    <3> QED BY <1>1, <3>1, <3>2 DEF TreeType, Underway
  <2> QED BY <2>1, <2>2
<1>3. WasUp' = WasUp /\ Target' = Target /\ Current' = Current
  BY <1>2 DEF WasUp, Target, Current
<1>4. tree'.phase \notin {"ok", "error"} /\ tree.phase \notin {"ok", "error"}
  BY <1>2 DEF Underway
<1>5. Agenda' /\ Remembered'
  BY <1>1, <1>2, <1>3 DEF TreeInv, Agenda, Remembered
<1>6. Accounted' /\ NameUp' /\ StaysStopped' /\ NoneLeftStopped'
  BY <1>1, <1>2, <1>3, <1>4
  DEF TreeInv, Accounted, NameUp, StaysStopped, NoneLeftStopped, ReturnedWith
<1> QED BY <1>1, <1>2, <1>5, <1>6 DEF ServiceInv, ServiceTypeOK, TreeInv

LEMMA ActKeeps == ASSUME ServiceInv, Act PROVE ServiceInv'
<1>1. Underway /\ tree.phase = "act"
  BY DEF Act, Underway
<1>2. /\ TreeInv /\ scm \in SCMType /\ tree \in TreeType
      /\ Current \in tree.todo /\ Current \in Services
      /\ WasUp \subseteq Services /\ Name \notin WasUp
  BY <1>1, AtHand
<1>3. /\ tree.action \in {"start", "continue", "stop"}
      /\ (tree.action = "stop" <=> Target = "stopped")
  BY <1>1, <1>2 DEF TreeInv, Agenda, TreeType
<1>4. /\ scm' \in SCMType /\ scm'.touched = scm.touched
      /\ \A t \in Services : scm'.state[t] # scm.state[t] =>
           /\ t = Current \/ t \in Dependencies(Current)
           /\ scm'.state[t] # "stopped"
           /\ tree.action # "stop" => scm.state[t] # "running"
  BY <1>2, <1>3, AcceptedIs DEF Act
<1>5. /\ tree' \in TreeType /\ tree'.phase = "observe"
      /\ tree'.step = tree.step /\ tree'.op = tree.op /\ tree'.dependents = tree.dependents
      /\ tree'.snapshot = tree.snapshot /\ tree'.todo = tree.todo
      /\ tree'.stopped = tree.stopped /\ tree'.named = tree.named
  BY <1>2 DEF Act, TreeType
<1>6. WasUp' = WasUp /\ Target' = Target /\ Current' = Current /\ Underway'
  BY <1>5 DEF WasUp, Target, Current, Underway
<1>7. Agenda' /\ Remembered'
  BY <1>1, <1>2, <1>5, <1>6 DEF TreeInv, Agenda, Remembered
<1>8. Accounted'
  BY <1>1, <1>2, <1>3, <1>4, <1>5, <1>6 DEF TreeInv, Accounted, Target
<1>9. NameUp'
  BY <1>1, <1>2, <1>3, <1>4, <1>5, <1>6, ChainIs DEF TreeInv, NameUp, Target
<1>10. StaysStopped'
  <2> SUFFICES ASSUME NEW s \in Services \ (WasUp \cup scm.touched \cup {Name}),
                      scm'.state[s] # "stopped"
               PROVE  Dependents(s) \cap (WasUp \cup scm.touched) # {}
    BY <1>4, <1>6 DEF StaysStopped
  <2>1. CASE scm'.state[s] = scm.state[s]
    BY <1>2, <2>1 DEF TreeInv, StaysStopped
  <2>2. CASE scm'.state[s] # scm.state[s]
    <3>1. Current \in WasUp \cup {Name}
      BY <1>2 DEF TreeInv, Agenda
    <3>2. s \in Dependencies(Current)
      BY <1>4, <2>2, <3>1
    <3>3. Current \in Dependents(s)
      BY <3>2 DEF Dependencies
    <3> QED BY <3>1, <3>3, NameFirst
  <2> QED BY <2>1, <2>2
<1>11. NoneLeftStopped'
  BY <1>5 DEF NoneLeftStopped, ReturnedWith
<1> QED BY <1>4, <1>5, <1>7, <1>8, <1>9, <1>10, <1>11 DEF ServiceInv, ServiceTypeOK, TreeInv

\* A step that changes neither the services nor what the call set out from
\* leaves a stopped dependent stopped.
LEMMA AfterStep ==
  ASSUME ServiceInv, Underway, scm' = scm, tree' \in TreeType,
         tree'.op = tree.op, tree'.dependents = tree.dependents, tree'.snapshot = tree.snapshot,
         Agenda', Remembered', Accounted', NameUp', NoneLeftStopped'
  PROVE  ServiceInv'
<1>1. WasUp' = WasUp
  BY DEF WasUp
<1>2. StaysStopped'
  BY <1>1, AtHand DEF TreeInv, StaysStopped
<1> QED BY <1>2, AtHand DEF ServiceInv, ServiceTypeOK, TreeInv

LEMMA DependentStoppedKeeps ==
  ASSUME ServiceInv, Underway, DependentStopped PROVE ServiceInv'
<1> DEFINE next == [tree EXCEPT !.stopped = @ \cup {Current}, !.todo = @ \ {Current}]
           after == IF next.todo = {} THEN [next EXCEPT !.step = "name", !.todo = {Name}] ELSE next
<1>1. /\ TreeInv /\ scm \in SCMType /\ tree \in TreeType /\ scm' = scm
      /\ Current \in tree.todo /\ Current \in Services /\ Name \in Services
      /\ tree.step = "dependents" /\ tree' = Begin(after)
  BY AtHand, ChainIs DEF DependentStopped
<1>2. /\ next \in TreeType /\ next.step = tree.step /\ next.op = tree.op
      /\ next.dependents = tree.dependents /\ next.snapshot = tree.snapshot
      /\ next.todo = tree.todo \ {Current} /\ next.stopped = tree.stopped \cup {Current}
  BY <1>1 DEF TreeType
<1> HIDE DEF next
<1>3. /\ after \in TreeType /\ after.op = tree.op
      /\ after.dependents = tree.dependents /\ after.snapshot = tree.snapshot
      /\ after.stopped = tree.stopped \cup {Current}
      /\ \/ tree.todo = {Current} /\ after.step = "name" /\ after.todo = {Name}
         \/ /\ tree.todo # {Current} /\ after.step = "dependents"
            /\ after.todo = tree.todo \ {Current}
  <2>1. CASE next.todo = {}
    <3>1. after = [next EXCEPT !.step = "name", !.todo = {Name}]
      BY <2>1
    <3> HIDE DEF after
    <3> QED BY <1>1, <1>2, <2>1, <3>1 DEF TreeType
  <2>2. CASE next.todo # {}
    BY <1>1, <1>2, <2>2
  <2> QED BY <2>1, <2>2
<1> HIDE DEF after
<1>4. /\ tree' \in TreeType /\ tree'.phase = "observe" /\ Underway' /\ tree'.step = after.step
      /\ tree'.op = tree.op /\ tree'.dependents = tree.dependents /\ tree'.snapshot = tree.snapshot
      /\ tree'.stopped = tree.stopped \cup {Current} /\ tree'.todo = after.todo
  BY <1>1, <1>3, BeginIs DEF Underway
<1>5. WasUp' = WasUp /\ Target = "stopped"
  BY <1>1, <1>4 DEF WasUp, Target
<1>6. Current \in WasUp
  BY <1>1 DEF TreeInv, Agenda
<1>7. Agenda'
  BY <1>1, <1>3, <1>4, <1>5, <1>6 DEF TreeInv, Agenda
<1>8. Remembered'
  BY <1>1, <1>3, <1>4, <1>5 DEF TreeInv, Remembered
<1>9. Accounted'
  BY <1>1, <1>3, <1>4, <1>5 DEF TreeInv, Accounted
<1>10. NameUp' /\ NoneLeftStopped'
  BY <1>3, <1>4 DEF NameUp, NoneLeftStopped, ReturnedWith
<1> QED BY <1>1, <1>4, <1>7, <1>8, <1>9, <1>10, AfterStep

LEMMA StopFailedKeeps == ASSUME ServiceInv, Underway, StopFailed PROVE ServiceInv'
<1> DEFINE start == [tree EXCEPT !.step = "restore", !.named = @ \cup {Current},
                                 !.todo = tree.stopped]
<1>1. /\ TreeInv /\ scm \in SCMType /\ tree \in TreeType /\ scm' = scm
      /\ Current \in Services /\ tree.step \in {"dependents", "name"} /\ Target = "stopped"
      /\ tree' = IF tree.stopped = {} THEN [start EXCEPT !.phase = "error"] ELSE Begin(start)
  BY AtHand DEF StopFailed, Failed, Restoring, Target
<1>2. /\ start \in TreeType /\ start.step = "restore" /\ start.op = tree.op
      /\ start.dependents = tree.dependents /\ start.snapshot = tree.snapshot
      /\ start.todo = tree.stopped /\ start.stopped = tree.stopped
      /\ start.named = tree.named \cup {Current}
  BY <1>1 DEF TreeType
<1> HIDE DEF start
<1>3. /\ tree' \in TreeType /\ tree'.step = "restore" /\ tree'.op = tree.op
      /\ tree'.dependents = tree.dependents /\ tree'.snapshot = tree.snapshot
      /\ tree'.stopped = tree.stopped /\ tree'.todo = tree.stopped
      /\ tree'.named = tree.named \cup {Current}
      /\ \/ tree'.phase = "error" /\ tree.stopped = {}
         \/ tree'.phase = "observe" /\ tree.stopped # {}
  <2>1. CASE tree.stopped = {}
    BY <1>1, <1>2, <2>1 DEF TreeType
  <2>2. CASE tree.stopped # {}
    BY <1>1, <1>2, <2>2, BeginIs
  <2> QED BY <2>1, <2>2
<1>4. WasUp' = WasUp
  BY <1>3 DEF WasUp
<1>5. \A s \in WasUp \ scm.touched :
        scm.state[s] # "stopped" \/ s \in tree'.todo \/ s \in tree'.named
  BY <1>1, <1>3 DEF TreeInv, Accounted
<1>6. Agenda' /\ Remembered'
  BY <1>1, <1>3, <1>4 DEF TreeInv, Agenda, Remembered, Underway
<1>7. Accounted' /\ NoneLeftStopped'
  BY <1>1, <1>3, <1>4, <1>5
  DEF Accounted, NoneLeftStopped, Underway, ReturnedWith, Target
<1>8. NameUp'
  BY <1>3 DEF NameUp
<1> QED BY <1>1, <1>3, <1>6, <1>7, <1>8, AfterStep

\* A call that has nothing left to do.
LEMMA EndingIs ==
  ASSUME tree \in TreeType, NEW phase \in {"ok", "error"}, NEW named \in SUBSET Services,
         tree' = [tree EXCEPT !.phase = phase, !.named = named]
  PROVE  /\ tree' \in TreeType /\ tree'.phase = phase /\ ~Underway'
         /\ tree'.step = tree.step /\ tree'.op = tree.op /\ tree'.dependents = tree.dependents
         /\ tree'.snapshot = tree.snapshot /\ tree'.stopped = tree.stopped
         /\ tree'.todo = tree.todo /\ tree'.named = named
BY DEF TreeType, Underway

LEMMA NameStoppedKeeps == ASSUME ServiceInv, Underway, NameStopped PROVE ServiceInv'
<1>1. /\ TreeInv /\ scm \in SCMType /\ tree \in TreeType /\ scm' = scm
      /\ tree.step = "name" /\ Name \in Services
  BY AtHand, ChainIs DEF NameStopped
<1>2. CASE tree.op = "restart"
  <2> DEFINE start == [tree EXCEPT !.step = "start", !.todo = {Name}]
  <2>1. /\ start \in TreeType /\ start.step = "start" /\ start.op = tree.op
        /\ start.dependents = tree.dependents /\ start.snapshot = tree.snapshot
        /\ start.todo = {Name} /\ start.stopped = tree.stopped
    BY <1>1 DEF TreeType
  <2>2. tree' = Begin(start)
    BY <1>2 DEF NameStopped
  <2> HIDE DEF start
  <2>3. /\ tree' \in TreeType /\ tree'.phase = "observe" /\ tree'.step = "start"
        /\ tree'.op = tree.op /\ tree'.dependents = tree.dependents
        /\ tree'.snapshot = tree.snapshot /\ tree'.todo = {Name} /\ tree'.stopped = tree.stopped
    BY <2>1, <2>2, BeginIs
  <2>4. WasUp' = WasUp
    BY <2>3 DEF WasUp
  <2>5. Agenda' /\ Remembered'
    BY <1>1, <1>2, <2>3, <2>4 DEF TreeInv, Agenda, Remembered
  <2>6. Accounted' /\ NameUp' /\ NoneLeftStopped'
    BY <2>3 DEF Accounted, NameUp, NoneLeftStopped, ReturnedWith, Target
  <2> QED BY <1>1, <2>3, <2>5, <2>6, AfterStep
<1>3. CASE tree.op # "restart"
  <2>1. tree' = [tree EXCEPT !.phase = "ok", !.named = tree.named] /\ tree.named \in SUBSET Services
    BY <1>1, <1>3 DEF NameStopped, TreeType
  <2>2. /\ tree' \in TreeType /\ tree'.phase = "ok" /\ ~Underway'
        /\ tree'.step = tree.step /\ tree'.op = tree.op /\ tree'.dependents = tree.dependents
        /\ tree'.snapshot = tree.snapshot /\ tree'.stopped = tree.stopped
        /\ tree'.todo = tree.todo
    BY <1>1, <2>1, EndingIs
  <2>3. WasUp' = WasUp
    BY <2>2 DEF WasUp
  <2>4. Agenda' /\ Remembered'
    BY <1>1, <2>2, <2>3 DEF TreeInv, Agenda, Remembered
  <2>5. Accounted' /\ NameUp' /\ NoneLeftStopped'
    BY <1>3, <2>2 DEF Accounted, NameUp, NoneLeftStopped, ReturnedWith
  <2> QED BY <1>1, <2>2, <2>4, <2>5, AfterStep
<1> QED BY <1>2, <1>3

LEMMA StartedKeeps == ASSUME ServiceInv, Underway, Started PROVE ServiceInv'
<1> DEFINE todo == IF tree.step = "start" THEN tree.stopped ELSE tree.todo \ {Current}
<1>1. /\ TreeInv /\ scm \in SCMType /\ tree \in TreeType /\ scm' = scm
      /\ tree.step \in {"start", "again"} /\ Target = "running" /\ Current \in Services
      /\ scm.state[Current] = "running"
      /\ tree' = IF todo = {} THEN [tree EXCEPT !.phase = "ok"]
                 ELSE Begin([tree EXCEPT !.step = "again", !.todo = todo])
  BY AtHand DEF Started, ToStartAgain, Target
<1>2. todo \subseteq WasUp /\ todo \in SUBSET Services
  BY <1>1 DEF TreeInv, Agenda, TreeType
<1>3. tree.dependents => \A s \in WasUp \ scm.touched : scm.state[s] = "running" \/ s \in todo
  BY <1>1 DEF TreeInv, Remembered, Accounted
<1>4. Name \in scm.touched \/ scm.state[Name] = "running"
  <2>1. CASE tree.step = "start"
    <3>1. Current = Name
      BY <2>1, AtHand DEF TreeInv, Agenda
    <3> QED BY <1>1, <3>1
  <2>2. CASE tree.step = "again"
    BY <1>1, <2>2 DEF TreeInv, NameUp
  <2> QED BY <1>1, <2>1, <2>2
<1> HIDE DEF todo
<1>5. CASE todo = {}
  <2>1. tree' = [tree EXCEPT !.phase = "ok", !.named = tree.named] /\ tree.named \in SUBSET Services
    BY <1>1, <1>5 DEF TreeType
  <2>2. /\ tree' \in TreeType /\ tree'.phase = "ok" /\ ~Underway'
        /\ tree'.step = tree.step /\ tree'.op = tree.op /\ tree'.dependents = tree.dependents
        /\ tree'.snapshot = tree.snapshot /\ tree'.stopped = tree.stopped
        /\ tree'.todo = tree.todo
    BY <1>1, <2>1, EndingIs
  <2>3. WasUp' = WasUp
    BY <2>2 DEF WasUp
  <2>4. Agenda' /\ Remembered'
    BY <1>1, <2>2, <2>3 DEF TreeInv, Agenda, Remembered
  <2>5. Accounted' /\ NameUp' /\ NoneLeftStopped'
    BY <1>1, <1>3, <1>4, <1>5, <2>2, <2>3 DEF Accounted, NameUp, NoneLeftStopped, ReturnedWith
  <2> QED BY <1>1, <2>2, <2>4, <2>5, AfterStep
<1>6. CASE todo # {}
  <2> DEFINE again == [tree EXCEPT !.step = "again", !.todo = todo]
  <2>1. /\ again \in TreeType /\ again.step = "again" /\ again.op = tree.op
        /\ again.dependents = tree.dependents /\ again.snapshot = tree.snapshot
        /\ again.todo = todo /\ again.stopped = tree.stopped
    BY <1>1, <1>2 DEF TreeType
  <2>2. tree' = Begin(again)
    BY <1>1, <1>6
  <2> HIDE DEF again
  <2>3. /\ tree' \in TreeType /\ tree'.phase = "observe" /\ tree'.step = "again"
        /\ tree'.op = tree.op /\ tree'.dependents = tree.dependents
        /\ tree'.snapshot = tree.snapshot /\ tree'.todo = todo /\ tree'.stopped = tree.stopped
    BY <2>1, <2>2, BeginIs
  <2>4. WasUp' = WasUp
    BY <2>3 DEF WasUp
  <2>5. Agenda' /\ Remembered'
    BY <1>1, <1>2, <1>6, <2>3, <2>4 DEF TreeInv, Agenda, Remembered
  <2>6. Accounted' /\ NameUp' /\ NoneLeftStopped'
    BY <1>1, <1>3, <1>4, <2>3, <2>4
    DEF Accounted, NameUp, NoneLeftStopped, ReturnedWith, Target
  <2> QED BY <1>1, <2>3, <2>5, <2>6, AfterStep
<1> QED BY <1>5, <1>6

LEMMA StartFailedKeeps == ASSUME ServiceInv, Underway, StartFailed PROVE ServiceInv'
<1>1. /\ TreeInv /\ scm \in SCMType /\ tree \in TreeType /\ scm' = scm
      /\ tree.step \in {"start", "again"} /\ Current \in Services
      /\ tree' = [tree EXCEPT !.phase = "error", !.named = tree.named \cup {Current}]
      /\ tree.named \cup {Current} \in SUBSET Services
  BY AtHand DEF StartFailed, Failed, TreeType
<1>2. /\ tree' \in TreeType /\ tree'.phase = "error" /\ ~Underway'
      /\ tree'.step = tree.step /\ tree'.op = tree.op /\ tree'.dependents = tree.dependents
      /\ tree'.snapshot = tree.snapshot /\ tree'.stopped = tree.stopped
      /\ tree'.todo = tree.todo
  BY <1>1, EndingIs
<1>3. WasUp' = WasUp
  BY <1>2 DEF WasUp
<1>4. Agenda' /\ Remembered'
  BY <1>1, <1>2, <1>3 DEF TreeInv, Agenda, Remembered
<1>5. Accounted' /\ NameUp' /\ NoneLeftStopped'
  BY <1>1, <1>2 DEF Accounted, NameUp, NoneLeftStopped, ReturnedWith
<1> QED BY <1>1, <1>2, <1>4, <1>5, AfterStep

LEMMA RestoredKeeps == ASSUME ServiceInv, Underway, Restored PROVE ServiceInv'
<1>1. PICK named \in {{}, {Current}} :
        /\ IF named = {} THEN Converged ELSE Failed
        /\ LET next == [tree EXCEPT !.todo = @ \ {Current}, !.named = @ \cup named]
           IN tree' = IF next.todo = {} THEN [next EXCEPT !.phase = "error"] ELSE Begin(next)
  BY DEF Restored
<1> DEFINE next == [tree EXCEPT !.todo = @ \ {Current}, !.named = @ \cup named]
<1>2. /\ TreeInv /\ scm \in SCMType /\ tree \in TreeType /\ tree.step = "restore"
      /\ Target = "running" /\ Current \in Services
  BY AtHand DEF Restored, Target
<1>3. scm' = scm /\ (scm.state[Current] = "running" \/ Current \in named)
  BY <1>1, <1>2, AtHand DEF Failed
<1>4. /\ next \in TreeType /\ next.step = "restore" /\ next.op = tree.op
      /\ next.dependents = tree.dependents /\ next.snapshot = tree.snapshot
      /\ next.todo = tree.todo \ {Current} /\ next.stopped = tree.stopped
      /\ next.named = tree.named \cup named
  BY <1>2 DEF TreeType
<1>5. tree' = IF next.todo = {} THEN [next EXCEPT !.phase = "error"] ELSE Begin(next)
  BY <1>1
<1> HIDE DEF next
<1>6. /\ tree' \in TreeType /\ tree'.step = "restore" /\ tree'.op = tree.op
      /\ tree'.dependents = tree.dependents /\ tree'.snapshot = tree.snapshot
      /\ tree'.stopped = tree.stopped /\ tree'.todo = tree.todo \ {Current}
      /\ tree'.named = tree.named \cup named
      /\ \/ tree'.phase = "error" /\ tree'.todo = {}
         \/ tree'.phase = "observe" /\ tree'.todo # {}
  <2>1. CASE next.todo = {}
    BY <1>4, <1>5, <2>1 DEF TreeType
  <2>2. CASE next.todo # {}
    BY <1>4, <1>5, <2>2, BeginIs
  <2> QED BY <2>1, <2>2
<1>7. WasUp' = WasUp
  BY <1>6 DEF WasUp
<1>8. \A s \in WasUp \ scm.touched :
        scm.state[s] # "stopped" \/ s \in tree'.todo \/ s \in tree'.named
  BY <1>2, <1>3, <1>6 DEF TreeInv, Accounted
<1>9. Agenda' /\ Remembered'
  BY <1>2, <1>6, <1>7 DEF TreeInv, Agenda, Remembered, Underway
<1>10. Accounted' /\ NoneLeftStopped'
  BY <1>3, <1>6, <1>7, <1>8
  DEF Accounted, NoneLeftStopped, Underway, ReturnedWith, Target
<1>11. NameUp'
  BY <1>6 DEF NameUp
<1> QED BY <1>3, <1>6, <1>9, <1>10, <1>11, AfterStep

LEMMA ServiceKeeps ==
  /\ HostInit => (tree # << >> => ServiceInv)
  /\ (tree # << >> => ServiceInv) /\ [HostNext]_hostVars => (tree # << >> => ServiceInv)'
<1>1. HostInit => (tree # << >> => ServiceInv)
  BY ServiceStarts DEF HostInit, ServiceOff
<1>2. ASSUME tree # << >> => ServiceInv, ServiceNext
      PROVE  (tree # << >> => ServiceInv)'
  <2>1. ServiceInv /\ tree # << >>
    BY <1>2 DEF ServiceNext
  <2>2. ASSUME NEW s \in Services, tree.phase \notin {"ok", "error"}, Settles(s) \/ Interferes(s)
        PROVE  ServiceInv'
    BY <2>1, <2>2, SettlesKeeps, InterferesKeeps
  <2> QED
    BY <1>2, <2>1, <2>2, BeginCallKeeps, WatchingKeeps, ActKeeps, DependentStoppedKeeps,
       StopFailedKeeps, NameStoppedKeeps, StartedKeeps, StartFailedKeeps, RestoredKeeps
    DEF ServiceNext
<1>3. ASSUME tree # << >> => ServiceInv, UNCHANGED serviceVars
      PROVE  (tree # << >> => ServiceInv)'
  BY <1>3
  DEF serviceVars, ServiceInv, ServiceTypeOK, TreeInv, Agenda, Remembered, Accounted, NameUp,
      StaysStopped, NoneLeftStopped, ReturnedWith, WasUp, Underway, Target, Current
<1> QED BY <1>1, <1>2, <1>3 DEF HostNext, hostVars

\* A stop that fails leaves no dependent stopped without saying so, for any
\* chain of services (service.rs: stop_tree).
THEOREM Restores == HostSpec => []NoneLeftStopped
<1>1. (tree # << >> => ServiceInv) => NoneLeftStopped
  BY DEF NoneLeftStopped, ReturnedWith, ServiceInv, TreeInv
<1> QED BY <1>1, ServiceKeeps, PTL DEF HostSpec

\* A restart has the services as they were, but for what somebody else
\* starts or stops (service.rs: restart_tree).
THEOREM PutBack == HostSpec => []RestartPutsBack
<1>1. (tree # << >> => ServiceInv) => RestartPutsBack
  BY DEF RestartPutsBack, ReturnedWith, ServiceInv, TreeInv, Accounted, NameUp, StaysStopped
<1> QED BY <1>1, ServiceKeeps, PTL DEF HostSpec
=============================================================================

----------------------------- MODULE FrontendIO -----------------------------
(***************************************************************************)
(* doit() of speedy_main.c from the point where the frontend is connected: *)
(* it copies its stdin to the backend and the backend's stdout and stderr  *)
(* to its own until the backend has exited, and in the background if       *)
(* somebody still holds the backend's sockets then.                        *)
(*                                                                         *)
(* Copy buffer 0 is CB_IN (fd 0 -> socks[0]), 1 is CB_OUT (socks[1] ->     *)
(* fd 1), 2 is CB_ERR (socks[2] -> fd 2).  A descriptor is <<b, "r">>      *)
(* (rdfd of buffer b) or <<b, "w">> (wrfd).  Every read, write and poll is *)
(* a step of its own; the backend, the script's children, the writer of    *)
(* stdin, the readers of stdout and stderr, and signals come in between.   *)
(***************************************************************************)
EXTENDS CircBuf, FiniteSets

CONSTANTS MaxSz,         \* [0..2 -> Nat]: maxsz of the copy buffers
          Header,        \* length of the environment and arguments
          SockSize,      \* what a socket holds
          PipeSize,      \* what the frontend's stdout or stderr holds
          Keeps,         \* the sets of sockets that a child of the script may keep
          Loads          \* bounds: [closed, nin, nout, odd], see Init

Bufs    == 0 .. 2
Outputs == 1 .. 2
Stream(n) == [k \in 1 .. n |-> k]
ByKid   == -1           \* written by a child of the script
Wants   == -2           \* the first byte on stdout: the cwd is wanted
Not     == -3           \* ... or is not
SigFd   == <<3, "r">>   \* sig_pipes[0]

\* BufsizPost and BufsizGet are natural numbers, and the input buffer is made
\* at least as large as the header it starts with.
ASSUME FrontendIOAssumption ==
    /\ MaxSz \in [Bufs -> Nat \ {0}]
    /\ Header \in 1 .. MaxSz[0]
    /\ SockSize \in Nat \ {0} /\ PipeSize \in Nat \ {0}
    /\ Keeps \subseteq SUBSET Bufs
    /\ Loads \subseteq [closed : SUBSET Bufs, nin : Nat, nout : [Outputs -> Nat], odd : Nat]

VARIABLES
    fe,      \* the frontend (its background child has the same state)
    ended,   \* the frontend has returned its status
    sig,     \* SIGUSR1 is pending for the frontend
    be,      \* the backend: pc, its open sockets, what it has read and written
    kid,     \* the sockets that children of the script hold, and what they wrote
    status,  \* "none", or "posted" in the frontend's slot, or "gone": the process is dead
    sock,    \* the bytes in the sockets
    cwd,     \* the answer to proto2 on the error socket: "none", "sent", "shut"
    src,     \* stdin: bytes to come, the next byte, end of file
    sink,    \* stdout and stderr: room left, what has been written, is there a reader
    load     \* which of Loads this is

vars == <<fe, ended, sig, be, kid, status, sock, cwd, src, sink, load>>

-----------------------------------------------------------------------------
(* The buffers as doit sees them *)

\* (A slip: it forgets that the first byte of stdout is awaited.)
my_copydoneEarly(f, b) == cb_copydone(f.cb[b])

my_copydone(f, b) == cb_copydone(f.cb[b]) /\ (f.got_stdout \/ b # 1 \/ f.cb[b].eof)

my_canread(f, b) ==
    /\ ~(b # 0 /\ f.stop_sock_reads /\ b \in f.read_stopped)
    /\ cb_canread(f.cb[b]) \/ (~f.got_stdout /\ b = 1 /\ ~f.cb[b].eof)

try_close(f, b) ==
    IF my_copydone(f, b) THEN [f EXCEPT !.closed = @ \cup {<<b, "r">>, <<b, "w">>}] ELSE f

do_read(f, b)  == my_canread(f, b) /\ <<b, "r">> \in f.ready
do_write(f, b) == cb_canwrite(f.cb[b]) /\ <<b, "w">> \in f.ready

ToPoll(f) == [f EXCEPT !.pc = "poll", !.i = 0, !.ready = {}]

\* Go on with the "for" loop at buffer b: the next one with something to do.
\* After the last, there is nothing to check unless the backend has exited or
\* a signal has come: straight to poll.
Resume(f, b) ==
    LET todo == {k \in b .. 2 : do_read(f, k) \/ do_write(f, k)}
        k    == CHOOSE j \in todo : \A l \in todo : j <= l
    IN  IF todo = {} THEN IF f.backend_exited \/ f.got_sig \/ SigFd \in f.ready
                          THEN [f EXCEPT !.pc = "check", !.i = 0, !.ready = {}]
                          ELSE ToPoll(f)
        ELSE [f EXCEPT !.pc = "io", !.i = k,
                       !.do_read = do_read(f, k), !.do_write = do_write(f, k)]

\* The end of a turn of the inner "while" loop for buffer i.
Continue(now) ==
    \E f \in {now} :
        IF f.do_read \/ f.do_write THEN fe' = f
        ELSE \E g \in {try_close(f, f.i)} : fe' = Resume(g, g.i + 1)

\* (A slip: a buffer that has data is not read as well.)
PollSetInTurns(f) ==
    {<<b, "r">> : b \in {k \in Bufs : my_canread(f, k) /\ ~cb_canwrite(f.cb[k])}}
    \cup {<<b, "w">> : b \in {k \in Bufs : cb_canwrite(f.cb[k]) /\ f.cb[k].eof}}

\* What the sets for poll are made of
PollSet(f) ==
    {<<b, "r">> : b \in {k \in Bufs : my_canread(f, k)}}
    \cup {<<b, "w">> : b \in {k \in Bufs : cb_canwrite(f.cb[k])}}

-----------------------------------------------------------------------------
(* What is on the other ends *)

Held(b) == b \in be.open \/ b \in kid.open

\* What a read of the descriptor b gets, and whether more may come.
Incoming(b) == IF b = 0 THEN [k \in 1 .. src.avail |-> src.next + k - 1] ELSE sock[b]
MayCome(b)  == IF b = 0 THEN ~src.eof ELSE Held(b)

ReadReady(b)  == Len(Incoming(b)) > 0 \/ ~MayCome(b)
Broken(b)     == IF b = 0 THEN ~Held(0) ELSE ~sink[b].reader
WriteRoom(b)  == IF b = 0 THEN SockSize - Len(sock[0]) ELSE sink[b].room
WriteReady(b) == WriteRoom(b) > 0 \/ Broken(b)
Ready(fd) == IF fd[2] = "r" THEN ReadReady(fd[1]) ELSE WriteReady(fd[1])

-----------------------------------------------------------------------------
(* Init: connected, the buffers made, descriptors that are closed taken out.*)
(* A load has the descriptors of 0..2 closed at the start, the bounds on    *)
(* what comes on stdin and on what the script writes, and on how often one  *)
(* of these happens: the script closes one of its three or forks, it dies,  *)
(* the reader of stdout or stderr leaves.                                   *)

Connected(closed0) ==
    LET cbs == [b \in Bufs |-> IF b = 0 THEN cb_init(MaxSz[0], Stream(Header), Header)
                                        ELSE cb_init(MaxSz[b], << >>, 0)]
        fixed == [b \in Bufs |-> IF b \notin closed0 THEN cbs[b]
                                 ELSE IF b = 0 THEN [cbs[b] EXCEPT !.eof = TRUE]
                                 ELSE [cbs[b] EXCEPT !.write_err = TRUE]]
        f0 == [ pc |-> "io", i |-> 0, do_read |-> FALSE, do_write |-> FALSE,
                cb |-> fixed, ready |-> {}, got_stdout |-> FALSE,
                stop_sock_reads |-> FALSE, read_stopped |-> {}, backend_exited |-> FALSE,
                am_child |-> FALSE, got_sig |-> FALSE, sig_pipe |-> 0,
                closed |-> {<<b, IF b = 0 THEN "r" ELSE "w">> : b \in closed0} ]
        f1 == [f0 EXCEPT !.ready = PollSet(f0) \ {<<1, "w">>, <<2, "w">>}]
    IN  Resume(try_close(try_close(try_close(f1, 0), 1), 2), 0)

Init ==
    /\ load \in Loads
    /\ fe = Connected(load.closed)
    /\ ended = FALSE
    /\ sig = FALSE
    /\ be = [pc |-> "header", open |-> Bufs, got |-> << >>, wrote |-> [b \in Outputs |-> 0]]
    /\ kid = [open |-> {}, wrote |-> FALSE]
    /\ status = "none"
    /\ sock = [b \in Bufs |-> << >>]
    /\ cwd = "none"
    /\ src = [left |-> load.nin, avail |-> 0, next |-> Header + 1, eof |-> load.nin = 0]
    /\ sink = [b \in Outputs |-> [room |-> PipeSize, log |-> << >>, reader |-> TRUE]]

-----------------------------------------------------------------------------
(* The frontend *)

\* The first byte of the backend's stdout is for proto2: take it out, and if it
\* asks for it send the current directory over the error socket.
TakesFirst(old, new) == ~old.got_stdout /\ old.i = 1 /\ cb_data_len(new) > cb_data_len(old.cb[1])

speedy_frontend_proto2(first_byte) ==
    cwd' = IF first_byte = Wants
           THEN IF <<2, "r">> \in fe.closed THEN "shut" ELSE "sent"
           ELSE cwd

Read ==
    /\ fe.pc = "io" /\ fe.do_read
    /\ \E b \in {fe.i} : \E new \in {cb_read(fe.cb[b], Incoming(b), MayCome(b))} :
       LET n     == cb_data_len(new) - cb_data_len(fe.cb[b])
           first == TakesFirst(fe, new)
       IN  /\ \E now \in {IF first THEN cb_shift(new) ELSE new} :
                 Continue([fe EXCEPT !.cb[b] = now,
                                     !.read_stopped = IF n > 0 THEN @ ELSE @ \cup {b},
                                     !.got_stdout = @ \/ first,
                                     !.do_read = FALSE,
                                     !.do_write = @ \/ (cb_canwrite(now) /\ (now.eof \/ n > 0))])
           /\ IF b = 0
              THEN src' = [src EXCEPT !.avail = @ - n, !.next = @ + n] /\ UNCHANGED sock
              ELSE sock' = [sock EXCEPT ![b] = SubSeq(@, n + 1, Len(@))] /\ UNCHANGED src
           /\ IF first THEN speedy_frontend_proto2(cb_first(new)) ELSE UNCHANGED cwd
    /\ UNCHANGED <<ended, sig, be, kid, status, sink, load>>

Write ==
    /\ fe.pc = "io" /\ ~fe.do_read /\ fe.do_write
    /\ \E b \in {fe.i} : \E data \in {Data(fe.cb[b].circ)} :
       LET n   == IF Len(data) < WriteRoom(b) THEN Len(data) ELSE WriteRoom(b)
           out == SubSeq(data, 1, n)
       IN  /\ \E new \in {IF Broken(b) THEN cb_write_failed(fe.cb[b]) ELSE cb_wrote(fe.cb[b], n)} :
              \E f \in {[fe EXCEPT !.cb[b] = new, !.do_write = FALSE]} :
                 Continue([f EXCEPT !.do_read = my_canread(f, b) /\ cb_data_len(new) < Len(data)])
           /\ IF Broken(b) THEN UNCHANGED <<sock, sink>>
              ELSE IF b = 0 THEN sock' = [sock EXCEPT ![0] = @ \o out] /\ UNCHANGED sink
              ELSE /\ sink' = [sink EXCEPT ![b].room = @ - n, ![b].log = @ \o out]
                   /\ UNCHANGED sock
    /\ UNCHANGED <<ended, sig, be, kid, status, cwd, src, load>>

AllDone(f) == my_copydone(f, 1) /\ my_copydone(f, 2)

\* After the reads and writes, once the backend is known to have exited.
AfterExit ==
    /\ fe.pc = "check" /\ fe.backend_exited
    /\ \/ /\ AllDone(fe)
          /\ fe' = [fe EXCEPT !.pc = "end"]
          /\ ended' = TRUE
       \/ \* Nothing more to write, and both sockets were read until they had
          \* nothing: the parent returns and a child goes on, if it can fork.
          /\ ~AllDone(fe) /\ ~fe.am_child
          /\ ~cb_canwrite(fe.cb[1]) /\ ~cb_canwrite(fe.cb[2])
          /\ Outputs \subseteq fe.read_stopped
          /\ fe' \in {ToPoll([fe EXCEPT !.am_child = TRUE, !.stop_sock_reads = FALSE]),
                      [fe EXCEPT !.pc = "end"]}
          /\ ended' = TRUE
       \/ /\ ~AllDone(fe)
          /\ \/ fe.am_child
             \/ cb_canwrite(fe.cb[1]) \/ cb_canwrite(fe.cb[2])
             \/ ~(Outputs \subseteq fe.read_stopped)
          /\ fe' = ToPoll(fe)
          /\ UNCHANGED ended
    /\ UNCHANGED <<sig, be, kid, status, sock, cwd, src, sink, load>>

\* (A slip: it waits for the status of a backend that is dead.)
CollectPosted ==
    /\ fe.pc = "check" /\ ~fe.backend_exited
    /\ LET f == [fe EXCEPT !.backend_exited = (status = "posted")] IN
       IF f.backend_exited /\ AllDone(f)
       THEN fe' = [f EXCEPT !.pc = "end"] /\ ended' = TRUE
       ELSE fe' = [f EXCEPT !.pc = "ack"] /\ UNCHANGED ended
    /\ UNCHANGED <<sig, be, kid, status, sock, cwd, src, sink, load>>

\* speedy_frontend_collect_status under the lock: the status is there, or the
\* backend is found dead.
Collect ==
    /\ fe.pc = "check" /\ ~fe.backend_exited
    /\ LET f == [fe EXCEPT !.backend_exited = (status # "none")] IN
       IF f.backend_exited /\ AllDone(f)
       THEN fe' = [f EXCEPT !.pc = "end"] /\ ended' = TRUE
       ELSE fe' = [f EXCEPT !.pc = "ack"] /\ UNCHANGED ended
    /\ UNCHANGED <<sig, be, kid, status, sock, cwd, src, sink, load>>

\* (A slip: read_stopped is not reset.)
AckAsItWas ==
    /\ fe.pc = "ack"
    /\ \E f \in {[fe EXCEPT !.got_sig = FALSE, !.sig_pipe = @ - 1]} :
       IF ~f.backend_exited THEN fe' = ToPoll(f)
       ELSE \E g \in {[f EXCEPT !.stop_sock_reads = TRUE,
                                !.ready = Outputs \X {"r", "w"}]} : fe' = Resume(g, 0)
    /\ UNCHANGED <<ended, sig, be, kid, status, sock, cwd, src, sink, load>>

\* (A slip: it waits for the sockets to be ready.)
AckAndPoll ==
    /\ fe.pc = "ack"
    /\ \E f \in {[fe EXCEPT !.got_sig = FALSE, !.sig_pipe = @ - 1]} :
       fe' = ToPoll(IF ~f.backend_exited THEN f
                    ELSE [f EXCEPT !.stop_sock_reads = TRUE, !.read_stopped = {}])
    /\ UNCHANGED <<ended, sig, be, kid, status, sock, cwd, src, sink, load>>

\* "Ack signal", and get ready to copy what is left in the sockets.
Ack ==
    /\ fe.pc = "ack"
    /\ \E f \in {[fe EXCEPT !.got_sig = FALSE, !.sig_pipe = @ - 1]} :
       IF ~f.backend_exited THEN fe' = ToPoll(f)
       ELSE \E g \in {[f EXCEPT !.stop_sock_reads = TRUE, !.read_stopped = {},
                                !.ready = Outputs \X {"r", "w"}]} : fe' = Resume(g, 0)
    /\ UNCHANGED <<ended, sig, be, kid, status, sock, cwd, src, sink, load>>

\* poll returns: with what is ready; or after 5 seconds with nothing, and then
\* the frontend looks for itself whether the backend is alive.
Woken(f) == IF f.backend_exited THEN f
            ELSE [f EXCEPT !.got_sig = TRUE, !.sig_pipe = @ + 1]

Poll ==
    /\ fe.pc = "poll"
    /\ \E ready \in {{fd \in PollSet(fe) : Ready(fd)}
                       \cup (IF ~fe.backend_exited /\ fe.sig_pipe > 0 THEN {SigFd} ELSE {})} :
       \E f \in {IF ready # {} THEN [fe EXCEPT !.ready = ready] ELSE Woken(fe)} :
          fe' = Resume(f, 0)
    /\ UNCHANGED <<ended, sig, be, kid, status, sock, cwd, src, sink, load>>

\* catch_sig: SIGUSR1 strikes; in poll it makes that return EINTR.  When the
\* backend is known to have exited it is ignored.
catch_sig ==
    /\ sig /\ fe.pc # "end"
    /\ sig' = FALSE
    /\ LET f == Woken(fe) IN
       fe' \in {f} \cup (IF fe.pc = "poll" THEN {Resume(Woken(f), 0)} ELSE {})
    /\ UNCHANGED <<ended, be, kid, status, sock, cwd, src, sink, load>>

Frontend == Read \/ Write \/ AfterExit \/ Collect \/ Ack \/ Poll

-----------------------------------------------------------------------------
(* The backend (onerun of speedy_perl.c) and the script.  Alive means the   *)
(* process has its sockets.                                                 *)

FeHas(b) == <<b, IF b = 0 THEN "w" ELSE "r">> \notin fe.closed /\ fe.pc # "end"

Odd == load.odd > 0 /\ load' = [load EXCEPT !.odd = @ - 1]

Dies(pc) == [be EXCEPT !.pc = pc, !.open = {}]

\* A byte from stdin: the header byte by byte, then what the script reads.
BeRead ==
    /\ be.pc \in {"header", "script"} /\ 0 \in be.open
    /\ sock[0] # << >>
    /\ sock' = [sock EXCEPT ![0] = Tail(@)]
    /\ LET got == Append(be.got, Head(sock[0])) IN
       be' = [be EXCEPT !.got = got,
                        !.pc = IF @ = "header" /\ Len(got) = Header THEN "proto" ELSE @]
    /\ UNCHANGED <<fe, ended, sig, kid, status, cwd, src, sink, load>>

\* do_proto2: it knows the directory, or wants its path.
BeProto2 ==
    /\ be.pc = "proto"
    /\ \/ /\ sock' = [sock EXCEPT ![1] = Append(@, Not)]
          /\ be' = [be EXCEPT !.pc = "script"]
       \/ /\ sock' = [sock EXCEPT ![1] = Append(@, Wants)]
          /\ be' = [be EXCEPT !.pc = "cwd"]
    /\ UNCHANGED <<fe, ended, sig, kid, status, cwd, src, sink, load>>

\* (A slip: it takes "nothing yet" for the end of file.)
BeGetCwdNow ==
    /\ be.pc = "cwd"
    /\ be' = IF cwd = "sent" THEN [be EXCEPT !.pc = "script"] ELSE Dies("error")
    /\ UNCHANGED <<fe, ended, sig, kid, status, sock, cwd, src, sink, load>>

\* get_string from the error socket, or "protocol error" on end of file
BeGetCwd ==
    /\ be.pc = "cwd"
    /\ \/ cwd = "sent" /\ be' = [be EXCEPT !.pc = "script"]
       \/ cwd # "sent" /\ ~FeHas(2) /\ be' = Dies("error")
    /\ UNCHANGED <<fe, ended, sig, kid, status, sock, cwd, src, sink, load>>

\* The script writes a byte; to a socket that nobody reads it gets SIGPIPE.
BeWrite(b) ==
    /\ be.pc = "script" /\ b \in be.open
    /\ be.wrote[b] < load.nout[b]
    /\ IF FeHas(b)
       THEN /\ Len(sock[b]) < SockSize
            /\ sock' = [sock EXCEPT ![b] = Append(@, be.wrote[b] + 1)]
            /\ be' = [be EXCEPT !.wrote[b] = @ + 1]
       ELSE be' = Dies("died") /\ UNCHANGED sock
    /\ UNCHANGED <<fe, ended, sig, kid, status, cwd, src, sink, load>>

\* It closes STDIN, STDOUT or STDERR before its end.
BeCloses(b) ==
    /\ be.pc = "script" /\ b \in be.open
    /\ Odd
    /\ be' = [be EXCEPT !.open = @ \ {b}]
    /\ UNCHANGED <<fe, ended, sig, kid, status, sock, cwd, src, sink>>

\* It forks a child that keeps some of the sockets it has and goes its own way.
BeForks ==
    /\ be.pc = "script" /\ kid.open = {} /\ ~kid.wrote /\ be.open # {}
    /\ Odd
    /\ \E kept \in Keeps : kept \subseteq be.open /\ kid' = [kid EXCEPT !.open = kept]
    /\ UNCHANGED <<fe, ended, sig, be, status, sock, cwd, src, sink>>

\* The end of onerun closes the three, or something kills the backend.
BeEnds ==
    /\ \/ be.pc = "script" /\ be' = Dies("finished") /\ UNCHANGED load
       \/ be.pc \in {"header", "proto", "cwd", "script"} /\ Odd /\ be' = Dies("died")
    /\ UNCHANGED <<fe, ended, sig, kid, status, sock, cwd, src, sink>>

\* speedy_backend_exited, by the backend or by its parent: the status and the
\* signal.  A dead backend without a parent posts nothing.
BePosts ==
    /\ be.pc \in {"finished", "died", "error"} /\ status = "none"
    /\ \/ status' = "posted" /\ sig' = TRUE
       \/ status' = "gone" /\ be.pc # "finished" /\ UNCHANGED sig
    /\ UNCHANGED <<fe, ended, be, kid, sock, cwd, src, sink, load>>

KidWrites(b) ==
    /\ b \in kid.open /\ ~kid.wrote
    /\ IF FeHas(b)
       THEN /\ Len(sock[b]) < SockSize
            /\ sock' = [sock EXCEPT ![b] = Append(@, ByKid)]
            /\ kid' = [kid EXCEPT !.wrote = TRUE]
       ELSE kid' = [open |-> {}, wrote |-> TRUE] /\ UNCHANGED sock
    /\ UNCHANGED <<fe, ended, sig, be, status, cwd, src, sink, load>>

KidCloses ==
    /\ kid.open # {}
    /\ kid' = [open |-> {}, wrote |-> TRUE]
    /\ UNCHANGED <<fe, ended, sig, be, status, sock, cwd, src, sink, load>>

-----------------------------------------------------------------------------
(* stdin, stdout and stderr *)

Produce ==
    /\ src.left > 0 /\ ~src.eof
    /\ src' = [src EXCEPT !.left = @ - 1, !.avail = @ + 1]
    /\ UNCHANGED <<fe, ended, sig, be, kid, status, sock, cwd, sink, load>>

StdinEnds ==
    /\ ~src.eof
    /\ src' = [src EXCEPT !.eof = TRUE, !.left = 0]
    /\ UNCHANGED <<fe, ended, sig, be, kid, status, sock, cwd, sink, load>>

Consume(b) ==
    /\ sink[b].reader /\ sink[b].room < PipeSize
    /\ sink' = [sink EXCEPT ![b].room = PipeSize]
    /\ UNCHANGED <<fe, ended, sig, be, kid, status, sock, cwd, src, load>>

ReaderLeaves(b) ==
    /\ sink[b].reader
    /\ Odd
    /\ sink' = [sink EXCEPT ![b].reader = FALSE]
    /\ UNCHANGED <<fe, ended, sig, be, kid, status, sock, cwd, src>>

-----------------------------------------------------------------------------
Others ==
    \/ BeRead \/ BeProto2 \/ BeGetCwd \/ BeForks \/ BeEnds \/ BePosts \/ KidCloses
    \/ \E b \in Bufs : BeCloses(b)
    \/ \E b \in Outputs : BeWrite(b) \/ KidWrites(b) \/ Consume(b) \/ ReaderLeaves(b)
    \/ Produce \/ StdinEnds

Next == Frontend \/ catch_sig \/ Others

(* The frontend runs, signals arrive, whoever reads stdout and stderr reads *)
(* them or leaves, and the end of a backend is noticed.  Nothing makes the  *)
(* script, its children or the writer of stdin go on.  The frontend is      *)
(* enabled until its end, so FrontendRuns is its weak fairness.             *)
FrontendRuns == []<>(fe.pc = "end") \/ []<><<Frontend>>_vars

Fairness ==
    /\ FrontendRuns
    /\ WF_vars(catch_sig) /\ WF_vars(BePosts)
    /\ \A b \in Outputs : WF_vars(Consume(b))

Spec == Init /\ [][Next]_vars /\ Fairness

-----------------------------------------------------------------------------
(* Properties *)

\* The places of the script's own bytes in s
Own(s) == {k \in DOMAIN s : s[k] \notin {ByKid, Wants, Not}}

\* Of n bytes that the script has written, 1, 2 .. n, some have come as s: each
\* one after all those before it, and once.
Begins(s, n) ==
    \A k \in Own(s) : s[k] \in 1 .. n /\ {s[j] : j \in {i \in Own(s) : i < k}} = 1 .. s[k] - 1

\* ... and all have come.
Whole(s, n) == Begins(s, n) /\ \A v \in 1 .. n : \E k \in Own(s) : s[k] = v

Carried(b) == sink[b].log \o Data(fe.cb[b].circ) \o sock[b]
IsPrefixOf(s, t) == Len(s) <= Len(t) /\ s = SubSeq(t, 1, Len(s))

\* Types, and the buffers within their limits.
TypeOK ==
    /\ fe.pc \in {"io", "check", "ack", "poll", "end"}
    /\ fe.i \in Bufs
    /\ fe.sig_pipe \in 0 .. 4
    /\ \A b \in Bufs : fe.cb[b].circ.data_len \in 0 .. fe.cb[b].circ.buf_len
                      /\ fe.cb[b].circ.buf_len <= fe.cb[b].maxsz
    /\ status \in {"none", "posted", "gone"}

\* What the script has written to stdout or stderr is, in order and once, in
\* what has come out, the buffer and the socket, through all wraps and growths
\* of the buffer; the byte for proto2 never comes out.  If stdout or stderr
\* cannot be written, what has come out is the beginning of it.
OutputInOrder ==
    \A b \in Outputs :
        /\ IF fe.cb[b].write_err THEN Begins(sink[b].log, be.wrote[b])
                                 ELSE Whole(Carried(b), be.wrote[b])
        /\ \A k \in DOMAIN sink[b].log : sink[b].log[k] \notin {Wants, Not}

\* The environment, the arguments and stdin reach the backend in order.
InputInOrder ==
    LET sent == Stream(src.next - 1) IN
    IF fe.cb[0].write_err THEN IsPrefixOf(be.got, sent)
    ELSE be.got \o sock[0] \o Data(fe.cb[0].circ) = sent

\* A frontend that returns its status has written all of the script's output,
\* although the backend was seen to have exited before its output was read.
OutputComplete ==
    ended => \A b \in Outputs : fe.cb[b].write_err \/ Whole(sink[b].log, be.wrote[b])

\* A descriptor that try_close closed is never read, written or polled again.
NoClosedFd ==
    /\ fe.pc = "poll" => PollSet(fe) \cap fe.closed = {}
    /\ fe.pc = "io" => <<fe.i, IF fe.do_read THEN "r" ELSE "w">> \notin fe.closed

\* cb_read never reads into a full buffer: the 0 it would get means end of file.
RoomToRead ==
    fe.pc = "io" /\ fe.do_read => cb_free_len(fe.cb[fe.i]) > 0 /\ cb_room(fe.cb[fe.i]) > 0

\* A backend that asks for the current directory gets it, whatever the script,
\* stdin and signals do; unless the frontend's stderr cannot be written.
CwdAnswered == be.pc = "error" => fe.cb[2].write_err

NoChild == kid.open = {} /\ ~kid.wrote

\* The frontend returns once the backend's end is posted or the backend is
\* dead, if no child of the script holds a socket: also when the signal is lost
\* or comes between collect_status and the "ack".
ExitsWithBackend == (status # "none" /\ NoChild) ~> ended

Noticed == fe.pc = "ack" /\ fe.backend_exited
AllHeld == \A b \in Outputs : b \in kid.open /\ ~fe.cb[b].write_err

\* It returns although a child of the script holds both outputs and never
\* writes or closes them, and goes on in the background.
ExitsWithoutChild == (Noticed /\ fe.got_stdout /\ AllHeld) ~> (ended \/ ~AllHeld)

\* The promise of t/hold_stdio.t: it returns whatever the script's children
\* hold.  (The code does not keep it when they hold one of the two.)
ExitsAlways == (status # "none") ~> ended

\* Output that is in a socket or a buffer is written in the end, whatever
\* happens to the other two streams.
OutputFlows ==
    \A b \in Outputs :
        (sock[b] # << >> \/ cb_canwrite(fe.cb[b]))
            ~> /\ ~cb_canwrite(fe.cb[b])
               /\ sock[b] = << >> \/ fe.cb[b].write_err \/ fe.pc = "end"
                  \/ (fe.stop_sock_reads /\ b \in fe.read_stopped)

\* Input that is there is taken and its end passed on, until the backend's
\* socket is full, or closed because nobody reads it any more.
InputFlows ==
    (src.avail > 0 \/ src.eof)
        ~> \/ src.avail = 0 /\ ~src.eof
           \/ sock[0] # << >> \/ <<0, "w">> \in fe.closed \/ fe.pc = "end"

\* No stream is held up by another, or by a buffer that is full or empty.
StreamsFlow == OutputFlows /\ InputFlows

=============================================================================

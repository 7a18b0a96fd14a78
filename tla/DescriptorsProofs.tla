-------------------------- MODULE DescriptorsProofs --------------------------
(***************************************************************************)
(* The descriptors of any number of jails in one process, for any table    *)
(* size, client files and choices of standard streams.                     *)
(*                                                                         *)
(* Numbers are reused between the jails, so the properties rest on a       *)
(* ledger: every open number is the client's or is kept, under that very   *)
(* number, by one live jail (Ledger).  Progress says what a jail keeps at  *)
(* which stage, Copies what is left in its child of the table it was       *)
(* cloned with.                                                            *)
(***************************************************************************)
EXTENDS Descriptors, TLAPS

Client == Std \cup Files
Live(j) == stage[j] \notin {"new", "dropped"}

\* The number j keeps its end e under.
Number(j, e) ==
  IF e = "read" THEN jail[j].read
  ELSE IF e = "write" THEN IF jail[j].closed THEN None ELSE jail[j].write
  ELSE IF e = "pid" THEN jail[j].pid_fd ELSE jail[j].perf_fd

Ledger ==
  /\ \A n \in Client : fds[n] = <<"file", n>>
  /\ \A n \in Fd \ Client : fds[n] \in {Closed} \cup (Ends \X Jails)
  /\ \A n \in Fd, e \in Ends, j \in Jails :
       fds[n] = <<e, j>> => Live(j) /\ Number(j, e) = n
  /\ \A j \in Jails, e \in Ends :
       Live(j) /\ Number(j, e) # None => fds[Number(j, e)] = <<e, j>>

Piped(j) == "MEMORY" \in jail[j].features

Progress ==
  \A j \in Jails :
    /\ stage[j] \in {"new", "listeners"} => child[j] = "none"
    /\ stage[j] = "listeners" => jail[j].pid_fd = None
    /\ stage[j] \in {"listeners", "cloned", "spawned"} => jail[j].perf_fd = None
    /\ stage[j] \in {"listeners", "cloned", "spawned", "counted"} => ~jail[j].closed
    /\ stage[j] \in {"piped", "loop"} /\ Piped(j) => jail[j].closed
    /\ stage[j] # "new" /\ Piped(j) =>
         /\ jail[j].read \in Fd \ Client
         /\ jail[j].write \in Fd \ Client
         /\ jail[j].read # jail[j].write
    /\ ~Piped(j) => jail[j].read = None /\ jail[j].write = None

\* What a descriptor of the client refers to once the streams below i are
\* redirected, if they do not clash.
Left(streams, i, n) ==
  IF n \in DOMAIN streams /\ n < i THEN <<"file", streams[n]>>
  ELSE IF \E m \in DOMAIN streams : m < i /\ streams[m] = n THEN Closed
  ELSE <<"file", n>>

\* A table with nothing of a jail among the client's descriptors.
OnlyFiles(t) == \A n \in Client : t[n] \in {Closed} \cup ({"file"} \X Fd)

\* The copy of one jail's child.
Copy(j) ==
  /\ child[j] \in {"none", "dead"} => table[j] = NoFds
  /\ OnlyFiles(table[j])
  /\ child[j] = "program" => \A n \in Fd \ (Std \cup Inheritable) : table[j][n] = Closed
  /\ child[j] \in {"setup", "ready"} /\ Piped(j) => table[j][jail[j].write] = <<"write", j>>
  /\ child[j] = "setup" => \A n \in Client : table[j][n] = <<"file", n>>
  /\ child[j] \in {"ready", "program"} /\ Clean(jail[j].streams) =>
       \A n \in Std \cup (IF child[j] = "ready" THEN Files ELSE Inheritable) :
         table[j][n] = Left(jail[j].streams, 3, n)

Copies == \A j \in Jails : Copy(j)

FdInv == TypeOK /\ Ledger /\ Progress /\ Copies

-----------------------------------------------------------------------------
(* Tables and what is done to them.                                        *)

LEMMA Numbers ==
  /\ 0 \in Fd /\ Std \subseteq Fd /\ Client \subseteq Fd /\ None \notin Fd
  /\ Closed \in Objects /\ NoFds \in Tables /\ Base \in Tables
<1>1. 0 \in Fd /\ Std \subseteq Fd /\ Client \subseteq Fd /\ None \notin Fd
  BY DescriptorsAssumption DEF Std, Fd, Client, None
<1>2. Closed \in Objects /\ NoFds \in Tables
  BY DEF Objects, NoFds, Tables
<1>3. \A n \in Fd : <<"file", n>> \in Objects
  BY DEF Objects
<1> QED
  BY <1>1, <1>2, <1>3 DEF Base, Tables

\* The streams of a jail are standard streams, given the client's descriptors.
LEMMA StreamTypes ==
  ASSUME NEW streams \in Streams \cup {<<>>}, NEW target \in DOMAIN streams
  PROVE  target \in Std /\ streams[target] \in Client
BY DescriptorsAssumption DEF Std, Client

\* A stream is redirected among the client's descriptors.
LEMMA RedirectTypes ==
  ASSUME NEW state, state.table \in Tables, NEW target \in Std,
         NEW streams \in Streams \cup {<<>>}
  PROVE  /\ Redirect(state, target, streams).table \in Tables
         /\ \A n \in Fd \ Client :
              Redirect(state, target, streams).table[n] = state.table[n]
         /\ OnlyFiles(state.table) => OnlyFiles(Redirect(state, target, streams).table)
<1>1. CASE target \notin DOMAIN streams \/ ~state.ok
  BY <1>1 DEF Redirect
<1>2. CASE ~(target \notin DOMAIN streams \/ ~state.ok)
  <2>1. streams[target] \in Client /\ target \in Client /\ streams[target] \in Fd /\ target \in Fd
    BY <1>2, StreamTypes, Numbers DEF Client
  <2>2. Redirect(state, target, streams).table =
          [[state.table EXCEPT ![target] = state.table[streams[target]]]
             EXCEPT ![streams[target]] = Closed]
    BY <1>2 DEF Redirect, Close
  <2> QED
    BY <2>1, <2>2, Numbers DEF Tables, OnlyFiles
<1> QED
  BY <1>1, <1>2

LEMMA RedirectedTypes ==
  ASSUME NEW t \in Tables, NEW streams \in Streams \cup {<<>>}
  PROVE  /\ Redirected(t, streams).table \in Tables
         /\ \A n \in Fd \ Client : Redirected(t, streams).table[n] = t[n]
         /\ OnlyFiles(t) => OnlyFiles(Redirected(t, streams).table)
<1> DEFINE a == [ok |-> TRUE, table |-> t]
           b == Redirect(a, 0, streams)
           c == Redirect(b, 1, streams)
           d == Redirect(c, 2, streams)
<1>1. a.table = t /\ {0, 1, 2} \subseteq Std /\ Redirected(t, streams) = d
  BY DEF Redirected, Std
<1> HIDE DEF a, b, c, d
<1>2. /\ b.table \in Tables /\ \A n \in Fd \ Client : b.table[n] = t[n]
      /\ OnlyFiles(t) => OnlyFiles(b.table)
  BY <1>1, RedirectTypes DEF b
<1>3. /\ c.table \in Tables /\ \A n \in Fd \ Client : c.table[n] = t[n]
      /\ OnlyFiles(t) => OnlyFiles(c.table)
  BY <1>1, <1>2, RedirectTypes DEF c
<1>4. /\ d.table \in Tables /\ \A n \in Fd \ Client : d.table[n] = t[n]
      /\ OnlyFiles(t) => OnlyFiles(d.table)
  BY <1>1, <1>3, RedirectTypes DEF d
<1> QED
  BY <1>1, <1>4

\* MemoryListener's close in the child, and exec.
LEMMA ChildTables ==
  ASSUME TypeOK, NEW j \in Jails, NEW t \in Tables
  PROVE  ClosePipe(j, t) \in Tables /\ CloseOnExec(t) \in Tables
<1>1. ClosePipe(j, t) \in Tables
  BY Numbers DEF ClosePipe, Close, Tables
<1> QED
  BY <1>1, Numbers DEF CloseOnExec, Tables

-----------------------------------------------------------------------------
(* Type correctness.                                                       *)

LEMMA JailTypes ==
  ASSUME NEW features \in SUBSET {"PERF", "MEMORY"}, NEW streams \in Streams \cup {<<>>},
         NEW read \in Fd \cup {None}, NEW write \in Fd \cup {None}
  PROVE  NewJail(features, streams, read, write) \in Jail
BY DEF NewJail, Jail

\* The three updates of a jail's descriptors, and what they leave alone.
WithPid(r, n) == [r EXCEPT !.pid_fd = n]
WithPerf(r, n) == [r EXCEPT !.perf_fd = n]
WithClosed(r) == [r EXCEPT !.closed = TRUE]

SamePipe(q, r) ==
  q.features = r.features /\ q.streams = r.streams /\ q.read = r.read /\ q.write = r.write

LEMMA JailFields ==
  ASSUME NEW r \in Jail, NEW n \in Fd
  PROVE  /\ WithPid(r, n) \in Jail /\ WithPerf(r, n) \in Jail /\ WithClosed(r) \in Jail
         /\ SamePipe(WithPid(r, n), r) /\ SamePipe(WithPerf(r, n), r) /\ SamePipe(WithClosed(r), r)
         /\ WithPid(r, n).pid_fd = n /\ WithPid(r, n).perf_fd = r.perf_fd
         /\ WithPerf(r, n).perf_fd = n /\ WithPerf(r, n).pid_fd = r.pid_fd
         /\ WithClosed(r).pid_fd = r.pid_fd /\ WithClosed(r).perf_fd = r.perf_fd
         /\ WithPid(r, n).closed <=> r.closed
         /\ WithPerf(r, n).closed <=> r.closed
         /\ WithClosed(r).closed
<1> USE DEF Jail, SamePipe
<1>1. WithPid(r, n) \in Jail /\ WithPerf(r, n) \in Jail
  BY DEF WithPid, WithPerf
<1>2. WithClosed(r) \in Jail
  BY DEF WithClosed
<1>3. /\ SamePipe(WithPid(r, n), r) /\ SamePipe(WithPerf(r, n), r) /\ SamePipe(WithClosed(r), r)
      /\ WithPid(r, n).pid_fd = n /\ WithPid(r, n).perf_fd = r.perf_fd
      /\ WithPerf(r, n).perf_fd = n /\ WithPerf(r, n).pid_fd = r.pid_fd
      /\ WithClosed(r).pid_fd = r.pid_fd /\ WithClosed(r).perf_fd = r.perf_fd
  BY DEF WithPid, WithPerf, WithClosed
<1>4. /\ WithPid(r, n).closed <=> r.closed
      /\ WithPerf(r, n).closed <=> r.closed
      /\ WithClosed(r).closed
  BY DEF WithPid, WithPerf, WithClosed
<1> QED
  BY <1>1, <1>2, <1>3, <1>4

\* The steps that open or close one of a jail's descriptors.
LEMMA JailSteps ==
  ASSUME TypeOK, NEW j \in Jails
  PROVE  /\ Clone(j) => \E n \in Fd : /\ Lowest(fds, n) /\ fds' = [fds EXCEPT ![n] = <<"pid", j>>]
                                     /\ jail' = [jail EXCEPT ![j] = WithPid(jail[j], n)]
         /\ RunPerf(j) =>
              \/ \E n \in Fd : /\ Lowest(fds, n) /\ fds' = [fds EXCEPT ![n] = <<"perf", j>>]
                              /\ jail' = [jail EXCEPT ![j] = WithPerf(jail[j], n)]
              \/ UNCHANGED <<fds, jail>>
         /\ RunPipe(j) =>
              \/ /\ Piped(j) /\ fds' = Close(fds, jail[j].write)
                 /\ jail' = [jail EXCEPT ![j] = WithClosed(jail[j])]
              \/ ~Piped(j) /\ UNCHANGED <<fds, jail>>
BY DEF Clone, RunPerf, RunPipe, WithPid, WithPerf, WithClosed, Piped

LEMMA FdTypeNext == TypeOK /\ [Next]_vars => TypeOK'
<1> SUFFICES ASSUME TypeOK, [Next]_vars PROVE TypeOK'
  OBVIOUS
<1> USE DEF TypeOK, Goto
<1>1. ASSUME NEW j \in Jails, NewListeners(j) PROVE TypeOK'
  <2>1. fds' \in Tables
    <3>1. <<"read", j>> \in Objects /\ <<"write", j>> \in Objects
      BY DEF Objects, Ends
    <3> QED
      BY <1>1, <3>1 DEF NewListeners, Tables
  <2>2. jail' \in [Jails -> Jail]
    <3>1. \E r \in Jail : jail' = [jail EXCEPT ![j] = r]
      BY <1>1, JailTypes DEF NewListeners
    <3> QED
      BY <3>1
  <2> QED
    BY <1>1, <2>1, <2>2 DEF NewListeners, Stages
<1>2. ASSUME NEW j \in Jails, Clone(j) PROVE TypeOK'
  <2>1. fds' \in Tables
    <3>1. <<"pid", j>> \in Objects
      BY DEF Objects, Ends
    <3> QED
      BY <1>2, <3>1 DEF Clone, Tables
  <2>2. jail' \in [Jails -> Jail]
    <3>1. \E r \in Jail : jail' = [jail EXCEPT ![j] = r]
      BY <1>2, JailSteps, JailFields
    <3> QED
      BY <3>1
  <2> QED
    BY <1>2, <2>1, <2>2 DEF Clone, Stages
<1>3. ASSUME NEW j \in Jails, SpawnReturns(j) \/ RunLoop(j) \/ RunFails(j) \/ RunEnds(j)
      PROVE  TypeOK'
  BY <1>3 DEF SpawnReturns, RunLoop, RunFails, RunEnds, Stages
<1>4. ASSUME NEW j \in Jails, ChildSetup(j) PROVE TypeOK'
  <2> DEFINE r == Redirected(ClosePipe(j, table[j]), jail[j].streams)
  <2>1. r.table \in Tables
    BY RedirectedTypes, ChildTables DEF Jail
  <2>2. /\ child' = [child EXCEPT ![j] = IF r.ok THEN "ready" ELSE "dead"]
        /\ table' = [table EXCEPT ![j] = IF r.ok THEN r.table ELSE NoFds]
        /\ UNCHANGED <<fds, stage, jail>>
    BY <1>4 DEF ChildSetup
  <2> HIDE DEF r
  <2>3. table' \in [Jails -> Tables]
    BY <2>1, <2>2, Numbers
  <2> QED
    BY <2>2, <2>3
<1>5. ASSUME NEW j \in Jails, ChildExecs(j) PROVE TypeOK'
  BY <1>5, ChildTables DEF ChildExecs
<1>6. ASSUME NEW j \in Jails, ChildDies(j) PROVE TypeOK'
  BY <1>6, Numbers DEF ChildDies
<1>7. ASSUME NEW j \in Jails, RunPerf(j) PROVE TypeOK'
  <2>1. fds' \in Tables
    <3>1. <<"perf", j>> \in Objects
      BY DEF Objects, Ends
    <3> QED
      BY <1>7, <3>1 DEF RunPerf, Tables
  <2>2. jail' \in [Jails -> Jail]
    <3>1. jail[j] \in Jail
      OBVIOUS
    <3>2. ASSUME NEW n \in Fd, jail' = [jail EXCEPT ![j] = WithPerf(jail[j], n)]
          PROVE  jail' \in [Jails -> Jail]
      BY <3>1, <3>2, JailFields
    <3> QED
      BY <1>7, <3>2, JailSteps
  <2> QED
    BY <1>7, <2>1, <2>2 DEF RunPerf, Stages
<1>8. ASSUME NEW j \in Jails, RunPipe(j) PROVE TypeOK'
  <2>1. fds' \in Tables
    BY <1>8, Numbers DEF RunPipe, Tables, Close
  <2>2. jail' \in [Jails -> Jail]
    <3>1. jail' = jail \/ \E r \in Jail : jail' = [jail EXCEPT ![j] = r]
      BY <1>8, JailSteps, JailFields, Numbers
    <3> QED
      BY <3>1
  <2> QED
    BY <1>8, <2>1, <2>2 DEF RunPipe, Stages
<1>9. ASSUME NEW j \in Jails, Drop(j) PROVE TypeOK'
  <2>1. fds' \in Tables
    BY <1>9, Numbers DEF Drop, Tables
  <2> QED
    BY <1>9, <2>1 DEF Drop, Stages
<1>10. CASE UNCHANGED vars
  BY <1>10 DEF vars
<1> QED
  BY <1>1, <1>2, <1>3, <1>4, <1>5, <1>6, <1>7, <1>8, <1>9, <1>10 DEF Next

-----------------------------------------------------------------------------
(* The numbers of a jail.                                                  *)

LEMMA NewJailFields ==
  ASSUME NEW features, NEW streams, NEW read, NEW write
  PROVE  /\ NewJail(features, streams, read, write).features = features
         /\ NewJail(features, streams, read, write).streams = streams
         /\ NewJail(features, streams, read, write).read = read
         /\ NewJail(features, streams, read, write).write = write
         /\ NewJail(features, streams, read, write).pid_fd = None
         /\ NewJail(features, streams, read, write).perf_fd = None
         /\ ~NewJail(features, streams, read, write).closed
BY DEF NewJail

\* A new number is not one of the client's.
LEMMA LowestFree ==
  ASSUME Ledger, NEW n, Lowest(fds, n)
  PROVE  n \in Fd \ Client /\ fds[n] = Closed
BY DEF Ledger, Lowest, Open, Closed

\* MemoryListener::new gets two.
LEMMA NewPipe ==
  ASSUME TypeOK, Ledger, NEW j \in Jails, NewListeners(j)
  PROVE  \E features \in SUBSET {"PERF", "MEMORY"}, streams \in Streams :
           \/ /\ "MEMORY" \in features
              /\ \E read, write \in Fd \ Client :
                   /\ read # write /\ fds[read] = Closed /\ fds[write] = Closed
                   /\ fds' = [fds EXCEPT ![read] = <<"read", j>>, ![write] = <<"write", j>>]
                   /\ jail' = [jail EXCEPT ![j] = NewJail(features, streams, read, write)]
           \/ /\ "MEMORY" \notin features
              /\ jail' = [jail EXCEPT ![j] = NewJail(features, streams, None, None)]
              /\ UNCHANGED fds
<1>1. ASSUME NEW read \in Fd, NEW write \in Fd, Lowest(fds, read),
             Lowest([fds EXCEPT ![read] = <<"read", j>>], write)
      PROVE  /\ read \in Fd \ Client /\ write \in Fd \ Client /\ read # write
             /\ fds[read] = Closed /\ fds[write] = Closed
  <2>1. read \in Fd \ Client /\ fds[read] = Closed
    BY <1>1, LowestFree
  <2>2. [fds EXCEPT ![read] = <<"read", j>>][write] = Closed
    BY <1>1 DEF Lowest, Open
  <2>3. write # read /\ fds[write] = Closed
    BY <2>2 DEF TypeOK, Tables, Closed
  <2>4. write \notin Client
    BY <2>3 DEF Ledger, Closed
  <2> QED
    BY <2>1, <2>3, <2>4
<1> QED
  BY <1>1 DEF NewListeners

LEMMA ProgressNext == TypeOK /\ Ledger /\ Progress /\ [Next]_vars => Progress'
<1> SUFFICES ASSUME TypeOK, Ledger, Progress, [Next]_vars PROVE Progress'
  OBVIOUS
<1>t. /\ stage \in [Jails -> Stages] /\ jail \in [Jails -> Jail]
      /\ child \in [Jails -> {"none", "setup", "ready", "program", "dead"}]
  BY DEF TypeOK
<1> USE DEF Goto
<1>1. ASSUME NEW j \in Jails, NewListeners(j) PROVE Progress'
  <2>1. /\ stage[j] = "new" /\ stage' = [stage EXCEPT ![j] = "listeners"] /\ child' = child
    BY <1>1 DEF NewListeners
  <2>2. /\ jail'[j].pid_fd = None /\ jail'[j].perf_fd = None /\ ~jail'[j].closed
        /\ Piped(j)' => /\ jail'[j].read \in Fd \ Client
                        /\ jail'[j].write \in Fd \ Client
                        /\ jail'[j].read # jail'[j].write
        /\ ~Piped(j)' => jail'[j].read = None /\ jail'[j].write = None
    BY <1>1, <1>t, NewPipe, NewJailFields DEF Piped
  <2>3. \A k \in Jails \ {j} : jail'[k] = jail[k]
    BY <1>1, <1>t, NewPipe
  <2> QED
    BY <2>1, <2>2, <2>3, <1>t DEF Progress, Piped
<1>2. ASSUME NEW j \in Jails, Clone(j) PROVE Progress'
  <2>1. PICK n \in Fd : jail' = [jail EXCEPT ![j] = WithPid(jail[j], n)]
    BY <1>2, JailSteps
  <2>2. /\ SamePipe(jail'[j], jail[j]) /\ jail'[j].perf_fd = jail[j].perf_fd
        /\ jail'[j].closed <=> jail[j].closed
        /\ \A k \in Jails \ {j} : jail'[k] = jail[k]
    BY <2>1, <1>t, JailFields
  <2>3. /\ stage[j] = "listeners" /\ stage' = [stage EXCEPT ![j] = "cloned"]
        /\ \A k \in Jails \ {j} : child'[k] = child[k]
    BY <1>2, <1>t DEF Clone
  <2> QED
    BY <2>2, <2>3, <1>t DEF Progress, Piped, SamePipe
<1>3. ASSUME NEW j \in Jails, SpawnReturns(j) \/ RunLoop(j) \/ RunFails(j) \/ RunEnds(j)
      PROVE  Progress'
  BY <1>3, <1>t DEF Progress, Piped, SpawnReturns, RunLoop, RunFails, RunEnds
<1>4. ASSUME NEW j \in Jails, ChildSetup(j) \/ ChildExecs(j) \/ ChildDies(j) PROVE Progress'
  <2>1. /\ child[j] # "none" /\ UNCHANGED <<stage, jail>>
        /\ \A k \in Jails \ {j} : child'[k] = child[k]
    BY <1>4, <1>t DEF ChildSetup, ChildExecs, ChildDies
  <2> QED
    BY <2>1 DEF Progress, Piped
<1>5. ASSUME NEW j \in Jails, RunPerf(j) PROVE Progress'
  <2>1. /\ SamePipe(jail'[j], jail[j]) /\ jail'[j].pid_fd = jail[j].pid_fd
        /\ jail'[j].closed <=> jail[j].closed
        /\ \A k \in Jails \ {j} : jail'[k] = jail[k]
    <3>1. CASE \E n \in Fd : jail' = [jail EXCEPT ![j] = WithPerf(jail[j], n)]
      BY <3>1, <1>t, JailFields
    <3>2. CASE jail' = jail
      BY <3>2 DEF SamePipe
    <3> QED
      BY <1>5, <3>1, <3>2, JailSteps
  <2>2. stage[j] = "spawned" /\ stage' = [stage EXCEPT ![j] = "counted"] /\ child' = child
    BY <1>5 DEF RunPerf
  <2> QED
    BY <2>1, <2>2, <1>t DEF Progress, Piped, SamePipe
<1>6. ASSUME NEW j \in Jails, RunPipe(j) PROVE Progress'
  <2>1. /\ SamePipe(jail'[j], jail[j]) /\ jail'[j].pid_fd = jail[j].pid_fd
        /\ Piped(j) => jail'[j].closed
        /\ \A k \in Jails \ {j} : jail'[k] = jail[k]
    BY <1>6, <1>t, JailSteps, JailFields, Numbers DEF SamePipe
  <2>2. stage[j] = "counted" /\ stage' = [stage EXCEPT ![j] = "piped"] /\ child' = child
    BY <1>6 DEF RunPipe
  <2> QED
    BY <2>1, <2>2, <1>t DEF Progress, Piped, SamePipe
<1>7. ASSUME NEW j \in Jails, Drop(j) PROVE Progress'
  BY <1>7, <1>t DEF Progress, Piped, Drop
<1>8. CASE UNCHANGED vars
  BY <1>8 DEF Progress, Piped, vars
<1> QED
  BY <1>1, <1>2, <1>3, <1>4, <1>5, <1>6, <1>7, <1>8 DEF Next

-----------------------------------------------------------------------------
(* The ledger.                                                             *)

LEMMA OwnedNumbers ==
  ASSUME NEW j \in Jails
  PROVE  /\ \A n \in Owned(j) : \E e \in Ends : Number(j, e) = n /\ n # None
         /\ \A e \in Ends : Number(j, e) # None => Number(j, e) \in Owned(j)
BY DEF Owned, Number, Ends

LEMMA NumberTypes ==
  ASSUME TypeOK, NEW j \in Jails, NEW e \in Ends
  PROVE  Number(j, e) \in Fd \cup {None}
BY DEF TypeOK, Jail, Number, Ends

\* What a jail's numbers are taken from.
LEMMA NumberSame ==
  ASSUME NEW j \in Jails, jail'[j] = jail[j], NEW e \in Ends
  PROVE  Number(j, e)' = Number(j, e)
BY DEF Number

\* A free number is entered for a live jail's end that has none.
LEMMA LedgerOpens ==
  ASSUME TypeOK, Ledger, NEW j \in Jails, NEW e \in Ends, NEW n \in Fd \ Client,
         fds[n] = Closed, fds' = [fds EXCEPT ![n] = <<e, j>>],
         Live(j), Number(j, e) = None, Number(j, e)' = n,
         \A f \in Ends \ {e} : Number(j, f)' = Number(j, f),
         \A k \in Jails \ {j}, f \in Ends : Number(k, f)' = Number(k, f),
         \A k \in Jails : Live(k)' <=> Live(k)
  PROVE  Ledger'
<1>t. fds \in Tables /\ None \notin Fd /\ Client \subseteq Fd
  BY Numbers DEF TypeOK
<1>1. \A c \in Client : fds'[c] = <<"file", c>>
  BY <1>t DEF Ledger, Tables
<1>2. \A m \in Fd \ Client : fds'[m] \in {Closed} \cup (Ends \X Jails)
  BY <1>t DEF Ledger, Tables
<1>3. ASSUME NEW m \in Fd, NEW f \in Ends, NEW k \in Jails, fds'[m] = <<f, k>>
      PROVE  Live(k)' /\ Number(k, f)' = m
  <2>1. CASE m = n
    <3>1. f = e /\ k = j
      BY <1>3, <2>1, <1>t DEF Tables
    <3> QED
      BY <2>1, <3>1
  <2>2. CASE m # n
    <3>1. fds[m] = <<f, k>>
      BY <1>3, <2>2, <1>t DEF Tables
    <3>2. Live(k) /\ Number(k, f) = m
      BY <3>1 DEF Ledger
    <3>3. f # e \/ k # j
      BY <3>2, <1>t
    <3> QED
      BY <3>2, <3>3
  <2> QED
    BY <2>1, <2>2
<1>4. ASSUME NEW k \in Jails, NEW f \in Ends, Live(k)', Number(k, f)' # None
      PROVE  fds'[Number(k, f)'] = <<f, k>>
  <2>1. CASE k = j /\ f = e
    BY <2>1, <1>t DEF Tables
  <2>2. CASE ~(k = j /\ f = e)
    <3>1. Number(k, f)' = Number(k, f) /\ Live(k)
      BY <1>4, <2>2
    <3>2. fds[Number(k, f)] = <<f, k>> /\ Number(k, f) \in Fd
      BY <1>4, <3>1, NumberTypes DEF Ledger
    <3>3. Number(k, f) # n
      BY <3>2 DEF Closed, Ends
    <3> QED
      BY <3>1, <3>2, <3>3, <1>t DEF Tables
  <2> QED
    BY <2>1, <2>2
<1> QED
  BY <1>1, <1>2, <1>3, <1>4 DEF Ledger

\* Numbers are entered and struck out together with what they stand for.
LEMMA LedgerNext == TypeOK /\ Ledger /\ Progress /\ [Next]_vars => Ledger'
<1> SUFFICES ASSUME TypeOK, Ledger, Progress, [Next]_vars PROVE Ledger'
  OBVIOUS
<1>t. /\ stage \in [Jails -> Stages] /\ jail \in [Jails -> Jail] /\ fds \in Tables
      /\ None \notin Fd /\ Client \subseteq Fd
  BY Numbers DEF TypeOK
<1> USE DEF Goto
<1>1. ASSUME NEW j \in Jails, NewListeners(j) PROVE Ledger'
  <2>1. stage[j] = "new" /\ stage' = [stage EXCEPT ![j] = "listeners"]
    BY <1>1 DEF NewListeners
  <2>2. /\ ~Live(j) /\ Live(j)' /\ \A k \in Jails \ {j} : Live(k)' <=> Live(k)
    BY <2>1, <1>t DEF Live
  <2>3. \A k \in Jails \ {j}, e \in Ends : Number(k, e)' = Number(k, e)
    <3>1. \A k \in Jails \ {j} : jail'[k] = jail[k]
      BY <1>1, <1>t, NewPipe
    <3> QED
      BY <3>1, NumberSame
  <2>4. \A n \in Fd, e \in Ends : fds[n] # <<e, j>>
    BY <2>2 DEF Ledger
  <2>5. ASSUME NEW read \in Fd \ Client, NEW write \in Fd \ Client, read # write,
               fds[read] = Closed, fds[write] = Closed,
               fds' = [fds EXCEPT ![read] = <<"read", j>>, ![write] = <<"write", j>>],
               Number(j, "read")' = read, Number(j, "write")' = write,
               Number(j, "pid")' = None, Number(j, "perf")' = None
        PROVE  Ledger'
    <3>1. /\ fds'[read] = <<"read", j>> /\ fds'[write] = <<"write", j>>
          /\ \A n \in Fd \ {read, write} : fds'[n] = fds[n]
      BY <2>5, <1>t DEF Tables
    <3>2. \A c \in Client : fds'[c] = <<"file", c>>
      BY <2>5, <3>1, <1>t DEF Ledger
    <3>3. \A m \in Fd \ Client : fds'[m] \in {Closed} \cup (Ends \X Jails)
      BY <3>1 DEF Ledger, Ends
    <3>4. ASSUME NEW m \in Fd, NEW f \in Ends, NEW k \in Jails, fds'[m] = <<f, k>>
          PROVE  Live(k)' /\ Number(k, f)' = m
      <4>1. CASE m \in {read, write}
        BY <4>1, <3>1, <3>4, <2>2, <2>5
      <4>2. CASE m \notin {read, write}
        BY <4>2, <3>1, <3>4, <2>2, <2>3, <2>4 DEF Ledger
      <4> QED
        BY <4>1, <4>2
    <3>5. ASSUME NEW k \in Jails, NEW f \in Ends, Live(k)', Number(k, f)' # None
          PROVE  fds'[Number(k, f)'] = <<f, k>>
      <4>1. CASE k = j
        BY <4>1, <3>1, <3>5, <2>5 DEF Ends
      <4>2. CASE k # j
        <5>1. fds[Number(k, f)] = <<f, k>> /\ Number(k, f) \in Fd
          BY <4>2, <3>5, <2>2, <2>3, NumberTypes DEF Ledger
        <5>2. Number(k, f) \notin {read, write}
          BY <5>1, <2>5 DEF Closed, Ends
        <5> QED
          BY <4>2, <5>1, <5>2, <3>1, <2>3
      <4> QED
        BY <4>1, <4>2
    <3> QED
      BY <3>2, <3>3, <3>4, <3>5 DEF Ledger
  <2>6. ASSUME UNCHANGED fds, \A e \in Ends : Number(j, e)' = None
        PROVE  Ledger'
    BY <2>6, <2>2, <2>3, <2>4 DEF Ledger
  <2>7. PICK features \in SUBSET {"PERF", "MEMORY"}, streams \in Streams :
           \/ /\ "MEMORY" \in features
              /\ \E read, write \in Fd \ Client :
                   /\ read # write /\ fds[read] = Closed /\ fds[write] = Closed
                   /\ fds' = [fds EXCEPT ![read] = <<"read", j>>, ![write] = <<"write", j>>]
                   /\ jail' = [jail EXCEPT ![j] = NewJail(features, streams, read, write)]
           \/ /\ "MEMORY" \notin features
              /\ jail' = [jail EXCEPT ![j] = NewJail(features, streams, None, None)]
              /\ UNCHANGED fds
    BY <1>1, NewPipe
  <2>8. ASSUME NEW read, NEW write,
               jail' = [jail EXCEPT ![j] = NewJail(features, streams, read, write)]
        PROVE  /\ Number(j, "read")' = read /\ Number(j, "write")' = write
               /\ Number(j, "pid")' = None /\ Number(j, "perf")' = None
    <3>1. jail'[j] = NewJail(features, streams, read, write)
      BY <2>8, <1>t
    <3> QED
      BY <3>1, NewJailFields DEF Number
  <2> QED
    BY <2>5, <2>6, <2>7, <2>8 DEF Ends
<1>2. ASSUME NEW j \in Jails, Clone(j) PROVE Ledger'
  <2>1. PICK n \in Fd : /\ Lowest(fds, n) /\ fds' = [fds EXCEPT ![n] = <<"pid", j>>]
                        /\ jail' = [jail EXCEPT ![j] = WithPid(jail[j], n)]
    BY <1>2, JailSteps
  <2>2. n \in Fd \ Client /\ fds[n] = Closed
    BY <2>1, LowestFree
  <2>3. stage[j] = "listeners" /\ stage' = [stage EXCEPT ![j] = "cloned"]
    BY <1>2 DEF Clone
  <2>4. Live(j) /\ \A k \in Jails : Live(k)' <=> Live(k)
    BY <2>3, <1>t DEF Live
  <2>5. jail'[j] = WithPid(jail[j], n) /\ \A k \in Jails \ {j} : jail'[k] = jail[k]
    BY <2>1, <1>t
  <2>6. /\ Number(j, "pid") = None /\ Number(j, "pid")' = n
        /\ \A f \in Ends \ {"pid"} : Number(j, f)' = Number(j, f)
    <3>1. jail[j].pid_fd = None
      BY <2>3 DEF Progress
    <3>2. /\ jail'[j].pid_fd = n /\ jail'[j].perf_fd = jail[j].perf_fd
          /\ SamePipe(jail'[j], jail[j]) /\ (jail'[j].closed <=> jail[j].closed)
      BY <2>5, <1>t, JailFields
    <3> QED
      BY <3>1, <3>2 DEF Number, SamePipe, Ends
  <2>7. \A k \in Jails \ {j}, f \in Ends : Number(k, f)' = Number(k, f)
    BY <2>5, NumberSame
  <2>8. "pid" \in Ends
    BY DEF Ends
  <2> QED
    BY <2>1, <2>2, <2>4, <2>6, <2>7, <2>8, LedgerOpens
<1>3. ASSUME NEW j \in Jails,
             \/ SpawnReturns(j) \/ RunLoop(j) \/ RunFails(j) \/ RunEnds(j)
             \/ ChildSetup(j) \/ ChildExecs(j) \/ ChildDies(j)
      PROVE  Ledger'
  <2>1. UNCHANGED <<fds, jail>> /\ \A k \in Jails : Live(k)' <=> Live(k)
    BY <1>3, <1>t
    DEF SpawnReturns, RunLoop, RunFails, RunEnds, ChildSetup, ChildExecs, ChildDies, Live
  <2> QED
    BY <2>1 DEF Ledger, Number
<1>4. ASSUME NEW j \in Jails, RunPerf(j) PROVE Ledger'
  <2>3. stage[j] = "spawned" /\ stage' = [stage EXCEPT ![j] = "counted"]
    BY <1>4 DEF RunPerf
  <2>4. Live(j) /\ \A k \in Jails : Live(k)' <=> Live(k)
    BY <2>3, <1>t DEF Live
  <2>5. CASE UNCHANGED <<fds, jail>>
    BY <2>4, <2>5 DEF Ledger, Number
  <2>6. ASSUME NEW n \in Fd, Lowest(fds, n), fds' = [fds EXCEPT ![n] = <<"perf", j>>],
               jail' = [jail EXCEPT ![j] = WithPerf(jail[j], n)]
        PROVE  Ledger'
    <3>1. n \in Fd \ Client /\ fds[n] = Closed
      BY <2>6, LowestFree
    <3>2. jail'[j] = WithPerf(jail[j], n) /\ \A k \in Jails \ {j} : jail'[k] = jail[k]
      BY <2>6, <1>t
    <3>3. /\ Number(j, "perf") = None /\ Number(j, "perf")' = n
          /\ \A f \in Ends \ {"perf"} : Number(j, f)' = Number(j, f)
      <4>1. jail[j].perf_fd = None
        BY <2>3 DEF Progress
      <4>2. /\ jail'[j].perf_fd = n /\ jail'[j].pid_fd = jail[j].pid_fd
            /\ SamePipe(jail'[j], jail[j]) /\ (jail'[j].closed <=> jail[j].closed)
        BY <3>2, <1>t, JailFields
      <4> QED
        BY <4>1, <4>2 DEF Number, SamePipe, Ends
    <3>4. \A k \in Jails \ {j}, f \in Ends : Number(k, f)' = Number(k, f)
      BY <3>2, NumberSame
    <3>5. "perf" \in Ends
      BY DEF Ends
    <3> QED
      BY <2>4, <2>6, <3>1, <3>3, <3>4, <3>5, LedgerOpens
  <2> QED
    BY <1>4, <2>5, <2>6, JailSteps
<1>5. ASSUME NEW j \in Jails, RunPipe(j) PROVE Ledger'
  <2>1. stage[j] = "counted" /\ stage' = [stage EXCEPT ![j] = "piped"]
    BY <1>5 DEF RunPipe
  <2>2. Live(j) /\ \A k \in Jails : Live(k)' <=> Live(k)
    BY <2>1, <1>t DEF Live
  <2>3. CASE UNCHANGED <<fds, jail>>
    BY <2>2, <2>3 DEF Ledger, Number
  <2>4. ASSUME Piped(j), fds' = Close(fds, jail[j].write),
               jail' = [jail EXCEPT ![j] = WithClosed(jail[j])]
        PROVE  Ledger'
    <3> DEFINE n == jail[j].write
    <3>1. n \in Fd \ Client /\ Number(j, "write") = n
      BY <2>1, <2>4 DEF Progress, Number
    <3>2. fds'[n] = Closed /\ \A m \in Fd \ {n} : fds'[m] = fds[m]
      BY <2>4, <3>1, <1>t DEF Close, Tables
    <3> HIDE DEF n
    <3>3. jail'[j] = WithClosed(jail[j]) /\ \A k \in Jails \ {j} : jail'[k] = jail[k]
      BY <2>4, <1>t
    <3>4. /\ Number(j, "write")' = None
          /\ \A f \in Ends \ {"write"} : Number(j, f)' = Number(j, f)
      BY <3>3, <1>t, JailFields, Numbers DEF Number, SamePipe, Ends
    <3>5. \A k \in Jails \ {j}, f \in Ends : Number(k, f)' = Number(k, f)
      BY <3>3, NumberSame
    <3>6. fds[n] = <<"write", j>>
      BY <2>2, <3>1, <1>t DEF Ledger, Ends
    <3>7. \A c \in Client : fds'[c] = <<"file", c>>
      BY <3>1, <3>2, <1>t DEF Ledger
    <3>8. \A m \in Fd \ Client : fds'[m] \in {Closed} \cup (Ends \X Jails)
      BY <3>2 DEF Ledger
    <3>9. ASSUME NEW m \in Fd, NEW f \in Ends, NEW k \in Jails, fds'[m] = <<f, k>>
          PROVE  Live(k)' /\ Number(k, f)' = m
      <4>1. m # n
        BY <3>2, <3>9 DEF Closed, Ends
      <4>2. fds[m] = <<f, k>>
        BY <4>1, <3>2, <3>9
      <4>3. Live(k) /\ Number(k, f) = m
        BY <4>2 DEF Ledger
      <4>4. k # j \/ f # "write"
        BY <4>1, <4>3, <3>1
      <4> QED
        BY <4>3, <4>4, <3>4, <3>5, <2>2
    <3>10. ASSUME NEW k \in Jails, NEW f \in Ends, Live(k)', Number(k, f)' # None
           PROVE  fds'[Number(k, f)'] = <<f, k>>
      <4>1. Number(k, f)' = Number(k, f) /\ (k # j \/ f # "write")
        BY <3>4, <3>5, <3>10
      <4>2. fds[Number(k, f)] = <<f, k>> /\ Number(k, f) \in Fd
        BY <4>1, <3>10, <2>2, NumberTypes DEF Ledger
      <4>3. Number(k, f) # n
        BY <4>1, <4>2, <3>6
      <4> QED
        BY <4>1, <4>2, <4>3, <3>2
    <3> QED
      BY <3>7, <3>8, <3>9, <3>10 DEF Ledger
  <2> QED
    BY <1>5, <2>3, <2>4, JailSteps
<1>6. ASSUME NEW j \in Jails, Drop(j) PROVE Ledger'
  <2>1. /\ stage[j] \in {"listeners", "spawned", "over", "failed"}
        /\ stage' = [stage EXCEPT ![j] = "dropped"] /\ jail' = jail
        /\ \A n \in Fd : fds'[n] = IF n \in Owned(j) THEN Closed ELSE fds[n]
    BY <1>6 DEF Drop
  <2>2. Live(j) /\ ~Live(j)' /\ \A k \in Jails \ {j} : Live(k)' <=> Live(k)
    BY <2>1, <1>t DEF Live
  <2>3. \A k \in Jails, f \in Ends : Number(k, f)' = Number(k, f)
    BY <2>1 DEF Number
  <2>4. \A n \in Owned(j) : \E e \in Ends : fds[n] = <<e, j>>
    BY <2>2, OwnedNumbers DEF Ledger
  <2>5. \A c \in Client : fds'[c] = <<"file", c>>
    BY <2>1, <2>4, <1>t DEF Ledger, Ends
  <2>6. \A m \in Fd \ Client : fds'[m] \in {Closed} \cup (Ends \X Jails)
    BY <2>1 DEF Ledger
  <2>7. ASSUME NEW m \in Fd, NEW f \in Ends, NEW k \in Jails, fds'[m] = <<f, k>>
        PROVE  Live(k)' /\ Number(k, f)' = m
    <3>1. m \notin Owned(j)
      BY <2>1, <2>7 DEF Closed, Ends
    <3>2. fds[m] = <<f, k>>
      BY <3>1, <2>1, <2>7
    <3>3. Live(k) /\ Number(k, f) = m
      BY <3>2 DEF Ledger
    <3>4. k # j
      BY <3>1, <3>3, <1>t, OwnedNumbers
    <3> QED
      BY <3>3, <3>4, <2>2, <2>3
  <2>8. ASSUME NEW k \in Jails, NEW f \in Ends, Live(k)', Number(k, f)' # None
        PROVE  fds'[Number(k, f)'] = <<f, k>>
    <3>1. k # j /\ Live(k)
      BY <2>2, <2>8
    <3>2. fds[Number(k, f)] = <<f, k>> /\ Number(k, f) \in Fd
      BY <3>1, <2>3, <2>8, NumberTypes DEF Ledger
    <3>3. Number(k, f) \notin Owned(j)
      BY <3>1, <3>2, <2>4
    <3> QED
      BY <3>2, <3>3, <2>1, <2>3
  <2> QED
    BY <2>5, <2>6, <2>7, <2>8 DEF Ledger
<1>7. CASE UNCHANGED vars
  BY <1>7 DEF Ledger, Live, Number, vars
<1> QED
  BY <1>1, <1>2, <1>3, <1>4, <1>5, <1>6, <1>7 DEF Next

-----------------------------------------------------------------------------
(* The child's copy of the table.                                          *)

\* The streams below i are redirected.
Done(state, streams, i) ==
  /\ state.ok /\ state.table \in Tables
  /\ \A n \in Client : state.table[n] = Left(streams, i, n)

\* One stream more: streams that do not clash are not in each other's way.
LEMMA RedirectClean ==
  ASSUME NEW streams \in Streams \cup {<<>>}, Clean(streams), NEW i \in Std,
         NEW state, Done(state, streams, i)
  PROVE  Done(Redirect(state, i, streams), streams, i + 1)
<1>s. /\ Std \subseteq Client /\ Client \subseteq Fd
      /\ \A n \in Client : n \in Int /\ (n < i + 1 <=> n < i \/ n = i)
      /\ \A n \in DOMAIN streams : n \in Std /\ streams[n] \in Client \ Std
  <2>1. \A n \in DOMAIN streams : n \in Std /\ streams[n] \in Client \ Std
    BY StreamTypes DEF Clean
  <2>2. \A n \in Client : n \in Int
    BY DescriptorsAssumption DEF Client, Std
  <2>3. i \in Int
    BY DEF Std
  <2> QED
    BY <2>1, <2>2, <2>3, Numbers DEF Client
<1>1. CASE i \notin DOMAIN streams
  <2>1. Redirect(state, i, streams) = state
    BY <1>1 DEF Redirect
  <2>2. \A m \in DOMAIN streams : m < i + 1 <=> m < i
    BY <1>1, <1>s
  <2>3. \A n \in Client : Left(streams, i + 1, n) = Left(streams, i, n)
    BY <2>2 DEF Left
  <2> QED
    BY <2>1, <2>3 DEF Done
<1>2. CASE i \in DOMAIN streams
  <2> DEFINE fd == streams[i]
             q == Redirect(state, i, streams)
  <2>1. fd \in Client /\ fd \in Fd /\ fd \notin Std
    BY <1>2, <1>s
  <2>2. /\ \A m \in DOMAIN streams : streams[m] = fd => m = i
        /\ ~(i < i) /\ i < i + 1
    BY <1>2 DEF Clean, Std
  <2>3. state.ok /\ state.table \in Tables /\ state.table[fd] = <<"file", fd>>
    <3>1. Left(streams, i, fd) = <<"file", fd>>
      BY <2>1, <2>2, <1>s DEF Left
    <3> QED
      BY <2>1, <3>1 DEF Done
  <2>4. fd \in Open(state.table)
    BY <2>1, <2>3 DEF Open, Closed
  <2>5. q = [ok |-> TRUE, table |-> Close([state.table EXCEPT ![i] = state.table[fd]], fd)]
    <3>1. (fd \in Open(state.table)) = TRUE
      BY <2>4
    <3>2. q = [ok |-> fd \in Open(state.table),
               table |-> Close([state.table EXCEPT ![i] = state.table[fd]], fd)]
      BY <1>2, <2>3 DEF Redirect
    <3> QED
      BY <3>1, <3>2, Zenon
  <2>6. q.ok /\ q.table = [[state.table EXCEPT ![i] = state.table[fd]] EXCEPT ![fd] = Closed]
    BY <2>5 DEF Close
  <2>7. /\ q.table \in Tables /\ q.table[i] = <<"file", fd>> /\ q.table[fd] = Closed
        /\ \A n \in Fd \ {i, fd} : q.table[n] = state.table[n]
    <3>1. i \in Fd /\ fd \in Fd /\ fd # i /\ Closed \in Objects
      BY <2>1, <1>s, Numbers
    <3>2. state.table \in [Fd -> Objects]
      BY <2>3 DEF Tables
    <3> HIDE DEF fd, q
    <3> QED
      BY <3>1, <3>2, <2>3, <2>6 DEF Tables
  <2>8. Left(streams, i + 1, i) = <<"file", fd>>
    BY <1>2, <2>2 DEF Left
  <2>9. Left(streams, i + 1, fd) = Closed
    BY <1>2, <2>1, <2>2, <1>s DEF Left
  <2>10. ASSUME NEW n \in Client, n # i, n # fd
         PROVE  Left(streams, i + 1, n) = Left(streams, i, n)
    <3>1. n < i + 1 <=> n < i
      BY <2>10, <1>s
    <3>2. (\E m \in DOMAIN streams : m < i + 1 /\ streams[m] = n)
            <=> (\E m \in DOMAIN streams : m < i /\ streams[m] = n)
      BY <2>10, <1>s
    <3> QED
      BY <3>1, <3>2 DEF Left
  <2> HIDE DEF fd, q
  <2>11. ASSUME NEW n \in Client PROVE q.table[n] = Left(streams, i + 1, n)
    <3>1. CASE n # i /\ n # fd
      BY <3>1, <2>7, <2>10, <1>s DEF Done
    <3> QED
      BY <3>1, <2>7, <2>8, <2>9
  <2> QED
    BY <2>6, <2>7, <2>11 DEF Done, q
<1> QED
  BY <1>1, <1>2

LEMMA RedirectedClean ==
  ASSUME NEW t \in Tables, \A n \in Client : t[n] = <<"file", n>>,
         NEW streams \in Streams \cup {<<>>}, Clean(streams)
  PROVE  /\ Redirected(t, streams).ok
         /\ \A n \in Client : Redirected(t, streams).table[n] = Left(streams, 3, n)
<1> DEFINE a == [ok |-> TRUE, table |-> t]
           b == Redirect(a, 0, streams)
           c == Redirect(b, 1, streams)
           d == Redirect(c, 2, streams)
<1>1. a.ok /\ a.table = t /\ Redirected(t, streams) = d
  BY DEF Redirected
<1>2. 0 \in Std /\ 1 \in Std /\ 2 \in Std /\ Std \subseteq Client
  BY DEF Std, Client
<1> HIDE DEF a, b, c, d
<1>3. Done(a, streams, 0)
  <2>1. \A m \in DOMAIN streams : ~(m < 0)
    BY StreamTypes DEF Std
  <2>2. \A n \in Client : Left(streams, 0, n) = <<"file", n>>
    BY <2>1 DEF Left
  <2> QED
    BY <1>1, <2>2 DEF Done
<1>4. Done(b, streams, 1)
  BY <1>2, <1>3, RedirectClean DEF b
<1>5. Done(c, streams, 2)
  BY <1>2, <1>4, RedirectClean DEF c
<1>6. Done(d, streams, 3)
  BY <1>2, <1>5, RedirectClean DEF d
<1> QED
  BY <1>1, <1>6 DEF Done, Std

-----------------------------------------------------------------------------
(* What is left in a child of the table it was cloned with.                *)

\* It is not touched by what the parent does, and nothing is left of it in the end.
LEMMA CopySame ==
  ASSUME NEW j \in Jails, Copy(j), child'[j] = child[j], table'[j] = table[j],
         SamePipe(jail'[j], jail[j])
  PROVE  Copy(j)'
BY DEF Copy, Piped, SamePipe

LEMMA CopyGone ==
  ASSUME NEW j \in Jails, child'[j] \in {"none", "dead"}, table'[j] = NoFds
  PROVE  Copy(j)'
BY Numbers DEF Copy, OnlyFiles, NoFds

\* The child's setup: it keeps its write end, and streams that do not clash are
\* the ones it was given.
LEMMA CopySetup ==
  ASSUME TypeOK, Progress, NEW j \in Jails, Copy(j), ChildSetup(j)
  PROVE  Copy(j)'
<1> DEFINE t == ClosePipe(j, table[j])
           r == Redirected(t, jail[j].streams)
<1>1. /\ child[j] = "setup" /\ jail' = jail
      /\ child'[j] = IF r.ok THEN "ready" ELSE "dead"
      /\ table'[j] = IF r.ok THEN r.table ELSE NoFds
  BY DEF ChildSetup, TypeOK
<1>2. table[j] \in Tables /\ jail[j] \in Jail /\ jail[j].streams \in Streams \cup {<<>>}
  BY DEF TypeOK, Jail
<1>3. t \in Tables
  BY <1>2, ChildTables
<1>4. stage[j] # "new"
  BY <1>1 DEF Progress
<1>5. /\ Piped(j) => jail[j].write \in Fd \ Client /\ t[jail[j].write] = <<"write", j>>
      /\ \A n \in Client : t[n] = <<"file", n>>
  <2>1. CASE Piped(j)
    <3>1. /\ t = [table[j] EXCEPT ![jail[j].read] = Closed] /\ jail[j].read # jail[j].write
          /\ jail[j].read \in Fd \ Client /\ jail[j].write \in Fd \ Client
      BY <2>1, <1>4 DEF ClosePipe, Close, Piped, Progress
    <3>2. table[j][jail[j].write] = <<"write", j>> /\ \A n \in Client : table[j][n] = <<"file", n>>
      BY <2>1, <1>1 DEF Copy
    <3> HIDE DEF t
    <3> QED
      BY <3>1, <3>2, <1>2, Numbers DEF Tables
  <2>2. CASE ~Piped(j)
    BY <2>2, <1>1 DEF ClosePipe, Piped, Copy
  <2> QED
    BY <2>1, <2>2
<1> HIDE DEF t
<1>6. OnlyFiles(t)
  BY <1>5, Numbers DEF OnlyFiles
<1>7. /\ OnlyFiles(r.table)
      /\ Piped(j) => r.table[jail[j].write] = <<"write", j>>
  BY <1>2, <1>3, <1>5, <1>6, RedirectedTypes
<1>8. Clean(jail[j].streams) =>
        \A n \in Client : r.table[n] = Left(jail[j].streams, 3, n)
  BY <1>2, <1>3, <1>5, RedirectedClean
<1> HIDE DEF r
<1>9. CASE r.ok
  <2>1. child'[j] = "ready" /\ table'[j] = r.table
    BY <1>1, <1>9
  <2> QED
    BY <2>1, <1>1, <1>7, <1>8 DEF Copy, Piped, Client
<1>10. CASE ~r.ok
  BY <1>1, <1>10, CopyGone
<1> QED
  BY <1>9, <1>10

LEMMA CopiesNext == TypeOK /\ Ledger /\ Progress /\ Copies /\ [Next]_vars => Copies'
<1> SUFFICES ASSUME TypeOK, Ledger, Progress, Copies, [Next]_vars, NEW k \in Jails PROVE Copy(k)'
  BY DEF Copies
<1>c. Copy(k)
  BY DEF Copies
<1>t. /\ fds \in Tables /\ jail \in [Jails -> Jail] /\ table \in [Jails -> Tables]
      /\ child \in [Jails -> {"none", "setup", "ready", "program", "dead"}]
  BY DEF TypeOK
<1> USE DEF Goto
<1>0. ASSUME NEW j \in Jails, k # j,
             child'[k] = child[k], table'[k] = table[k], jail'[k] = jail[k]
      PROVE  Copy(k)'
  BY <1>0, <1>c, CopySame DEF SamePipe
<1>1. ASSUME NEW j \in Jails, NewListeners(j) PROVE Copy(k)'
  <2>1. child' = child /\ table' = table /\ stage[j] = "new"
    BY <1>1 DEF NewListeners
  <2>2. CASE k = j
    <3>1. child[k] = "none" /\ table[k] = NoFds
      BY <2>1, <2>2, <1>c DEF Progress, Copy
    <3> QED
      BY <2>1, <3>1, CopyGone
  <2>3. CASE k # j
    BY <2>1, <2>3, <1>0, <1>1, <1>t, NewPipe
  <2> QED
    BY <2>2, <2>3
<1>2. ASSUME NEW j \in Jails, Clone(j) PROVE Copy(k)'
  <2>1. PICK n \in Fd : jail' = [jail EXCEPT ![j] = WithPid(jail[j], n)]
    BY <1>2, JailSteps
  <2>2. SamePipe(jail'[j], jail[j])
    BY <2>1, <1>t, JailFields
  <2>3. /\ child' = [child EXCEPT ![j] = "setup"] /\ table' = [table EXCEPT ![j] = fds]
        /\ stage[j] = "listeners"
    BY <1>2 DEF Clone
  <2>4. CASE k = j
    <3>1. child'[k] = "setup" /\ table'[k] = fds
      BY <2>3, <2>4, <1>t
    <3>2. \A c \in Client : fds[c] = <<"file", c>>
      BY DEF Ledger
    <3>3. Piped(k) => fds[jail[k].write] = <<"write", k>>
      <4>1. Live(k) /\ "write" \in Ends /\ ~jail[k].closed
        BY <2>3, <2>4 DEF Progress, Live, Ends
      <4>2. Number(k, "write") = jail[k].write
        BY <4>1 DEF Number
      <4>3. Piped(k) => jail[k].write # None
        BY <2>3, <2>4, Numbers DEF Progress
      <4> QED
        BY <4>1, <4>2, <4>3 DEF Ledger
    <3>4. OnlyFiles(fds)
      BY <3>2, Numbers DEF OnlyFiles
    <3> QED
      BY <2>2, <2>4, <3>1, <3>2, <3>3, <3>4 DEF Copy, Piped, SamePipe
  <2>5. CASE k # j
    BY <2>1, <2>3, <2>5, <1>0, <1>t
  <2> QED
    BY <2>4, <2>5
<1>3. ASSUME NEW j \in Jails,
             \/ SpawnReturns(j) \/ RunLoop(j) \/ RunFails(j) \/ RunEnds(j) \/ Drop(j)
             \/ UNCHANGED vars
      PROVE  Copy(k)'
  BY <1>3, <1>c, CopySame DEF SpawnReturns, RunLoop, RunFails, RunEnds, Drop, SamePipe, vars
<1>4. ASSUME NEW j \in Jails, ChildSetup(j) PROVE Copy(k)'
  <2>1. jail' = jail /\ \A i \in Jails \ {j} : child'[i] = child[i] /\ table'[i] = table[i]
    BY <1>4, <1>t DEF ChildSetup
  <2> QED
    BY <2>1, <1>c, <1>0, <1>4, CopySetup
<1>5. ASSUME NEW j \in Jails, ChildExecs(j) PROVE Copy(k)'
  <2>1. /\ child[j] = "ready" /\ jail' = jail /\ child' = [child EXCEPT ![j] = "program"]
        /\ table' = [table EXCEPT ![j] = CloseOnExec(table[j])]
    BY <1>5 DEF ChildExecs
  <2>2. CASE k = j
    <3>1. /\ child'[k] = "program"
          /\ \A n \in Fd : table'[k][n] = IF n \in Std \cup Inheritable THEN table[k][n] ELSE Closed
      BY <2>1, <2>2, <1>t DEF CloseOnExec
    <3>2. Inheritable \subseteq Files /\ Std \cup Inheritable \subseteq Fd
      BY DescriptorsAssumption, Numbers DEF Client
    <3> QED
      BY <2>1, <2>2, <3>1, <3>2, <1>c, Numbers DEF Copy, OnlyFiles, Piped
  <2>3. CASE k # j
    BY <2>1, <2>3, <1>0, <1>t
  <2> QED
    BY <2>2, <2>3
<1>6. ASSUME NEW j \in Jails, ChildDies(j) PROVE Copy(k)'
  <2>1. /\ jail' = jail /\ child' = [child EXCEPT ![j] = "dead"]
        /\ table' = [table EXCEPT ![j] = NoFds]
    BY <1>6 DEF ChildDies
  <2>2. CASE k = j
    BY <2>1, <2>2, <1>t, CopyGone
  <2>3. CASE k # j
    BY <2>1, <2>3, <1>0, <1>t
  <2> QED
    BY <2>2, <2>3
<1>7. ASSUME NEW j \in Jails, RunPerf(j) \/ RunPipe(j) PROVE Copy(k)'
  <2>1. child' = child /\ table' = table
    BY <1>7 DEF RunPerf, RunPipe
  <2>2. SamePipe(jail'[j], jail[j]) /\ \A i \in Jails \ {j} : jail'[i] = jail[i]
    <3>1. CASE RunPerf(j)
      BY <3>1, <1>t, JailSteps, JailFields DEF SamePipe
    <3>2. CASE RunPipe(j)
      BY <3>2, <1>t, JailSteps, JailFields, Numbers DEF SamePipe
    <3> QED
      BY <1>7, <3>1, <3>2
  <2> QED
    BY <2>1, <2>2, <1>c, <1>0, CopySame
<1> QED
  BY <1>1, <1>2, <1>3, <1>4, <1>5, <1>6, <1>7 DEF Next

-----------------------------------------------------------------------------
LEMMA InitFdInv == Init => FdInv
<1> SUFFICES ASSUME Init PROVE FdInv
  OBVIOUS
<1> DEFINE r == NewJail({}, <<>>, None, None)
<1>j. r \in Jail /\ r.features = {} /\ r.read = None /\ r.write = None
  BY JailTypes, NewJailFields
<1>i. /\ fds = Base /\ stage = [j \in Jails |-> "new"] /\ jail = [j \in Jails |-> r]
      /\ child = [j \in Jails |-> "none"] /\ table = [j \in Jails |-> NoFds]
  BY DEF Init
<1> HIDE DEF r
<1>1. ASSUME NEW j \in Jails
      PROVE  jail[j] = r /\ stage[j] = "new" /\ child[j] = "none" /\ table[j] = NoFds
  BY <1>i
<1>2. TypeOK
  BY <1>i, <1>j, Numbers DEF TypeOK, Stages
<1>3. Ledger
  <2>1. \A n \in Client : fds[n] = <<"file", n>>
    BY <1>i, Numbers DEF Base, Client
  <2>2. \A n \in Fd \ Client : fds[n] = Closed
    BY <1>i DEF Base, Client
  <2>3. \A n \in Fd, e \in Ends, j \in Jails : fds[n] # <<e, j>>
    BY <2>1, <2>2 DEF Closed, Ends
  <2> QED
    BY <1>1, <2>1, <2>2, <2>3 DEF Ledger, Live
<1>4. Progress
  <2> SUFFICES ASSUME NEW j \in Jails
               PROVE  child[j] = "none" /\ stage[j] = "new" /\ ~Piped(j)
                        /\ jail[j].read = None /\ jail[j].write = None
    BY DEF Progress
  <2>1. jail[j] = r /\ stage[j] = "new" /\ child[j] = "none"
    BY <1>1
  <2> QED
    BY <2>1, <1>j DEF Piped
<1>5. Copies
  <2> SUFFICES ASSUME NEW j \in Jails PROVE Copy(j)
    BY DEF Copies
  <2>1. child[j] = "none" /\ table[j] = NoFds
    BY <1>1
  <2> QED
    BY <2>1, Numbers DEF Copy, OnlyFiles, NoFds
<1> QED
  BY <1>2, <1>3, <1>4, <1>5 DEF FdInv

\* Whatever the jails of a process do, and in whichever order, every open
\* descriptor is the client's or one live jail's, under the number that jail
\* keeps, and each child holds its copy of the table as its stage says.
THEOREM FdInvariant == Spec => []FdInv
<1>1. FdInv /\ [Next]_vars => FdInv'
  BY FdTypeNext, LedgerNext, ProgressNext, CopiesNext DEF FdInv
<1> QED
  BY InitFdInv, <1>1, PTL DEF Spec

\* The tables, stages and jails have their types, and run never reaches its loop
\* with a child that has not passed child_ready_barrier.
THEOREM FdTypes == Spec => []TypeOK
<1>1. FdInv => TypeOK
  BY DEF FdInv
<1> QED
  BY <1>1, FdInvariant, PTL

\* was_exec_called holds in the loop only once the child runs the program or is
\* dead: until then the child's own copy of the write end is open.
THEOREM Peak == Spec => []PeakIsProgram
<1>1. FdInv => PeakIsProgram
  <2> SUFFICES ASSUME FdInv, NEW j \in Jails, stage[j] = "loop", Piped(j), was_exec_called(j)
               PROVE  child[j] \in {"program", "dead"}
    BY DEF PeakIsProgram, Piped
  <2>1. child[j] \in {"ready", "program", "dead"}
    BY DEF FdInv, TypeOK
  <2>2. child[j] # "ready"
    <3>1. SUFFICES ASSUME child[j] = "ready" PROVE FALSE
      OBVIOUS
    <3>2. table[j][jail[j].write] = <<"write", j>>
      BY <3>1 DEF FdInv, Copies, Copy
    <3>3. jail[j].write \in Fd
      BY DEF FdInv, Progress
    <3> QED
      BY <3>2, <3>3 DEF was_exec_called, Holds
  <2> QED
    BY <2>1, <2>2
<1> QED
  BY <1>1, FdInvariant, PTL

\* A program's exec goes unnoticed only because of a child of another jail,
\* cloned while the write end was open in the parent, that has not called exec.
THEOREM Blind == Spec => []BlindOnlyByOthers
<1>1. FdInv => BlindOnlyByOthers
  <2> SUFFICES ASSUME FdInv, NEW j \in Jails, stage[j] = "loop", child[j] = "program",
                      ~was_exec_called(j)
               PROVE  \E k \in Jails \ {j} :
                        child[k] \in {"setup", "ready"} /\ Holds(table[k], <<"write", j>>)
    BY DEF BlindOnlyByOthers
  <2>1. ~Holds(fds, <<"write", j>>)
    <3> SUFFICES ASSUME NEW n \in Fd, fds[n] = <<"write", j>> PROVE FALSE
      BY DEF Holds
    <3>1. Number(j, "write") = n /\ n # None
      BY Numbers DEF FdInv, Ledger, Ends
    <3>2. ~jail[j].closed /\ jail[j].write # None
      BY <3>1 DEF Number
    <3> QED
      BY <3>2 DEF FdInv, Progress
  <2>2. PICK k \in Jails : Holds(table[k], <<"write", j>>)
    BY <2>1 DEF was_exec_called
  <2>3. PICK n \in Fd : table[k][n] = <<"write", j>>
    BY <2>2 DEF Holds
  <2>4. n \notin Std \cup Inheritable
    <3>1. n \notin Client
      BY <2>3 DEF FdInv, Copies, Copy, OnlyFiles, Closed
    <3> QED
      BY <3>1, DescriptorsAssumption DEF Client
  <2>5. child[k] # "program"
    BY <2>3, <2>4 DEF FdInv, Copies, Copy, Closed
  <2>6. child[k] \notin {"none", "dead"}
    BY <2>3 DEF FdInv, Copies, Copy, NoFds, Closed
  <2>7. child[k] \in {"setup", "ready"}
    BY <2>5, <2>6 DEF FdInv, TypeOK
  <2> QED
    BY <2>2, <2>5, <2>7
<1> QED
  BY <1>1, FdInvariant, PTL

\* No descriptor leaks and none is closed twice or for another jail, although
\* every jail closes by number and numbers are reused.
THEOREM Accounted == Spec => []DescriptorsAccounted
<1>1. FdInv => DescriptorsAccounted
  <2> SUFFICES ASSUME FdInv PROVE DescriptorsAccounted
    OBVIOUS
  <2> DEFINE live == {j \in Jails : stage[j] \notin {"new", "dropped"}}
  <2>1. Open(Base) = Client /\ \A n \in Client : Base[n] = <<"file", n>>
    BY Numbers DEF Open, Base, Client, Closed
  <2>2. \A n \in Client : fds[n] = <<"file", n>>
    BY DEF FdInv, Ledger
  <2>3. ASSUME NEW j \in live, NEW n \in Owned(j)
        PROVE  n \in Fd /\ fds[n] \in Ends \X {j}
    <3>1. PICK e \in Ends : Number(j, e) = n /\ n # None
      BY OwnedNumbers
    <3>2. n \in Fd
      BY <3>1, NumberTypes DEF FdInv
    <3> QED
      BY <3>1, <3>2 DEF FdInv, Ledger, Live
  <2>4. \A n \in Open(fds) : n \in Client \/ \E j \in live : n \in Owned(j)
    <3> SUFFICES ASSUME NEW n \in Fd, fds[n] # Closed, n \notin Client
                 PROVE  \E j \in live : n \in Owned(j)
      BY DEF Open
    <3>1. PICK e \in Ends, j \in Jails : fds[n] = <<e, j>>
      BY DEF FdInv, Ledger
    <3>2. Live(j) /\ Number(j, e) = n /\ n # None
      BY <3>1, Numbers DEF FdInv, Ledger
    <3> QED
      BY <3>2, OwnedNumbers DEF Live
  <2>5. \A j \in live : \A n \in Owned(j) : n \in Open(fds)
    BY <2>3 DEF Open, Closed, Ends
  <2>6. Client \subseteq Open(fds)
    BY <2>2, Numbers DEF Open, Closed
  <2> HIDE DEF live
  <2>7. Open(fds) = Open(Base) \cup UNION {Owned(j) : j \in live}
    BY <2>1, <2>4, <2>5, <2>6
  <2> QED
    BY <2>1, <2>2, <2>3, <2>7 DEF DescriptorsAccounted, live
<1> QED
  BY <1>1, FdInvariant, PTL

\* execute_child and exec leave the program nothing of any jail; and, if no
\* descriptor is asked for twice or is itself a standard stream, exactly the
\* streams asked for and the client's other files that are not close-on-exec.
THEOREM StreamsGiven == Spec => []StreamsAsGiven
<1>1. FdInv => StreamsAsGiven
  <2> SUFFICES ASSUME FdInv, NEW j \in Jails
               PROVE  /\ child[j] = "program" => \A n \in Fd : table[j][n] \notin Ends \X Jails
                      /\ Clean(jail[j].streams) =>
                           /\ child[j] = "setup" =>
                                Redirected(ClosePipe(j, table[j]), jail[j].streams).ok
                           /\ child[j] = "program" => table[j] = StartTable(jail[j].streams)
    BY DEF StreamsAsGiven
  <2>t. table[j] \in Tables /\ jail[j].streams \in Streams \cup {<<>>}
    BY DEF FdInv, TypeOK, Jail
  <2>i. Inheritable \subseteq Files /\ Std \cup Inheritable \subseteq Client
    BY DescriptorsAssumption DEF Client
  <2>0. ASSUME child[j] = "program", NEW n \in Fd PROVE table[j][n] \notin Ends \X Jails
    <3>1. table[j][n] \in {Closed} \cup ({"file"} \X Fd)
      BY <2>0, <2>i DEF FdInv, Copies, Copy, OnlyFiles
    <3> QED
      BY <3>1 DEF Ends, Closed
  <2>1. ASSUME Clean(jail[j].streams), child[j] = "setup"
        PROVE  Redirected(ClosePipe(j, table[j]), jail[j].streams).ok
    <3>1. \A n \in Client : table[j][n] = <<"file", n>>
      BY <2>1 DEF FdInv, Copies, Copy
    <3>2. Piped(j) => jail[j].read \notin Client
      BY <2>1 DEF FdInv, Progress
    <3>3. \A n \in Client : ClosePipe(j, table[j])[n] = <<"file", n>>
      BY <3>1, <3>2, <2>t, Numbers DEF ClosePipe, Close, Piped, Tables
    <3>4. ClosePipe(j, table[j]) \in Tables
      BY <2>t, ChildTables DEF FdInv
    <3> QED
      BY <2>1, <3>3, <3>4, <2>t, RedirectedClean
  <2>2. ASSUME Clean(jail[j].streams), child[j] = "program"
        PROVE  table[j] = StartTable(jail[j].streams)
    <3> DEFINE streams == jail[j].streams
    <3>1. \A n \in Client : n \in Fd /\ Base[n] = <<"file", n>>
      BY Numbers DEF Base, Client
    <3>2. /\ \A n \in Std \cup Inheritable : table[j][n] = Left(streams, 3, n)
          /\ \A n \in Fd \ (Std \cup Inheritable) : table[j][n] = Closed
      BY <2>2 DEF FdInv, Copies, Copy
    <3>3. \A n \in DOMAIN streams : n \in Std /\ n < 3 /\ streams[n] \in Client
      BY <2>t, StreamTypes DEF Std
    <3> HIDE DEF streams
    <3>4. ASSUME NEW n \in Fd PROVE table[j][n] = StartTable(streams)[n]
      <4>1. CASE n \in DOMAIN streams
        BY <4>1, <3>1, <3>2, <3>3 DEF StartTable, Left
      <4>2. CASE n \notin DOMAIN streams /\ n \in Std \cup Inheritable
        <5>1. StartTable(streams)[n] =
                IF \E m \in DOMAIN streams : streams[m] = n THEN Closed ELSE Base[n]
          BY <4>2 DEF StartTable
        <5>2. Left(streams, 3, n) =
                IF \E m \in DOMAIN streams : streams[m] = n THEN Closed ELSE <<"file", n>>
          BY <4>2, <3>3 DEF Left
        <5> QED
          BY <4>2, <5>1, <5>2, <2>i, <3>1, <3>2
      <4>3. CASE n \notin DOMAIN streams /\ n \notin Std \cup Inheritable
        BY <4>3, <3>2 DEF StartTable
      <4> QED
        BY <4>1, <4>2, <4>3
    <3>5. table[j] = [n \in Fd |-> table[j][n]]
      BY <2>t DEF Tables
    <3>6. StartTable(streams) = [n \in Fd |-> StartTable(streams)[n]]
      BY DEF StartTable
    <3> QED
      BY <3>4, <3>5, <3>6 DEF streams
  <2> QED
    BY <2>0, <2>1, <2>2
<1> QED
  BY <1>1, FdInvariant, PTL
=============================================================================

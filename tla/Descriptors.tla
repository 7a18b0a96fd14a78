----------------------------- MODULE Descriptors -----------------------------
(***************************************************************************)
(* The file descriptors of a process that uses several jails at a time:    *)
(* MemoryListener's pipe, which tells it that the child has called exec    *)
(* (listener/memory.rs), the pidfd of spawn, PerfListener's counter, and   *)
(* the redirection of the standard streams in the child (execute_child).   *)
(* Children are cloned with a copy of the whole table, so each of them     *)
(* inherits what the other jails have open at that moment.                 *)
(***************************************************************************)
EXTENDS Integers

CONSTANTS
  Jails,    \* the jails the process makes, each used once
  Streams,  \* choices of descriptors for the standard streams: subsets of the
            \*   functions from {0, 1, 2} (stdin, stdout, stderr), None omitted
  MaxFd,    \* bound: the largest descriptor; nothing more is opened in a full table
  Files,    \* descriptors the client has opened
  Inheritable  \* those of them that are not close-on-exec

ASSUME DescriptorsAssumption ==
  /\ MaxFd \in Nat /\ MaxFd >= 2
  /\ Files \subseteq 3..MaxFd /\ Inheritable \subseteq Files
  \* Streams are given as BorrowedFd<'a>, open as long as the jail lives.
  /\ \A s \in Streams :
       \A target \in DOMAIN s : target \in 0..2 /\ s[target] \in 0..2 \cup Files

VARIABLES
  fds,    \* the process's descriptors: what each of them refers to
  stage,  \* how far each jail is
  jail,   \* its features, streams and descriptors
  child,  \* "none", "setup", "ready", "program" or "dead"
  table   \* the child's own descriptors

vars == <<fds, stage, jail, child, table>>

Fd == 0..MaxFd
Std == 0..2
None == -1
Closed == <<"closed", None>>
Base == [n \in Fd |-> IF n \in Std \cup Files THEN <<"file", n>> ELSE Closed]
NoFds == [n \in Fd |-> Closed]
Open(t) == {n \in Fd : t[n] # Closed}

\* What a descriptor can refer to, and tables of descriptors.
Ends == {"read", "write", "pid", "perf"}
Objects == {Closed} \cup ({"file"} \X Fd) \cup (Ends \X Jails)
Tables == [Fd -> Objects]

\* A jail's ends of its pipe, its pidfd and its counter, by their numbers, and
\* MemoryListener.closed_child_in_parent.
NewJail(features, streams, read, write) ==
  [features |-> features, streams |-> streams, read |-> read, write |-> write,
   pid_fd |-> None, perf_fd |-> None, closed |-> FALSE]

Jail ==
  [features : SUBSET {"PERF", "MEMORY"}, streams : Streams \cup {<<>>},
   read : Fd \cup {None}, write : Fd \cup {None},
   pid_fd : Fd \cup {None}, perf_fd : Fd \cup {None}, closed : BOOLEAN]

Stages == {"new", "listeners", "cloned", "spawned", "counted", "piped", "loop", "over",
           "failed", "dropped"}

TypeOK ==
  /\ fds \in Tables
  /\ stage \in [Jails -> Stages]
  /\ jail \in [Jails -> Jail]
  /\ child \in [Jails -> {"none", "setup", "ready", "program", "dead"}]
  /\ table \in [Jails -> Tables]
  /\ \A j \in Jails :
       stage[j] \in {"spawned", "counted", "piped", "loop"} =>
         child[j] \in {"ready", "program", "dead"}

Init ==
  /\ fds = Base
  /\ stage = [j \in Jails |-> "new"]
  /\ jail = [j \in Jails |-> NewJail({}, <<>>, None, None)]
  /\ child = [j \in Jails |-> "none"]
  /\ table = [j \in Jails |-> NoFds]

Goto(j, here, there) == stage[j] = here /\ stage' = [stage EXCEPT ![j] = there]

\* A new descriptor gets the lowest number that is free.
Lowest(t, n) == n \in Fd \ Open(t) /\ \A m \in Fd \ Open(t) : n <= m
Close(t, n) == [t EXCEPT ![n] = Closed]

-----------------------------------------------------------------------------
(* Perfjail::spawn.                                                        *)

\* The listeners are made: MemoryListener::new calls pipe2.
NewListeners(j) ==
  /\ Goto(j, "new", "listeners")
  /\ \E features \in SUBSET {"PERF", "MEMORY"}, streams \in Streams :
       \/ /\ "MEMORY" \in features
          /\ \E read, write \in Fd :
               /\ Lowest(fds, read)
               /\ Lowest([fds EXCEPT ![read] = <<"read", j>>], write)
               /\ fds' = [fds EXCEPT ![read] = <<"read", j>>, ![write] = <<"write", j>>]
               /\ jail' = [jail EXCEPT ![j] = NewJail(features, streams, read, write)]
       \/ /\ "MEMORY" \notin features
          /\ jail' = [jail EXCEPT ![j] = NewJail(features, streams, None, None)]
          /\ UNCHANGED fds
  /\ UNCHANGED <<child, table>>

\* clone copies the table, then opens the pidfd in the parent.
Clone(j) ==
  /\ Goto(j, "listeners", "cloned")
  /\ child' = [child EXCEPT ![j] = "setup"]
  /\ table' = [table EXCEPT ![j] = fds]
  /\ \E n \in Fd :
       /\ Lowest(fds, n)
       /\ fds' = [fds EXCEPT ![n] = <<"pid", j>>]
       /\ jail' = [jail EXCEPT ![j].pid_fd = n]

\* Mutant: spawn does not wait at the barrier.
SpawnReturnsEarly(j) == Goto(j, "cloned", "spawned") /\ UNCHANGED <<fds, jail, child, table>>

\* After child_ready_barrier.  spawn never returns if the child has failed.
SpawnReturns(j) ==
  /\ child[j] = "ready"
  /\ Goto(j, "cloned", "spawned")
  /\ UNCHANGED <<fds, jail, child, table>>

-----------------------------------------------------------------------------
(* The child.                                                              *)

\* Mutant: the descriptor is closed first.
RedirectClosesFirst(state, target, streams) ==
  IF target \notin DOMAIN streams THEN state
  ELSE LET closed == Close(state.table, streams[target])
       IN  [ok |-> state.ok, table |-> [closed EXCEPT ![target] = closed[streams[target]]]]

\* dup2 of the descriptor given for a stream, which fails if it is not open, and
\* close of the original.
Redirect(state, target, streams) ==
  IF target \notin DOMAIN streams \/ ~state.ok THEN state
  ELSE LET fd == streams[target]
           dup == [state.table EXCEPT ![target] = state.table[fd]]
       IN  [ok |-> fd \in Open(state.table), table |-> Close(dup, fd)]

Redirected(t, streams) ==
  Redirect(Redirect(Redirect([ok |-> TRUE, table |-> t], 0, streams), 1, streams), 2, streams)

\* Mutant: the child closes its write end.
ClosePipeWrong(j, t) == IF "MEMORY" \in jail[j].features THEN Close(t, jail[j].write) ELSE t

\* MemoryListener::on_post_clone_child
ClosePipe(j, t) == IF "MEMORY" \in jail[j].features THEN Close(t, jail[j].read) ELSE t

\* execute_child up to child_ready_barrier.
ChildSetup(j) ==
  /\ child[j] = "setup"
  /\ LET result == Redirected(ClosePipe(j, table[j]), jail[j].streams)
     IN  /\ child' = [child EXCEPT ![j] = IF result.ok THEN "ready" ELSE "dead"]
         /\ table' = [table EXCEPT ![j] = IF result.ok THEN result.table ELSE NoFds]
  /\ UNCHANGED <<fds, stage, jail>>

\* Mutant: the pipe is not O_CLOEXEC.
CloseOnExecLeaks(t) ==
  [n \in Fd |-> IF n \in Std \cup Inheritable \/ t[n][1] = "write" THEN t[n] ELSE Closed]

\* The ends of the pipe, the pidfd and the counter are close-on-exec.  The
\* standard streams are not: dup2 clears the flag.  Of the client's files it is
\* up to the client: execute_child closes none but the ones given as streams.
CloseOnExec(t) == [n \in Fd |-> IF n \in Std \cup Inheritable THEN t[n] ELSE Closed]

\* execvp, after parent_ready_barrier.
ChildExecs(j) ==
  /\ child[j] = "ready" /\ stage[j] = "loop"
  /\ child' = [child EXCEPT ![j] = "program"]
  /\ table' = [table EXCEPT ![j] = CloseOnExec(@)]
  /\ UNCHANGED <<fds, stage, jail>>

\* It exits or is killed, or exec fails.
ChildDies(j) ==
  /\ child[j] \in {"setup", "ready", "program"}
  /\ child' = [child EXCEPT ![j] = "dead"]
  /\ table' = [table EXCEPT ![j] = NoFds]
  /\ UNCHANGED <<fds, stage, jail>>

-----------------------------------------------------------------------------
(* JailedChild::run and drop.                                              *)

\* PerfListener::on_post_clone_parent
RunPerf(j) ==
  /\ Goto(j, "spawned", "counted")
  /\ \/ /\ "PERF" \in jail[j].features
        /\ \E n \in Fd :
             /\ Lowest(fds, n)
             /\ fds' = [fds EXCEPT ![n] = <<"perf", j>>]
             /\ jail' = [jail EXCEPT ![j].perf_fd = n]
     \/ "PERF" \notin jail[j].features /\ UNCHANGED <<fds, jail>>
  /\ UNCHANGED <<child, table>>

\* Mutant: the flag is forgotten.
RunPipeUnmarked(j) ==
  /\ Goto(j, "counted", "piped")
  /\ fds' = IF "MEMORY" \in jail[j].features THEN Close(fds, jail[j].write) ELSE fds
  /\ UNCHANGED <<jail, child, table>>

\* MemoryListener::on_post_clone_parent
RunPipe(j) ==
  /\ Goto(j, "counted", "piped")
  /\ IF "MEMORY" \in jail[j].features
     THEN /\ fds' = Close(fds, jail[j].write)
          /\ jail' = [jail EXCEPT ![j].closed = TRUE]
     ELSE UNCHANGED <<fds, jail>>
  /\ UNCHANGED <<child, table>>

\* parent_ready_barrier
RunLoop(j) == Goto(j, "piped", "loop") /\ UNCHANGED <<fds, jail, child, table>>

\* A listener, or the loop, fails.  run_saving_result kills the child, which has
\* ChildDies ahead of it and no exec.
RunFails(j) ==
  /\ \E here \in {"spawned", "counted", "piped", "loop"} : Goto(j, here, "failed")
  /\ UNCHANGED <<fds, jail, child, table>>

RunEnds(j) ==
  /\ child[j] = "dead"
  /\ Goto(j, "loop", "over")
  /\ UNCHANGED <<fds, jail, child, table>>

\* What the drop of the context closes, by number: pid_fd and perf_fd, and in
\* MemoryListener::drop the read end and the write end unless it is closed.
\* spawn drops the context too if it cannot start its thread.
Owned(j) ==
  {jail[j].pid_fd, jail[j].perf_fd, jail[j].read,
   IF jail[j].closed THEN None ELSE jail[j].write} \ {None}

Drop(j) ==
  /\ \E here \in {"listeners", "spawned", "over", "failed"} : Goto(j, here, "dropped")
  /\ fds' = [n \in Fd |-> IF n \in Owned(j) THEN Closed ELSE fds[n]]
  /\ UNCHANGED <<jail, child, table>>

Next ==
  \E j \in Jails :
    \/ NewListeners(j) \/ Clone(j) \/ SpawnReturns(j)
    \/ ChildSetup(j) \/ ChildExecs(j) \/ ChildDies(j)
    \/ RunPerf(j) \/ RunPipe(j) \/ RunLoop(j) \/ RunFails(j) \/ RunEnds(j)
    \/ Drop(j)

Spec == Init /\ [][Next]_vars

-----------------------------------------------------------------------------
Holds(t, object) == \E n \in Fd : t[n] = object

\* was_exec_called of jail j: no process has the write end open any more.
was_exec_called(j) ==
  /\ ~Holds(fds, <<"write", j>>)
  /\ \A k \in Jails : ~Holds(table[k], <<"write", j>>)

\* MemoryListener never reads the memory of a child that has not called exec,
\* which would be the memory of the calling process, whatever the other jails of
\* the process do meanwhile.
PeakIsProgram ==
  \A j \in Jails :
    stage[j] = "loop" /\ "MEMORY" \in jail[j].features /\ was_exec_called(j)
      => child[j] \in {"program", "dead"}

\* The memory of a running program goes unnoticed only while some other child
\* was cloned before the write end was closed and has not called exec yet.
BlindOnlyByOthers ==
  \A j \in Jails :
    stage[j] = "loop" /\ child[j] = "program" /\ ~was_exec_called(j)
      => \E k \in Jails \ {j} :
           child[k] \in {"setup", "ready"} /\ Holds(table[k], <<"write", j>>)

\* The descriptors open are the client's and those the live handles will close,
\* and each number a handle will close is still its own: nothing leaks, nothing
\* is closed twice, although numbers are reused between the jails.
DescriptorsAccounted ==
  LET live == {j \in Jails : stage[j] \notin {"new", "dropped"}}
  IN  /\ Open(fds) = Open(Base) \cup UNION {Owned(j) : j \in live}
      /\ \A n \in Open(Base) : fds[n] = Base[n]
      /\ \A j \in live : \A n \in Owned(j) : fds[n] \in Ends \X {j}

\* No descriptor is given twice, and none that is itself a standard stream.
Clean(streams) ==
  \A a, b \in DOMAIN streams : streams[a] \notin Std /\ (streams[a] = streams[b] => a = b)

\* What a program should start with: the streams it was given, the others as in
\* the parent, and the client's files that are neither close-on-exec nor given as
\* a stream.
StartTable(streams) ==
  [n \in Fd |->
     IF n \in DOMAIN streams THEN Base[streams[n]]
     ELSE IF n \in (Std \cup Inheritable) \ {streams[m] : m \in DOMAIN streams} THEN Base[n]
     ELSE Closed]

\* No program gets a descriptor of any jail, its own or another's, that was open
\* when it was cloned.  With streams that do not clash the redirection succeeds
\* and the program starts with exactly the table it should, whatever other jails
\* use the same files.
StreamsAsGiven ==
  \A j \in Jails :
    /\ child[j] = "program" => \A n \in Fd : table[j][n] \notin Ends \X Jails
    /\ Clean(jail[j].streams) =>
         /\ child[j] = "setup" => Redirected(ClosePipe(j, table[j]), jail[j].streams).ok
         /\ child[j] = "program" => table[j] = StartTable(jail[j].streams)
=============================================================================

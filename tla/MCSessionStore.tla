--------------------------- MODULE MCSessionStore ---------------------------
(* Small instances of SessionStore.  Users and session ids are model values *)
(* that the code only compares.                                             *)
EXTENDS SessionStore, TLC

Interchangeable == Permutations(User) \union Permutations(SessionId)

Calm == [overlap |-> "never", warm |-> TRUE, breaks |-> FALSE,
         pingFaults |-> FALSE, readFaults |-> FALSE, writeFaults |-> FALSE]

\* Requests of one session overlap, calls fail, turns break off.
Crowded == [Calm EXCEPT !.overlap = "within", !.breaks = TRUE,
                        !.readFaults = TRUE, !.writeFaults = TRUE]

\* One session's requests come one after the other; writes may be lost.
Serial == [Calm EXCEPT !.overlap = "across", !.breaks = TRUE,
                       !.writeFaults = TRUE]

\* Each process is asked for the first time by a request on its own.
Cold == [Calm EXCEPT !.warm = FALSE, !.breaks = TRUE]

\* The first ping may fail, and then the dict is used until a restart.
Degraded == [Calm EXCEPT !.warm = FALSE, !.pingFaults = TRUE,
                         !.readFaults = TRUE, !.writeFaults = TRUE]

\* Several requests find a process that has not been asked yet.
ColdCrowd == [Calm EXCEPT !.warm = FALSE, !.overlap = "across"]

OverRedis == {Crowded, Serial, Cold, Degraded, ColdCrowd}

InMemory == {[Calm EXCEPT !.warm = FALSE, !.overlap = "across"]}

HangUps == {[Calm EXCEPT !.overlap = "across", !.breaks = TRUE]}

FirstRequests == {ColdCrowd}
=============================================================================

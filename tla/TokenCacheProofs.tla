-------------------------- MODULE TokenCacheProofs --------------------------
(***************************************************************************)
(* The token cache for any number of credentials, processes and threads,   *)
(* under lost answers, failures, crashes and tokens that expire.           *)
(***************************************************************************)
EXTENDS TokenCache, TLAPS

\* Only the holder of the file lock issues or writes.
FileLockHeld == \A t \in Threads : pc[t] \in {"issue", "write"} => flock = t

\* A token about to be written is the newest, and its credential's valid one unless
\* that has lived its life.
WritesTheNewest ==
  \A t \in Threads : pc[t] = "write" =>
    /\ valid[Cred(t)] \in {call[t].have, 0}
    /\ call[t].have > file.token
    /\ call[t].have > call[t].bad

\* Behind a refresh, both the token in memory and the one in the file are later than
\* the one that was refused; a thread between requests has been refused nothing.
RefreshIsKept ==
  \A t \in Threads :
    /\ pc[t] = "idle" => ~call[t].refreshed
    /\ pc[t] # "idle" /\ call[t].refreshed /\ ~call[t].force
         => memory[Client[t]] > call[t].bad /\ file.token > call[t].bad

\* No two credentials have the same token.
OneEach == \A c, d \in Credentials : c # d /\ valid[c] # 0 => valid[c] # valid[d]

\* The inductive invariant.
IInv == /\ TypeOK /\ OneEach /\ FileLockHeld /\ WritesTheNewest /\ RefreshIsKept
        /\ CacheIsCurrent /\ RefreshIsUsed

-----------------------------------------------------------------------------
(* Type correctness. *)

CallsUpTo(n) == [force : BOOLEAN, refreshed : BOOLEAN, have : 0..n, tries : 0..MaxRetries,
                 attempt : 0..MaxRetries, bad : 0..n]

\* What a call knows after its first refusal.
AfterRefusal(c) ==
  [NoCall EXCEPT !.refreshed = TRUE, !.force = TRUE, !.attempt = c.attempt, !.bad = c.have]

\* A call of a thread that sends nothing is a call.
LEMMA NoCallTyped ==
  ASSUME NEW n \in Nat
  PROVE  NoCall \in CallsUpTo(n)
  BY TokenParameters DEF NoCall, CallsUpTo, TokenParameters

\* One field of a call at a time.
LEMMA CallFields ==
  ASSUME NEW n \in Nat, NEW c \in CallsUpTo(n), NEW token \in 0..n
  PROVE  /\ [c EXCEPT !.have = token] \in CallsUpTo(n)
         /\ [c EXCEPT !.have = token, !.force = FALSE, !.tries = 0] \in CallsUpTo(n)
         /\ c.tries < MaxRetries => [c EXCEPT !.tries = c.tries + 1] \in CallsUpTo(n)
         /\ c.attempt < MaxRetries => [c EXCEPT !.attempt = c.attempt + 1, !.have = 0] \in CallsUpTo(n)
         /\ AfterRefusal(c) \in CallsUpTo(n)
<1>0. 0 \in 0..MaxRetries /\ 0 \in 0..n
  BY TokenParameters DEF TokenParameters
<1>1. [c EXCEPT !.have = token] \in CallsUpTo(n)
  BY DEF CallsUpTo
<1>2. [c EXCEPT !.have = token, !.force = FALSE, !.tries = 0] \in CallsUpTo(n)
  BY <1>0 DEF CallsUpTo
<1>3. ASSUME c.tries < MaxRetries PROVE [c EXCEPT !.tries = c.tries + 1] \in CallsUpTo(n)
  <2>1. c.tries + 1 \in 0..MaxRetries
    BY <1>3, TokenParameters DEF CallsUpTo, TokenParameters
  <2>. QED  BY <2>1 DEF CallsUpTo
<1>4. AfterRefusal(c) \in CallsUpTo(n)
  <2>1. c.have \in 0..n /\ c.attempt \in 0..MaxRetries
    BY DEF CallsUpTo
  <2>2. \A x \in CallsUpTo(n), a \in 0..MaxRetries, b \in 0..n :
          [x EXCEPT !.refreshed = TRUE, !.force = TRUE, !.attempt = a, !.bad = b] \in CallsUpTo(n)
    BY DEF CallsUpTo
  <2>. QED  BY <2>1, <2>2, NoCallTyped DEF AfterRefusal
<1>5. ASSUME c.attempt < MaxRetries
      PROVE  [c EXCEPT !.attempt = c.attempt + 1, !.have = 0] \in CallsUpTo(n)
  <2>1. c.attempt + 1 \in 0..MaxRetries
    BY <1>5, TokenParameters DEF CallsUpTo, TokenParameters
  <2>. QED  BY <1>0, <2>1 DEF CallsUpTo
<1>. QED  BY <1>1, <1>2, <1>3, <1>4, <1>5

\* The tokens this side keeps, and the requests still to send.
BooksTyped ==
  /\ issued \in Nat /\ expired \in Tokens
  /\ valid \in [Credentials -> Tokens]
  /\ file \in [owner : Credentials, token : Tokens]
  /\ memory \in [Clients -> Tokens]
  /\ left \in [Threads -> 0..Requests]
  /\ unseen \subseteq Tokens

\* The locks, and the threads with respect to them.
LocksTyped ==
  /\ flock \in Threads \cup {NoOne} /\ tlock \in [Clients -> Threads \cup {NoOne}]
  /\ flock # NoOne => pc[flock] \in {"issue", "write"}
  /\ \A c \in Clients : tlock[c] # NoOne =>
       Client[tlock[c]] = c /\ pc[tlock[c]] \in {"locked", "issue", "write"}

ThreadsTyped == pc \in [Threads -> PCs] /\ call \in [Threads -> CallsUpTo(issued)]

\* TypeOK in three parts.
LEMMA TypeParts == TypeOK <=> BooksTyped /\ LocksTyped /\ ThreadsTyped
  BY DEF TypeOK, BooksTyped, LocksTyped, ThreadsTyped, CallsUpTo, Tokens

\* Where the credential of a thread and the cached token are.
LEMMA Places ==
  ASSUME NEW t \in Threads
  PROVE  /\ Client[t] \in Clients /\ Cred(t) \in Credentials
         /\ BooksTyped => Cached(Cred(t)) \in Tokens
         /\ NoOne # t
  BY TokenParameters DEF Clients, Cred, Cached, BooksTyped, Tokens, TokenParameters

\* Tokens only grow in number.
LEMMA IssuedGrows ==
  ASSUME TypeOK, NEW t \in Threads, Issued(Cred(t))
  PROVE  /\ issued' \in Nat /\ issued + 1 \in 0..issued' /\ Tokens \subseteq Tokens'
         /\ valid' \in [Credentials -> Tokens']
         /\ (unseen \ {valid[Cred(t)]}) \cup {issued + 1} \subseteq Tokens'
         /\ CallsUpTo(issued) \subseteq CallsUpTo(issued)' /\ CallsUpTo(issued)' = CallsUpTo(issued + 1)
<1>1. issued \in Nat /\ issued' = issued + 1 /\ valid' = [valid EXCEPT ![Cred(t)] = issued + 1]
  BY DEF TypeOK, Issued
<1>2. Tokens \subseteq Tokens' /\ issued + 1 \in Tokens'
  BY <1>1 DEF Tokens
<1>3. CallsUpTo(issued) \subseteq CallsUpTo(issued)' /\ CallsUpTo(issued)' = CallsUpTo(issued + 1)
  BY <1>1 DEF CallsUpTo
<1>4. valid' \in [Credentials -> Tokens'] /\ (unseen \ {valid[Cred(t)]}) \cup {issued + 1} \subseteq Tokens'
  BY <1>1, <1>2 DEF TypeOK
<1>. QED  BY <1>1, <1>2, <1>3, <1>4 DEF Tokens

\* A thread that lets go of both locks leaves them typed.
LEMMA ReleaseTyped ==
  ASSUME TypeOK, NEW t \in Threads, Release(t), NEW where \in PCs, Goto(t, where)
  PROVE  LocksTyped'
  BY Places DEF Release, Goto, TypeOK, LocksTyped

\* So does one that lets go of the first only, or moves on holding what it held.
LEMMA UnlockTyped ==
  ASSUME TypeOK, NEW t \in Threads, tlock' = [tlock EXCEPT ![Client[t]] = NoOne],
         NEW where \in PCs, Goto(t, where), pc[t] \notin {"issue", "write"}, flock' = flock
  PROVE  LocksTyped'
  BY Places DEF Goto, TypeOK, LocksTyped

\* ... or one that moves on with what it holds.
LEMMA MoveTyped ==
  ASSUME TypeOK, NEW t \in Threads, NEW where \in PCs, Goto(t, where), UNCHANGED <<flock, tlock>>,
         pc[t] \in {"idle", "want", "send"} \/ (pc[t] = "issue" /\ where = "write")
  PROVE  LocksTyped'
  BY Places DEF Goto, TypeOK, LocksTyped

\* What a thread gets is a call it can go on with, and a token for its client.
LEMMA GotTyped ==
  ASSUME TypeOK, NEW t \in Threads, NEW token \in Tokens, Got(t, token)
  PROVE  /\ call' \in [Threads -> CallsUpTo(issued)]
         /\ memory' \in [Clients -> Tokens]
         /\ pc' \in [Threads -> PCs]
         /\ \E where \in {"want", "send"} : Goto(t, where)
<1>1. call[t] \in CallsUpTo(issued) /\ issued \in Nat /\ 0 \in Tokens
  BY TypeParts DEF ThreadsTyped, BooksTyped, Tokens
<1>2. \A have \in Tokens :
        [call[t] EXCEPT !.have = have, !.force = FALSE, !.tries = 0] \in CallsUpTo(issued)
  BY <1>1, CallFields DEF Tokens
<1>3. \E have \in Tokens :
        call' = [call EXCEPT ![t] = [call[t] EXCEPT !.have = have, !.force = FALSE, !.tries = 0]]
  BY <1>1 DEF Got
<1>4. call' \in [Threads -> CallsUpTo(issued)]
  BY <1>2, <1>3, TypeParts DEF ThreadsTyped
<1>. QED
  BY <1>4, Places DEF Got, Goto, TypeOK, PCs

\* A call that ends leaves a thread that knows nothing.
LEMMA ReturnTyped ==
  ASSUME TypeOK, NEW t \in Threads, Return(t), issued' \in Nat, Tokens \subseteq Tokens'
  PROVE  ThreadsTyped'
<1>1. CallsUpTo(issued)' = CallsUpTo(issued') /\ CallsUpTo(issued) \subseteq CallsUpTo(issued')
  BY TypeParts DEF CallsUpTo, Tokens, BooksTyped
<1>2. NoCall \in CallsUpTo(issued')
  BY NoCallTyped
<1>. QED
  BY <1>1, <1>2, TypeParts DEF Return, Goto, ThreadsTyped, PCs

\* Each action keeps every variable in its type, and the locks with their holders.
LEMMA TypeStep == TypeOK /\ [Next]_vars => TypeOK'
<1> SUFFICES ASSUME TypeOK, [Next]_vars PROVE (BooksTyped /\ LocksTyped /\ ThreadsTyped)'
  BY TypeParts, PTL
<1>0. BooksTyped /\ LocksTyped /\ ThreadsTyped /\ 0 \in 0..issued
  BY TypeParts DEF BooksTyped
<1> USE DEF PCs
<1>1. ASSUME NEW t \in Threads, Begin(t) PROVE BooksTyped' /\ LocksTyped' /\ ThreadsTyped'
  <2>1. left' \in [Threads -> 0..Requests]
    BY <1>0, <1>1, TokenParameters DEF Begin, BooksTyped, TokenParameters
  <2>. QED
    BY <1>0, <1>1, <2>1, MoveTyped
       DEF Begin, Goto, BooksTyped, ThreadsTyped, Tokens, CallsUpTo, server, cache, client
<1>2. ASSUME NEW t \in Threads, FromMemory(t) PROVE BooksTyped' /\ LocksTyped' /\ ThreadsTyped'
  <2>1. [call[t] EXCEPT !.have = memory[Client[t]]] \in CallsUpTo(issued)
    BY <1>0, CallFields, Places DEF BooksTyped, ThreadsTyped, Tokens
  <2>2. UNCHANGED <<server, cache, client, left, unseen>> /\ pc[t] = "want" /\ Goto(t, "send")
        /\ call' = [call EXCEPT ![t] = [call[t] EXCEPT !.have = memory[Client[t]]]]
    BY <1>2 DEF FromMemory
  <2>3. LocksTyped'
    BY <2>2, MoveTyped DEF cache, client
  <2>. QED
    BY <1>0, <2>1, <2>2, <2>3 DEF Goto, BooksTyped, ThreadsTyped, Tokens, CallsUpTo, server, cache, client
<1>3. ASSUME NEW t \in Threads, LockClient(t) PROVE BooksTyped' /\ LocksTyped' /\ ThreadsTyped'
  <2>1. LocksTyped'
    BY <1>0, <1>3, Places DEF LockClient, Goto, LocksTyped, ThreadsTyped, cache
  <2>. QED
    BY <1>0, <1>3, <2>1 DEF LockClient, Goto, BooksTyped, ThreadsTyped, Tokens, CallsUpTo, server, cache
<1>4. ASSUME NEW t \in Threads, FromFile(t) PROVE BooksTyped' /\ LocksTyped' /\ ThreadsTyped'
  <2>1. Cached(Cred(t)) \in Tokens
    BY <1>0, Places
  <2>2. /\ pc[t] = "locked" /\ Got(t, Cached(Cred(t))) /\ UNCHANGED <<server, cache, left, unseen>>
        /\ tlock' = [tlock EXCEPT ![Client[t]] = NoOne]
    BY <1>4 DEF FromFile
  <2>3. PICK where \in {"want", "send"} : Goto(t, where)
    BY <2>1, <2>2, GotTyped
  <2>4. LocksTyped'
    BY <2>2, <2>3, UnlockTyped DEF cache
  <2>5. BooksTyped'
    BY <1>0, <2>1, <2>2, GotTyped DEF BooksTyped, Tokens, server, cache
  <2>. QED
    BY <2>1, <2>2, <2>4, <2>5, GotTyped DEF ThreadsTyped, CallsUpTo, server
<1>5. ASSUME NEW t \in Threads, LockFile(t) PROVE BooksTyped' /\ LocksTyped' /\ ThreadsTyped'
  <2>1. LocksTyped'
    BY <1>0, <1>5, Places DEF LockFile, Goto, LocksTyped, ThreadsTyped, client
  <2>. QED
    BY <1>0, <1>5, <2>1 DEF LockFile, Goto, BooksTyped, ThreadsTyped, Tokens, CallsUpTo, server, client
<1>6. ASSUME NEW t \in Threads, LockTimesOut(t) PROVE BooksTyped' /\ LocksTyped' /\ ThreadsTyped'
  <2>1. LocksTyped'
    BY <1>6, UnlockTyped DEF LockTimesOut, Return, cache
  <2>2. BooksTyped'
    BY <1>0, <1>6 DEF LockTimesOut, BooksTyped, Tokens, server, cache
  <2>. QED
    BY <1>0, <1>6, <2>1, <2>2, ReturnTyped DEF LockTimesOut, BooksTyped, Tokens, server
<1>7. ASSUME NEW t \in Threads, Issue(t) PROVE BooksTyped' /\ LocksTyped' /\ ThreadsTyped'
  <2>1. LocksTyped'
    BY <1>7, MoveTyped DEF Issue, cache, client
  <2>2. BooksTyped'
    BY <1>0, <1>7, IssuedGrows DEF Issue, BooksTyped, cache, client
  <2>3. [call[t] EXCEPT !.have = issued + 1] \in CallsUpTo(issued)'
    BY <1>0, <1>7, IssuedGrows, CallFields DEF Issue, BooksTyped, ThreadsTyped, Issued
  <2>4. call' \in [Threads -> CallsUpTo(issued)']
    BY <1>0, <1>7, <2>3, IssuedGrows DEF Issue, ThreadsTyped
  <2>. QED
    BY <1>0, <1>7, <2>1, <2>2, <2>4 DEF Issue, Goto, ThreadsTyped
<1>8. ASSUME NEW t \in Threads, GiveUp(t), pc[t] \in {"issue", "write"}, expired' = expired,
             \/ UNCHANGED <<valid, issued, unseen>>
             \/ Issued(Cred(t)) /\ unseen' = (unseen \ {valid[Cred(t)]}) \cup {issued + 1}
      PROVE  BooksTyped' /\ LocksTyped' /\ ThreadsTyped'
  <2>1. LocksTyped'
    BY <1>8, ReleaseTyped DEF GiveUp, Return
  <2>2. BooksTyped' /\ Tokens \subseteq Tokens'
    BY <1>0, <1>8, IssuedGrows DEF GiveUp, BooksTyped, Tokens
  <2>. QED
    BY <1>8, <2>1, <2>2, ReturnTyped DEF GiveUp, BooksTyped
<1>9. ASSUME NEW t \in Threads, IssueUnanswered(t) PROVE BooksTyped' /\ LocksTyped' /\ ThreadsTyped'
  <2>1. \/ UNCHANGED <<valid, issued, unseen>>
        \/ Issued(Cred(t)) /\ unseen' = (unseen \ {valid[Cred(t)]}) \cup {issued + 1}
    BY <1>9 DEF IssueUnanswered
  <2>2. CASE GiveUp(t)
    BY <1>8, <1>9, <2>1, <2>2 DEF IssueUnanswered
  <2>3. CASE /\ call[t].tries < MaxRetries
             /\ call' = [call EXCEPT ![t].tries = @ + 1]
             /\ UNCHANGED <<cache, client, pc, left>>
    <3>1. [call[t] EXCEPT !.tries = call[t].tries + 1] \in CallsUpTo(issued)
      BY <1>0, <2>3, CallFields DEF BooksTyped, ThreadsTyped
    <3>2. call' \in [Threads -> CallsUpTo(issued)]
      BY <1>0, <2>3, <3>1 DEF ThreadsTyped
    <3>3. BooksTyped' /\ CallsUpTo(issued) \subseteq CallsUpTo(issued)'
      BY <1>0, <1>9, <2>1, <2>3, IssuedGrows DEF IssueUnanswered, BooksTyped, Tokens, CallsUpTo, cache, client
    <3>. QED
      BY <1>0, <2>3, <3>2, <3>3 DEF LocksTyped, ThreadsTyped, cache, client
  <2>. QED  BY <1>9, <2>2, <2>3 DEF IssueUnanswered
<1>10. ASSUME NEW t \in Threads, WriteCache(t) PROVE BooksTyped' /\ LocksTyped' /\ ThreadsTyped'
  <2>1. call[t].have \in Tokens
    BY <1>0 DEF ThreadsTyped, CallsUpTo, Tokens
  <2>2. PICK where \in {"want", "send"} : Goto(t, where)
    BY <1>10, <2>1, GotTyped DEF WriteCache
  <2>3. LocksTyped'
    BY <1>10, <2>2, ReleaseTyped DEF WriteCache
  <2>4. BooksTyped'
    BY <1>0, <1>10, <2>1, GotTyped, Places DEF WriteCache, BooksTyped, Tokens, server
  <2>. QED
    BY <1>10, <2>1, <2>3, <2>4, GotTyped DEF WriteCache, ThreadsTyped, CallsUpTo, server
<1>11. ASSUME NEW t \in Threads, Answered(t) \/ Refused(t) \/ Unanswered(t)
       PROVE  BooksTyped' /\ LocksTyped' /\ ThreadsTyped'
  <2>1. BooksTyped' /\ pc[t] = "send" /\ UNCHANGED <<flock, tlock, issued>>
    BY <1>0, <1>11 DEF Answered, Refused, Unanswered, BooksTyped, Tokens, server, cache, client
  <2>2. CASE Return(t)
    BY <1>0, <2>1, <2>2, MoveTyped, ReturnTyped DEF Return, BooksTyped, Tokens
  <2>3. ASSUME NEW next \in CallsUpTo(issued), call' = [call EXCEPT ![t] = next], Goto(t, "want")
        PROVE  LocksTyped' /\ ThreadsTyped'
    <3>1. LocksTyped'
      BY <2>1, <2>3, MoveTyped
    <3>. QED
      BY <1>0, <2>1, <2>3, <3>1 DEF Goto, ThreadsTyped, CallsUpTo
  <2>4. call[t] \in CallsUpTo(issued) /\ issued \in Nat
    BY <1>0 DEF BooksTyped, ThreadsTyped
  <2>5. CASE call' = [call EXCEPT ![t] = AfterRefusal(call[t])] /\ Goto(t, "want")
    BY <1>0, <2>1, <2>3, <2>4, <2>5, CallFields
  <2>6. CASE /\ call[t].attempt < MaxRetries /\ Goto(t, "want")
             /\ call' = [call EXCEPT ![t] = [call[t] EXCEPT !.attempt = call[t].attempt + 1, !.have = 0]]
    BY <1>0, <2>1, <2>3, <2>4, <2>6, CallFields
  <2>7. \/ Return(t)
        \/ call' = [call EXCEPT ![t] = AfterRefusal(call[t])] /\ Goto(t, "want")
        \/ /\ call[t].attempt < MaxRetries /\ Goto(t, "want")
           /\ call' = [call EXCEPT ![t] = [call[t] EXCEPT !.attempt = call[t].attempt + 1, !.have = 0]]
    BY <1>11 DEF Answered, Refused, Unanswered, AfterRefusal
  <2>. QED  BY <2>1, <2>2, <2>5, <2>6, <2>7
<1>12. ASSUME NEW c \in Clients, Crash(c) PROVE BooksTyped' /\ LocksTyped' /\ ThreadsTyped'
  <2>1. LocksTyped'
    BY <1>0, <1>12 DEF Crash, LocksTyped, ThreadsTyped
  <2>2. BooksTyped'
    BY <1>0, <1>12 DEF Crash, BooksTyped, Tokens, server
  <2>3. ThreadsTyped'
    <3>1. NoCall \in CallsUpTo(issued) /\ issued' = issued
      BY <1>0, <1>12, NoCallTyped DEF BooksTyped, Crash, server
    <3>. QED  BY <1>0, <1>12, <3>1 DEF Crash, ThreadsTyped, CallsUpTo
  <2>. QED  BY <2>1, <2>2, <2>3
<1>13. CASE Expire \/ \E c \in Credentials : Lapse(c)
  <2>1. ASSUME Expire PROVE BooksTyped'
    BY <1>0, <2>1, TokenParameters DEF Expire, BooksTyped, Tokens, cache, client, thread, TokenParameters
  <2>2. ASSUME NEW c \in Credentials, Lapse(c) PROVE BooksTyped'
    BY <1>0, <2>2 DEF Lapse, BooksTyped, Tokens, cache, client, thread
  <2>3. BooksTyped' /\ UNCHANGED <<issued, cache, client, thread>>
    BY <1>13, <2>1, <2>2 DEF Expire, Lapse
  <2>. QED
    BY <1>0, <2>3 DEF LocksTyped, ThreadsTyped, CallsUpTo, cache, client, thread
<1>14. ASSUME NEW t \in Threads, IssueRefused(t) \/ WriteFails(t)
       PROVE  BooksTyped' /\ LocksTyped' /\ ThreadsTyped'
  BY <1>8, <1>14 DEF IssueRefused, WriteFails, server
<1>15. CASE UNCHANGED vars
  BY <1>0, <1>15 DEF vars, server, cache, client, thread, BooksTyped, LocksTyped, ThreadsTyped, Tokens, CallsUpTo
<1>. QED
  BY <1>1, <1>2, <1>3, <1>4, <1>5, <1>6, <1>7, <1>9, <1>10, <1>11, <1>12, <1>13, <1>14, <1>15
     DEF Next, Step

\* A cache file of before, and no lock held.
LEMMA TypeInit == Init => TypeOK
<1> SUFFICES ASSUME Init PROVE TypeOK
  OBVIOUS
<1>1. issued \in Nat /\ issued = file.token /\ file \in [owner : Credentials, token : {0, 1}]
  BY DEF Init
<1>2. \A c \in Credentials : valid[c] \in 0..issued
  BY <1>1 DEF Init
<1>3. valid \in [Credentials -> Tokens] /\ file \in [owner : Credentials, token : Tokens]
  BY <1>1, <1>2 DEF Init, Tokens
<1>4. BooksTyped
  BY <1>1, <1>3, TokenParameters DEF Init, BooksTyped, Tokens, TokenParameters
<1>5. ThreadsTyped
  BY <1>1, NoCallTyped DEF Init, ThreadsTyped, PCs
<1>. QED
  BY <1>4, <1>5, TypeParts DEF Init, LocksTyped

\* TypeOK holds in every reachable state.
THEOREM TypeCorrect == Spec => []TypeOK
  BY TypeInit, TypeStep, PTL DEF Spec

-----------------------------------------------------------------------------
(* What a step can do. *)

\* A step of a thread, or the end of its patience.
Turn(t) == Step(t) \/ LockTimesOut(t)

\* A thread's step leaves the others where they are.
LEMMA OtherThreads ==
  ASSUME TypeOK, NEW t \in Threads, Turn(t), NEW u \in Threads \ {t}
  PROVE  pc'[u] = pc[u] /\ call'[u] = call[u]
  BY DEF TypeOK, Turn, Step, Begin, FromMemory, LockClient, FromFile, LockFile, LockTimesOut, Issue,
         IssueUnanswered, IssueRefused, WriteCache, WriteFails, Answered, Refused, Unanswered, GiveUp, Got,
         Return, Goto, thread

\* The file lock is taken when it is free, and let go by its holder.
LEMMA MutexStep == TypeOK /\ FileLockHeld /\ [Next]_vars => FileLockHeld'
<1> SUFFICES ASSUME TypeOK, FileLockHeld, [Next]_vars PROVE FileLockHeld'
  OBVIOUS
<1>1. ASSUME NEW t \in Threads, Turn(t) PROVE FileLockHeld'
  <2>1. \A u \in Threads \ {t} : pc'[u] = pc[u]
    BY <1>1, OtherThreads
  <2>2. CASE pc[t] \in {"issue", "write"}
    <3>1. flock = t /\ \A u \in Threads \ {t} : pc'[u] \notin {"issue", "write"}
      BY <2>1, <2>2 DEF FileLockHeld
    <3>2. pc'[t] \in {"issue", "write"} => flock' = t
      BY <1>1, <2>2, <3>1
         DEF TypeOK, Turn, Step, Begin, FromMemory, LockClient, FromFile, LockFile, LockTimesOut, Issue,
             IssueUnanswered, IssueRefused, WriteCache, WriteFails, Answered, Refused, Unanswered, GiveUp, Got,
             Return, Goto, cache
    <3>. QED  BY <3>1, <3>2 DEF FileLockHeld
  <2>3. CASE LockFile(t)
    BY <2>1, <2>3, Places DEF LockFile, FileLockHeld
  <2>4. CASE pc[t] \notin {"issue", "write"} /\ ~LockFile(t)
    <3>1. flock' = flock /\ pc'[t] \notin {"issue", "write"}
      BY <1>1, <2>4
         DEF TypeOK, Turn, Step, Begin, FromMemory, LockClient, FromFile, LockTimesOut, Issue,
             IssueUnanswered, IssueRefused, WriteCache, WriteFails, Answered, Refused, Unanswered, Got,
             Return, Goto, cache
    <3>. QED  BY <2>1, <3>1 DEF FileLockHeld
  <2>. QED  BY <2>2, <2>3, <2>4
<1>2. ASSUME NEW c \in Clients, Crash(c) PROVE FileLockHeld'
  BY <1>2, Places DEF Crash, FileLockHeld, TypeOK
<1>3. CASE UNCHANGED <<pc, flock>>
  BY <1>3 DEF FileLockHeld
<1>. QED
  BY <1>1, <1>2, <1>3 DEF Next, Turn, Expire, Lapse, vars, cache, thread

\* What is fresh in the cache is the file's token.
LEMMA FreshInFile ==
  ASSUME TypeOK, NEW t \in Threads, Fresh(Cached(Cred(t)))
  PROVE  Cached(Cred(t)) = file.token
  BY DEF TypeOK, Fresh, Cached, Tokens

\* Only an issuance makes a token valid, the cache file is only written by WriteCache,
\* and a client's memory follows the file.
TokensMove ==
  /\ expired' >= expired
  /\ \A c \in Credentials : \/ valid'[c] \in {valid[c], 0}
                            \/ valid'[c] \in unseen' /\ \E t \in Threads : pc[t] = "issue" /\ c = Cred(t)
  /\ \/ /\ file' = file
        /\ \A c \in Credentials : valid[c] \in unseen => valid'[c] \in unseen' \cup {0}
     \/ \E t \in Threads : WriteCache(t)
  /\ \A c \in Clients : memory'[c] \in {memory[c], file'.token} \/ Crash(c)

\* Every step is such a step.
LEMMA TokenStep == TypeOK /\ OneEach /\ [Next]_vars => TokensMove
<1> SUFFICES ASSUME TypeOK, OneEach, [Next]_vars PROVE TokensMove
  OBVIOUS
<1> USE DEF TokensMove
<1>0. /\ issued \in Nat /\ expired \in Nat
      /\ memory \in [Clients -> Tokens] /\ valid \in [Credentials -> Tokens]
  BY DEF TypeOK, Tokens
<1>1. ASSUME NEW t \in Threads, Begin(t) \/ FromMemory(t) \/ LockClient(t) \/ LockFile(t)
                                 \/ LockTimesOut(t) \/ Answered(t) \/ Refused(t) \/ Unanswered(t)
                                 \/ IssueRefused(t) \/ WriteFails(t)
      PROVE  TokensMove
  <2>1. UNCHANGED <<server, file, memory, unseen>>
    BY <1>1 DEF Begin, FromMemory, LockClient, LockFile, LockTimesOut, Answered, Refused, Unanswered,
                IssueRefused, WriteFails, GiveUp, cache, client
  <2>. QED  BY <1>0, <2>1 DEF server
<1>2. ASSUME NEW t \in Threads, FromFile(t) PROVE TokensMove
  <2>1. /\ UNCHANGED <<server, file, unseen>>
        /\ memory' = [memory EXCEPT ![Client[t]] = file.token]
    BY <1>2, FreshInFile DEF FromFile, Got, cache
  <2>. QED  BY <1>0, <2>1, Places DEF server
<1>3. ASSUME NEW t \in Threads, Issue(t) \/ IssueUnanswered(t) PROVE TokensMove
  <2>1. /\ pc[t] = "issue" /\ UNCHANGED <<expired, file, memory>>
        /\ \/ UNCHANGED <<valid, unseen>>
           \/ /\ valid' = [valid EXCEPT ![Cred(t)] = issued + 1]
              /\ unseen' = (unseen \ {valid[Cred(t)]}) \cup {issued + 1}
    BY <1>3 DEF Issue, IssueUnanswered, GiveUp, Issued, cache, client
  <2>2. CASE UNCHANGED <<valid, unseen>>
    BY <1>0, <2>1, <2>2
  <2>3. CASE /\ valid' = [valid EXCEPT ![Cred(t)] = issued + 1]
             /\ unseen' = (unseen \ {valid[Cred(t)]}) \cup {issued + 1}
    <3>1. Cred(t) \in Credentials
      BY Places
    <3>2. ASSUME NEW c \in Credentials, valid[c] \in unseen PROVE valid'[c] \in unseen' \cup {0}
      <4>1. CASE c = Cred(t)
        BY <1>0, <2>3, <4>1
      <4>2. CASE c # Cred(t)
        BY <1>0, <2>3, <3>1, <3>2, <4>2 DEF OneEach
      <4>. QED  BY <4>1, <4>2
    <3>. QED  BY <1>0, <2>1, <2>3, <3>1, <3>2
  <2>. QED  BY <2>1, <2>2, <2>3
<1>4. ASSUME NEW t \in Threads, WriteCache(t) PROVE TokensMove
  <2>1. /\ UNCHANGED server /\ file'.token = call[t].have
        /\ memory' = [memory EXCEPT ![Client[t]] = call[t].have]
    BY <1>4 DEF WriteCache, Got
  <2>. QED  BY <1>0, <1>4, <2>1, Places DEF server
<1>5. ASSUME NEW c \in Clients, Crash(c) PROVE TokensMove
  <2>1. UNCHANGED <<server, file, unseen>> /\ memory' = [memory EXCEPT ![c] = 0]
    BY <1>5 DEF Crash
  <2>. QED  BY <1>0, <1>5, <2>1 DEF server
<1>6. CASE Expire
  BY <1>0, <1>6, TokenParameters DEF Expire, TokenParameters, cache, client, TypeOK
<1>7. ASSUME NEW c \in Credentials, Lapse(c) PROVE TokensMove
  BY <1>0, <1>7 DEF Lapse, cache, client
<1>8. CASE UNCHANGED vars
  BY <1>0, <1>8 DEF vars, server, cache, client
<1>. QED
  BY <1>1, <1>2, <1>3, <1>4, <1>5, <1>6, <1>7, <1>8 DEF Next, Turn, Step

\* An issued token is a new one, so no other credential has it.
LEMMA OneEachStep == TypeOK /\ OneEach /\ [Next]_vars => OneEach'
<1> SUFFICES ASSUME TypeOK, OneEach, [Next]_vars PROVE OneEach'
  OBVIOUS
<1>0. issued \in Nat /\ valid \in [Credentials -> 0..issued]
  BY DEF TypeOK, Tokens
<1>1. ASSUME NEW t \in Threads, valid' = [valid EXCEPT ![Cred(t)] = issued + 1] PROVE OneEach'
  <2>1. Cred(t) \in Credentials
    BY Places
  <2>2. \A c \in Credentials : valid[c] # issued + 1
    BY <1>0
  <2>. QED  BY <1>0, <1>1, <2>1, <2>2 DEF OneEach
<1>2. CASE valid' = valid
  BY <1>2 DEF OneEach
<1>3. ASSUME NEW c \in Credentials, Lapse(c) PROVE OneEach'
  <2>1. valid' = [valid EXCEPT ![c] = 0]
    BY <1>3 DEF Lapse
  <2>. QED  BY <1>0, <2>1 DEF OneEach
<1>4. \/ valid' = valid
      \/ \E t \in Threads : valid' = [valid EXCEPT ![Cred(t)] = issued + 1]
      \/ \E c \in Credentials : Lapse(c)
  BY DEF Next, Step, Begin, FromMemory, LockClient, FromFile, LockFile, LockTimesOut, Issue, Issued,
         IssueUnanswered, IssueRefused, WriteCache, WriteFails, Answered, Refused, Unanswered,
         Crash, Expire, server, vars
<1>. QED  BY <1>1, <1>2, <1>3, <1>4

-----------------------------------------------------------------------------
(* The inductive invariant, part by part. *)

\* From the issuance to the write nobody else issues or writes.
LEMMA WritesStep ==
  TypeOK /\ OneEach /\ FileLockHeld /\ WritesTheNewest /\ [Next]_vars => WritesTheNewest'
<1> SUFFICES ASSUME TypeOK, OneEach, FileLockHeld, WritesTheNewest, [Next]_vars,
                    NEW u \in Threads, pc'[u] = "write"
             PROVE  /\ valid'[Cred(u)] \in {call'[u].have, 0}
                    /\ call'[u].have > file'.token
                    /\ call'[u].have > call'[u].bad
  BY DEF WritesTheNewest, Cred
<1>1. CASE pc[u] = "write" /\ call'[u] = call[u] /\ ~WriteCache(u)
  <2>1. \A t \in Threads : t # u => pc[t] \notin {"issue", "write"}
    BY <1>1 DEF FileLockHeld
  <2>2. file' = file /\ valid'[Cred(u)] \in {valid[Cred(u)], 0}
    BY <1>1, <2>1, TokenStep, Places DEF TokensMove, WriteCache
  <2>. QED  BY <1>1, <2>2 DEF WritesTheNewest
<1>2. CASE Issue(u)
  <2>1. call[u] \in CallsUpTo(issued) /\ issued \in Nat /\ file.token \in 0..issued
    BY TypeParts DEF ThreadsTyped, BooksTyped, Tokens
  <2>2. /\ call'[u] = [call[u] EXCEPT !.have = issued + 1] /\ file' = file
        /\ valid' = [valid EXCEPT ![Cred(u)] = issued + 1]
    BY <1>2 DEF Issue, Issued, TypeOK, cache
  <2>3. call'[u].have = issued + 1 /\ call'[u].bad = call[u].bad /\ call[u].bad \in 0..issued
    BY <2>1, <2>2 DEF CallsUpTo
  <2>4. valid'[Cred(u)] = issued + 1
    BY <2>2, Places DEF TypeOK
  <2>. QED  BY <2>1, <2>2, <2>3, <2>4
<1>3. ASSUME NEW t \in Threads, Turn(t), t # u PROVE pc[u] = "write" /\ call'[u] = call[u] /\ ~WriteCache(u)
  <2>1. pc[u] = "write" /\ call'[u] = call[u]
    BY <1>3, OtherThreads
  <2>2. ~WriteCache(u)
    BY DEF WriteCache, Got, Goto, TypeOK
  <2>. QED  BY <2>1, <2>2
<1>4. ASSUME Turn(u), ~Issue(u) PROVE FALSE
  BY <1>4 DEF Turn, Step, Begin, FromMemory, LockClient, FromFile, LockFile, LockTimesOut, IssueUnanswered,
              IssueRefused, WriteCache, WriteFails, Answered, Refused, Unanswered, GiveUp, Got, Return, Goto, TypeOK
<1>5. ASSUME NEW c \in Clients, Crash(c) PROVE pc[u] = "write" /\ call'[u] = call[u] /\ ~WriteCache(u)
  BY <1>5 DEF Crash, WriteCache, Got, Goto, TypeOK
<1>6. CASE UNCHANGED thread
  BY <1>1, <1>6 DEF thread, WriteCache, Got, Goto, TypeOK
<1>. QED
  BY <1>1, <1>2, <1>3, <1>4, <1>5, <1>6 DEF Next, Turn, Expire, Lapse, vars

\* A later token never makes room for an earlier one.
LEMMA FileGrows ==
  ASSUME TypeOK, OneEach, WritesTheNewest, [Next]_vars
  PROVE  file'.token >= file.token
<1>1. ASSUME NEW t \in Threads, WriteCache(t) PROVE file'.token >= file.token
  BY <1>1 DEF WriteCache, WritesTheNewest, TypeOK, Tokens
<1>. QED
  BY <1>1, TokenStep DEF TokensMove, TypeOK, Tokens

\* While one thread issues nobody writes, so the cache stays as useless as it was
\* when the lock was taken; and what is written is what was issued last.
LEMMA CurrentStep ==
  TypeOK /\ OneEach /\ FileLockHeld /\ WritesTheNewest /\ CacheIsCurrent /\ [Next]_vars => CacheIsCurrent'
<1> SUFFICES ASSUME TypeOK, OneEach, FileLockHeld, WritesTheNewest, CacheIsCurrent, [Next]_vars
             PROVE  CacheIsCurrent'
  OBVIOUS
<1>1. ASSUME NEW u \in Threads, pc'[u] = "issue", ~call'[u].force PROVE ~Fresh(Cached(Cred(u)))'
  <2>1. CASE pc[u] = "issue" /\ ~call[u].force
    <3>1. \A t \in Threads : ~WriteCache(t)
      BY <1>1, <2>1 DEF FileLockHeld, WriteCache
    <3>2. file' = file /\ expired' >= expired /\ expired \in Nat /\ expired' \in Nat
      BY <3>1, TokenStep, TypeStep DEF TokensMove, TypeOK, Tokens
    <3>3. ~Fresh(Cached(Cred(u))) /\ Cached(Cred(u)) \in Nat
      BY <2>1, Places, TypeParts DEF CacheIsCurrent, Tokens
    <3>. QED  BY <3>2, <3>3 DEF Fresh, Cached, Cred
  <2>2. CASE LockFile(u)
    BY <1>1, <2>2 DEF LockFile, Fresh, Cached, Cred, server
  <2>3. ASSUME NEW t \in Threads, Turn(t), ~LockFile(u) PROVE pc[u] = "issue" /\ ~call[u].force
    <3>1. CASE t # u
      BY <1>1, <2>3, <3>1, OtherThreads
    <3>2. CASE t = u
      <4>1. IssueUnanswered(u) /\ pc'[u] = pc[u]
        BY <1>1, <2>3, <3>2
           DEF Turn, Step, Begin, FromMemory, LockClient, FromFile, LockTimesOut, Issue, IssueUnanswered,
               IssueRefused, WriteCache, WriteFails, Answered, Refused, Unanswered, GiveUp, Got, Return, Goto, TypeOK
      <4>2. call'[u].force = call[u].force
        BY <1>1, <4>1 DEF IssueUnanswered, GiveUp, Return, Goto, TypeOK
      <4>. QED  BY <1>1, <4>1, <4>2
    <3>. QED  BY <3>1, <3>2
  <2>4. ASSUME NEW c \in Clients, Crash(c) PROVE pc[u] = "issue" /\ ~call[u].force
    BY <1>1, <2>4 DEF Crash
  <2>5. CASE UNCHANGED thread
    BY <1>1, <2>1, <2>5 DEF thread
  <2>. QED
    BY <2>1, <2>2, <2>3, <2>4, <2>5 DEF Next, Turn, Expire, Lapse, vars
<1>2. (valid[file.owner] \in unseen \cup {file.token, 0})'
  <2>1. ASSUME NEW t \in Threads, WriteCache(t) PROVE valid'[file'.owner] \in {file'.token, 0}
    BY <2>1 DEF WriteCache, WritesTheNewest, server
  <2>2. CASE /\ file' = file
             /\ \A c \in Credentials : valid[c] \in unseen => valid'[c] \in unseen' \cup {0}
    <3>1. file.owner \in Credentials
      BY DEF TypeOK
    <3>. QED  BY <2>2, <3>1, TokenStep DEF TokensMove, CacheIsCurrent
  <2>. QED  BY <2>1, <2>2, TokenStep DEF TokensMove
<1>. QED
  BY <1>1, <1>2 DEF CacheIsCurrent

\* A refresh stays behind the thread that made it: the file and the memory of its
\* client only move to later tokens, and a client that is killed takes its threads along.
LEMMA KeptStep ==
  TypeOK /\ OneEach /\ WritesTheNewest /\ RefreshIsKept /\ [Next]_vars => RefreshIsKept'
<1> SUFFICES ASSUME TypeOK, OneEach, WritesTheNewest, RefreshIsKept, [Next]_vars, NEW u \in Threads
             PROVE  /\ pc'[u] = "idle" => ~call'[u].refreshed
                    /\ pc'[u] # "idle" /\ call'[u].refreshed /\ ~call'[u].force
                         => memory'[Client[u]] > call'[u].bad /\ file'.token > call'[u].bad
  BY DEF RefreshIsKept
<1>0. ~NoCall.refreshed
  BY DEF NoCall
<1>1. ASSUME pc'[u] = "idle" PROVE ~call'[u].refreshed
  <2>1. ASSUME Turn(u) PROVE Return(u)
    BY <1>1, <2>1 DEF Turn, Step, Begin, FromMemory, LockClient, FromFile, LockFile, LockTimesOut, Issue,
                      IssueUnanswered, IssueRefused, WriteCache, WriteFails, Answered, Refused, Unanswered,
                      GiveUp, Got, Return, Goto, TypeOK
  <2>2. ASSUME Return(u) PROVE call'[u] = NoCall
    BY <2>2 DEF Return, TypeOK
  <2>3. ASSUME NEW c \in Clients, Crash(c) PROVE call'[u] = NoCall \/ (call'[u] = call[u] /\ pc[u] = "idle")
    BY <1>1, <2>3 DEF Crash
  <2>4. ASSUME NEW t \in Threads, Turn(t), t # u PROVE call'[u] = call[u] /\ pc[u] = "idle"
    BY <1>1, <2>4, OtherThreads
  <2>5. CASE UNCHANGED thread
    BY <1>1, <2>5 DEF thread, RefreshIsKept
  <2>. QED
    BY <1>0, <2>1, <2>2, <2>3, <2>4, <2>5 DEF RefreshIsKept, Next, Turn, Expire, Lapse, vars
<1>2. ASSUME pc'[u] # "idle", call'[u].refreshed, ~call'[u].force
      PROVE  memory'[Client[u]] > call'[u].bad /\ file'.token > call'[u].bad
  <2>0. call[u] \in CallsUpTo(issued) /\ issued \in Nat
    BY TypeParts DEF ThreadsTyped, BooksTyped
  <2>1. CASE pc[u] # "idle" /\ call[u].refreshed /\ ~call[u].force /\ call'[u].bad = call[u].bad
    <3>1. memory[Client[u]] > call[u].bad /\ file.token > call[u].bad
      BY <2>1 DEF RefreshIsKept
    <3>2. ~Crash(Client[u])
      BY <1>2 DEF Crash
    <3>3. memory'[Client[u]] \in {memory[Client[u]], file'.token}
      BY <3>2, TokenStep, Places DEF TokensMove
    <3>4. file'.token >= file.token /\ file.token \in Nat /\ file'.token \in Nat /\ call[u].bad \in Nat
      BY <2>0, FileGrows, TypeStep DEF TypeOK, Tokens, CallsUpTo
    <3>. QED  BY <2>1, <3>1, <3>3, <3>4
  <2>2. CASE WriteCache(u)
    <3>1. /\ call[u].have > call[u].bad /\ file'.token = call[u].have
          /\ memory' = [memory EXCEPT ![Client[u]] = call[u].have]
      BY <2>2 DEF WriteCache, WritesTheNewest, Got
    <3>2. PICK have : call'[u] = [call[u] EXCEPT !.have = have, !.force = FALSE, !.tries = 0]
      BY <2>2 DEF WriteCache, Got, TypeOK
    <3>3. call'[u].bad = call[u].bad
      BY <2>0, <3>2 DEF CallsUpTo
    <3>. QED  BY <3>1, <3>3, Places DEF TypeOK
  <2>3. ASSUME Turn(u), ~WriteCache(u)
        PROVE  pc[u] # "idle" /\ call[u].refreshed /\ ~call[u].force /\ call'[u].bad = call[u].bad
    <3>1. CASE Begin(u)
      BY <1>2, <3>1 DEF Begin, RefreshIsKept
    <3>2. CASE LockClient(u) \/ LockFile(u)
      BY <1>2, <3>2 DEF LockClient, LockFile
    <3>3. CASE Issue(u)
      <4>1. pc[u] = "issue" /\ call'[u] = [call[u] EXCEPT !.have = issued + 1]
        BY <3>3 DEF Issue, TypeOK
      <4>. QED  BY <1>2, <2>0, <4>1 DEF CallsUpTo
    <3>4. CASE IssueUnanswered(u)
      <4>1. /\ pc[u] = "issue"
            /\ \/ call'[u] = [call[u] EXCEPT !.tries = call[u].tries + 1]
               \/ call'[u] = NoCall
        BY <3>4 DEF IssueUnanswered, GiveUp, Return, TypeOK
      <4>. QED  BY <1>0, <1>2, <2>0, <4>1 DEF CallsUpTo
    <3>5. CASE Refused(u)
      <4>1. \/ call'[u] = NoCall
            \/ call'[u] = AfterRefusal(call[u])
        BY <3>5 DEF Refused, Return, TypeOK, AfterRefusal
      <4>. QED  BY <1>0, <1>2, <4>1 DEF NoCall, AfterRefusal
    <3>6. CASE LockTimesOut(u) \/ IssueRefused(u) \/ WriteFails(u) \/ Answered(u)
      BY <1>2, <3>6 DEF LockTimesOut, IssueRefused, WriteFails, Answered, GiveUp, Return, Goto, TypeOK
    <3>7. CASE FromMemory(u)
      <4>1. pc[u] = "want" /\ call'[u] = [call[u] EXCEPT !.have = memory[Client[u]]]
        BY <3>7 DEF FromMemory, TypeOK
      <4>. QED  BY <1>2, <2>0, <4>1 DEF CallsUpTo
    <3>8. CASE FromFile(u)
      <4>1. pc[u] = "locked" /\ ~call[u].force
        BY <3>8 DEF FromFile
      <4>2. PICK have : call'[u] = [call[u] EXCEPT !.have = have, !.force = FALSE, !.tries = 0]
        BY <3>8 DEF FromFile, Got, TypeOK
      <4>. QED  BY <1>2, <2>0, <4>1, <4>2 DEF CallsUpTo
    <3>9. CASE Unanswered(u)
      <4>1. /\ pc[u] = "send"
            /\ \/ call'[u] = [call[u] EXCEPT !.attempt = call[u].attempt + 1, !.have = 0]
               \/ pc'[u] = "idle"
        BY <3>9 DEF Unanswered, Return, Goto, TypeOK
      <4>. QED  BY <1>2, <2>0, <4>1 DEF CallsUpTo
    <3>. QED  BY <2>3, <3>1, <3>2, <3>3, <3>4, <3>5, <3>6, <3>7, <3>8, <3>9 DEF Turn, Step
  <2>4. ASSUME NEW t \in Threads, Turn(t), t # u PROVE pc'[u] = pc[u] /\ call'[u] = call[u]
    BY <2>4, OtherThreads
  <2>5. ASSUME NEW c \in Clients, Crash(c) PROVE pc'[u] = pc[u] /\ call'[u] = call[u]
    BY <1>2, <2>5 DEF Crash
  <2>6. CASE UNCHANGED thread
    BY <1>2, <2>1, <2>6 DEF thread
  <2>. QED
    BY <1>2, <2>1, <2>2, <2>3, <2>4, <2>5, <2>6 DEF Next, Turn, Expire, Lapse, vars
<1>. QED  BY <1>1, <1>2

\* So what goes out after it is later than what was refused.
LEMMA UsedStep ==
  TypeOK /\ WritesTheNewest /\ RefreshIsKept /\ RefreshIsUsed /\ [Next]_vars => RefreshIsUsed'
<1> SUFFICES ASSUME TypeOK, WritesTheNewest, RefreshIsKept, RefreshIsUsed, [Next]_vars,
                    NEW u \in Threads, pc'[u] = "send", call'[u].refreshed
             PROVE  call'[u].have > call'[u].bad
  BY DEF RefreshIsUsed
<1>0. call[u] \in CallsUpTo(issued) /\ issued \in Nat
  BY TypeParts DEF ThreadsTyped, BooksTyped
<1>1. CASE FromMemory(u)
  <2>1. /\ pc[u] = "want" /\ ~call[u].force
        /\ call'[u] = [call[u] EXCEPT !.have = memory[Client[u]]]
    BY <1>1 DEF FromMemory, TypeOK
  <2>2. call[u].refreshed /\ call'[u].bad = call[u].bad /\ call'[u].have = memory[Client[u]]
    BY <1>0, <2>1 DEF CallsUpTo
  <2>. QED  BY <2>1, <2>2 DEF RefreshIsKept
<1>2. ASSUME NEW token, Got(u, token) PROVE /\ ~call[u].force /\ call[u].refreshed
                                            /\ call'[u].bad = call[u].bad /\ call'[u].have = token
  <2>1. ~call[u].force
    BY <1>2 DEF Got, Goto, TypeOK
  <2>2. call'[u] = [call[u] EXCEPT !.have = token, !.force = FALSE, !.tries = 0]
    BY <1>2, <2>1 DEF Got, TypeOK
  <2>. QED  BY <1>0, <2>1, <2>2 DEF CallsUpTo
<1>3. CASE FromFile(u)
  <2>1. pc[u] = "locked" /\ Got(u, file.token)
    BY <1>3, FreshInFile DEF FromFile
  <2>. QED  BY <1>2, <2>1 DEF RefreshIsKept
<1>4. CASE WriteCache(u)
  <2>1. pc[u] = "write" /\ Got(u, call[u].have)
    BY <1>4 DEF WriteCache
  <2>. QED  BY <1>2, <2>1 DEF WritesTheNewest
<1>5. ASSUME Turn(u), ~FromMemory(u), ~FromFile(u), ~WriteCache(u) PROVE FALSE
  BY <1>5 DEF Turn, Step, Begin, LockClient, LockFile, LockTimesOut, Issue, IssueUnanswered, IssueRefused,
              WriteFails, Answered, Refused, Unanswered, GiveUp, Return, Goto, TypeOK
<1>6. ASSUME pc'[u] = pc[u], call'[u] = call[u] PROVE call'[u].have > call'[u].bad
  BY <1>6 DEF RefreshIsUsed
<1>7. ASSUME NEW t \in Threads, Turn(t), t # u PROVE pc'[u] = pc[u] /\ call'[u] = call[u]
  BY <1>7, OtherThreads
<1>8. ASSUME NEW c \in Clients, Crash(c) PROVE pc'[u] = pc[u] /\ call'[u] = call[u]
  BY <1>8 DEF Crash
<1>9. CASE UNCHANGED thread
  BY <1>6, <1>9 DEF thread
<1>. QED
  BY <1>1, <1>3, <1>4, <1>5, <1>6, <1>7, <1>8, <1>9 DEF Next, Turn, Expire, Lapse, vars

-----------------------------------------------------------------------------
(* The theorems. *)

\* Nobody has a lock or a refused token before the first request.
LEMMA IInit == Init => IInv
<1> SUFFICES ASSUME Init PROVE IInv
  OBVIOUS
<1>1. FileLockHeld /\ WritesTheNewest /\ RefreshIsKept /\ RefreshIsUsed
  BY DEF Init, FileLockHeld, WritesTheNewest, RefreshIsKept, RefreshIsUsed, NoCall
<1>2. CacheIsCurrent
  <2>1. file.owner \in Credentials
    BY DEF Init
  <2>2. valid[file.owner] \in {0, 1} /\ (valid[file.owner] = 1 => file = [owner |-> file.owner, token |-> 1])
    BY <2>1 DEF Init
  <2>. QED  BY <2>2 DEF Init, CacheIsCurrent
<1>3. OneEach
  BY DEF Init, OneEach
<1>. QED  BY <1>1, <1>2, <1>3, TypeInit DEF IInv

\* The inductive invariant is one.
LEMMA IStep == IInv /\ [Next]_vars => IInv'
  BY TypeStep, OneEachStep, MutexStep, WritesStep, CurrentStep, KeptStep, UsedStep DEF IInv

\* No process spoils another's token: none is issued while the cache file has one that
\* would do, and the file never keeps the older of two.
THEOREM CacheStaysCurrent == Spec => []CacheIsCurrent
<1>1. IInv => CacheIsCurrent
  BY DEF IInv
<1>. QED  BY <1>1, IInit, IStep, PTL DEF Spec

\* A forced refresh is never followed by a request with the refused token, or one
\* before it, whoever else refreshes, fails or is restarted meanwhile.
THEOREM RefreshIsNotLost == Spec => []RefreshIsUsed
<1>1. IInv => RefreshIsUsed
  BY DEF IInv
<1>. QED  BY <1>1, IInit, IStep, PTL DEF Spec
=============================================================================

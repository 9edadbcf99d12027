-------------------------- MODULE TokenStoreProofs --------------------------
(***************************************************************************)
(* Whatever the number of callers, the lengths of payloads and the number  *)
(* of unloads, sign-ins and crashes: the store's state is well typed, and, *)
(* when unloads find no call in flight, no race over its file names asks   *)
(* the user to sign in; and a store that does not parse is being written,  *)
(* if payloads have one length or only one thread writes.                  *)
(***************************************************************************)
EXTENDS TokenStore, TLAPS

\* A setup that writes the entry's tokens has not come to read any.
SetupAt ==
    thread["setup"] # Idle =>
        \/ phase = "materializing" /\ thread["setup"].at \in {"opening", "writing", "replacing"}
        \/ phase = "proving"

\* Callers only run in a loaded entry.
CallersAt == \A c \in Callers : thread[c] # Idle => phase = "loaded"

\* A store that may be looked for is there.
StoreIsThere == phase \in {"proving", "loaded"} => path # NoFile

Order == SetupAt /\ CallersAt /\ StoreIsThere

IInv == TypeOK /\ (Orderly => Order)

\* A file that does not parse is one that a thread is about to write.
Mended(i) ==
    i # NoFile /\ ~content[i].whole =>
        \E t \in Threads : thread[t].at = "writing" /\ thread[t].fd = i

\* So are the files of an entry that is proven or loaded, and the temp file that setup
\* has opened over whatever a crash left.
Tidy ==
    /\ phase \in {"proving", "loaded"} => Mended(path) /\ Mended(tmp)
    /\ phase = "materializing" /\ thread["setup"].at \in {"writing", "replacing"} => Mended(tmp)

\* Either all payloads have one length, or one thread at most needs a token.
Even == MaxLength = 1
Alone == \A c, d \in Callers : c = d

\* Alone, a thread writes into the temp file that it has emptied.
WritesItsOwn ==
    \A t \in Threads : thread[t].at = "writing" =>
        thread[t].fd = tmp /\ tmp # NoFile /\ content[tmp].length = 0

WInv == IInv /\ Tidy /\ (Alone => WritesItsOwn)

\* A store found corrupt is "try later" (TryLaterHelps) because a call in flight is
\* about to make it whole.
CorruptIsInFlight == phase \in {"proving", "loaded"} => Mended(path)

\* "a reader never sees a half-written store" (save_tokens), in an entry whose setup
\* has written it.
ReadersSeeWhole == phase \in {"proving", "loaded"} => StoreIsWhole

-----------------------------------------------------------------------------
(* Types *)

LEMMA InodesType == Inodes \subseteq Nat \ {0}
<1>1. Inodes = 1 .. (Cardinality(Callers) + 3)
    BY DEF Inodes
<1> QED BY <1>1

LEMMA IdleType == Idle \in Calls
BY TokenAssumption DEF Idle, Calls, NoTokens, Tokens

LEMMA OverwrittenType ==
    ASSUME NEW file \in Files, NEW tokens \in Tokens
    PROVE  Overwritten(file, tokens) \in Files
<1>1. tokens.length \in 0..MaxLength /\ tokens.fresh \in BOOLEAN
    BY TokenAssumption DEF Tokens
<1>2. [file EXCEPT !.whole = FALSE] \in Files
    BY DEF Files
<1>3. [whole |-> TRUE, fresh |-> tokens.fresh, length |-> tokens.length] \in Files
    BY <1>1 DEF Files
<1> QED BY <1>2, <1>3 DEF Overwritten

\* The ways a call goes on or ends keep the state of threads and the entry typed.
LEMMA StepType ==
    ASSUME TypeOK, NEW t \in Threads,
           NEW at \in {"looking", "reading", "refreshing", "opening", "writing", "replacing"},
           Step(t, at)
    PROVE  thread' \in [Threads -> Calls]
BY DEF TypeOK, Step, Calls

LEMMA EndType ==
    ASSUME TypeOK, NEW t \in Threads, GotToken(t) \/ Errs(t) \/ Rejected(t)
    PROVE  /\ thread' = [thread EXCEPT ![t] = Idle] /\ thread' \in [Threads -> Calls]
           /\ phase' \in {"unloaded", "materializing", "proving", "loaded", "unloading", "failed"}
           /\ reported' \subseteq 0..MaxEndings /\ prompt' \in BOOLEAN
           /\ UNCHANGED <<endings, kept, cognito>>
<1>1. thread' = [thread EXCEPT ![t] = Idle] /\ UNCHANGED <<endings, kept, cognito>>
    BY DEF GotToken, Errs, Rejected, Leave
<1>2. thread' \in [Threads -> Calls]
    BY <1>1, IdleType DEF TypeOK
<1>3. thread[t].load \in 0..MaxEndings
    BY DEF TypeOK, Calls
<1>4. phase' \in {"unloaded", "materializing", "proving", "loaded", "unloading", "failed"}
    BY DEF TypeOK, GotToken, Errs, Rejected
<1>5. reported' \subseteq 0..MaxEndings
    BY <1>3 DEF TypeOK, GotToken, Errs, Rejected
<1>6. prompt' \in BOOLEAN
    BY DEF TypeOK, GotToken, Errs, Rejected
<1> QED BY <1>1, <1>2, <1>4, <1>5, <1>6

LEMMA RunType ==
    ASSUME TypeOK, NEW t \in Threads, Run(t)
    PROVE  TypeOK'
<1>1. CASE Look(t)
    <2>1. UNCHANGED files
        BY <1>1 DEF Look
    <2>2. CASE path = NoFile
        BY <1>1, <2>1, <2>2, EndType DEF Look, TypeOK, files
    <2>3. CASE path # NoFile
        BY <1>1, <2>1, <2>3, StepType DEF Look, TypeOK, files, entry
    <2> QED BY <2>2, <2>3
<1>2. CASE Read(t)
    <2>1. UNCHANGED files
        BY <1>2 DEF Read
    <2>2. CASE GotToken(t) \/ Errs(t)
        BY <2>1, <2>2, EndType DEF TypeOK, files
    <2>3. CASE ~(GotToken(t) \/ Errs(t))
        BY <1>2, <2>1, <2>3, StepType DEF Read, TypeOK, files, entry
    <2> QED BY <2>2, <2>3
<1>3. CASE Refresh(t)
    <2>1. UNCHANGED files
        BY <1>3 DEF Refresh
    <2>2. CASE cognito \in {"down", "revoked"}
        <3>1. Errs(t) \/ Rejected(t)
            BY <1>3, <2>2 DEF Refresh
        <3> QED BY <2>1, <3>1, EndType DEF TypeOK, files
    <2>3. CASE cognito \notin {"down", "revoked"}
        <3>1. PICK n \in 1..MaxLength :
                thread' = [thread EXCEPT ![t] =
                     [thread[t] EXCEPT !.at = "opening",
                                       !.tokens = [fresh |-> TRUE, length |-> n]]]
            BY <1>3, <2>3 DEF Refresh
        <3>2. thread' \in [Threads -> Calls]
            BY <3>1 DEF TypeOK, Calls, Tokens
        <3>3. UNCHANGED <<phase, endings, kept, cognito, prompt, reported>>
            BY <1>3, <2>3 DEF Refresh, entry
        <3> QED BY <2>1, <3>2, <3>3 DEF TypeOK, files
    <2> QED BY <2>2, <2>3
<1>4. CASE Open(t)
    <2>1. PICK i \in Inodes :
            /\ IF tmp # NoFile THEN i = tmp ELSE i \in Free
            /\ tmp' = i
            /\ content' = [content EXCEPT ![i] = EmptyFile]
            /\ thread' = [thread EXCEPT ![t] = [thread[t] EXCEPT !.at = "writing", !.fd = i]]
        BY <1>4 DEF Open
    <2>2. UNCHANGED <<path, phase, endings, kept, cognito, prompt, reported>>
        BY <1>4 DEF Open, entry
    <2>3. content' \in [Inodes -> Files]
        BY <2>1, TokenAssumption DEF TypeOK, EmptyFile, Files
    <2>4. thread' \in [Threads -> Calls]
        BY <2>1 DEF TypeOK, Calls
    <2>5. path # NoFile => path # tmp'
        BY <2>1 DEF TypeOK, Free
    <2> QED BY <2>1, <2>2, <2>3, <2>4, <2>5 DEF TypeOK
<1>5. CASE Write(t)
    <2>1. thread[t] \in Calls /\ thread[t].tokens \in Tokens
        BY DEF TypeOK, Calls
    <2>2. content' \in [Inodes -> Files]
        <3>1. content' = [content EXCEPT ![thread[t].fd] = Overwritten(content[thread[t].fd], thread[t].tokens)]
            BY <1>5 DEF Write
        <3>2. CASE thread[t].fd \in Inodes
            <4>1. Overwritten(content[thread[t].fd], thread[t].tokens) \in Files
                BY <2>1, <3>2, OverwrittenType DEF TypeOK
            <4> QED BY <3>1, <4>1 DEF TypeOK
        <3>3. CASE thread[t].fd \notin Inodes
            BY <3>1, <3>3 DEF TypeOK
        <3> QED BY <3>2, <3>3
    <2>3. thread' \in [Threads -> Calls]
        BY <1>5 DEF Write, TypeOK, Calls
    <2>4. UNCHANGED <<path, tmp, phase, endings, kept, cognito, prompt, reported>>
        BY <1>5 DEF Write, entry
    <2> QED BY <2>2, <2>3, <2>4 DEF TypeOK
<1>6. CASE Replace(t)
    <2>1. CASE tmp = NoFile
        <3>1. UNCHANGED files /\ Errs(t)
            BY <1>6, <2>1 DEF Replace
        <3> QED BY <3>1, EndType DEF TypeOK, files
    <2>2. CASE tmp # NoFile
        <3>1. path' = tmp /\ tmp' = NoFile /\ content' = content
            BY <1>6, <2>2 DEF Replace
        <3>2. CASE t = "setup" /\ phase = "materializing"
            <4>1. Step(t, "looking") /\ phase' = "proving"
                  /\ UNCHANGED <<endings, kept, cognito, prompt, reported>>
                BY <1>6, <2>2, <3>2 DEF Replace
            <4>2. thread' \in [Threads -> Calls]
                BY <4>1, StepType
            <4> QED BY <2>2, <3>1, <4>1, <4>2 DEF TypeOK
        <3>3. CASE ~(t = "setup" /\ phase = "materializing")
            <4>1. GotToken(t)
                BY <1>6, <2>2, <3>3 DEF Replace
            <4> QED BY <2>2, <3>1, <4>1, EndType DEF TypeOK
        <3> QED BY <3>2, <3>3
    <2> QED BY <2>1, <2>2
<1> QED BY <1>1, <1>2, <1>3, <1>4, <1>5, <1>6 DEF Run

LEMMA NextType == TypeOK /\ [Next]_vars => TypeOK'
<1> SUFFICES ASSUME TypeOK, [Next]_vars PROVE TypeOK'
    OBVIOUS
<1> USE TokenAssumption
<1>1. ASSUME NEW c \in Callers, Call(c)
      PROVE  TypeOK'
    <2>1. [Idle EXCEPT !.at = "looking", !.load = endings] \in Calls
        BY IdleType DEF TypeOK, Calls
    <2>2. thread' \in [Threads -> Calls]
        BY <1>1, <2>1 DEF Call, TypeOK
    <2> QED BY <1>1, <2>2 DEF Call, TypeOK, files, entry
<1>2. ASSUME NEW t \in Threads, Run(t)
      PROVE  TypeOK'
    BY <1>2, RunType
<1>3. CASE SetupEntry
    <2>1. PICK n \in 1..MaxLength :
            thread' = [thread EXCEPT !["setup"] =
              [Idle EXCEPT !.at = "opening", !.tokens = [fresh |-> kept, length |-> n]]]
        BY <1>3 DEF SetupEntry
    <2>2. [fresh |-> kept, length |-> n] \in Tokens
        BY DEF TypeOK, Tokens
    <2>3. [Idle EXCEPT !.at = "opening", !.tokens = [fresh |-> kept, length |-> n]] \in Calls
        BY <2>2, IdleType DEF Calls
    <2>4. thread' \in [Threads -> Calls]
        BY <2>1, <2>3 DEF TypeOK
    <2> QED BY <1>3, <2>4 DEF SetupEntry, TypeOK, files
<1>4. CASE Unload \/ RemoveFile \/ Reload \/ SignIn
    <2>1. UNCHANGED <<tmp, content, thread, reported>> /\ path' \in {path, NoFile}
        BY <1>4 DEF Unload, RemoveFile, Reload, SignIn, files
    <2>2. endings' \in 0..MaxEndings
        BY <1>4 DEF Unload, RemoveFile, Reload, SignIn, EndLoad, TypeOK
    <2>3. phase' \in {"unloading", "unloaded"}
        BY <1>4 DEF Unload, RemoveFile, Reload, SignIn
    <2>4. kept' \in BOOLEAN /\ prompt' \in BOOLEAN /\ cognito' \in {"up", "down", "revoked"}
        BY <1>4 DEF Unload, RemoveFile, Reload, SignIn, TypeOK
    <2> QED BY <2>1, <2>2, <2>3, <2>4 DEF TypeOK
<1>5. CASE Crash
    <2>1. thread' \in [Threads -> Calls]
        BY <1>5, IdleType DEF Crash
    <2>2. endings' \in 0..MaxEndings
        BY <1>5 DEF Crash, EndLoad, TypeOK
    <2> QED BY <1>5, <2>1, <2>2 DEF Crash, TypeOK, files
<1>6. CASE Expire
    <2>1. content' \in [Inodes -> Files]
        BY <1>6 DEF Expire, TypeOK, Files
    <2>2. ASSUME NEW t \in Threads
          PROVE  [thread[t] EXCEPT !.tokens.fresh = FALSE] \in Calls
        BY DEF TypeOK, Calls, Tokens
    <2>3. thread' \in [Threads -> Calls]
        BY <1>6, <2>2 DEF Expire
    <2> QED BY <1>6, <2>1, <2>3 DEF Expire, TypeOK
<1>7. CASE CognitoChanges
    BY <1>7 DEF CognitoChanges, TypeOK, files, entry
<1>8. CASE UNCHANGED vars
    BY <1>8 DEF vars, TypeOK, files, entry
<1> QED BY <1>1, <1>2, <1>3, <1>4, <1>5, <1>6, <1>7, <1>8 DEF Next

-----------------------------------------------------------------------------
(* Who runs when *)

LEMMA GoesOn ==
    ASSUME TypeOK, Order, NEW t \in Threads, thread[t] # Idle,
           \A u \in Threads : u # t => thread'[u] = thread[u],
           phase' = phase, path' = path,
           t = "setup" /\ phase = "materializing" =>
               thread'[t].at \in {"opening", "writing", "replacing"}
    PROVE  Order'
<1>1. SetupAt'
    BY DEF Order, SetupAt, Threads
<1>2. CallersAt'
    BY TokenAssumption DEF Order, CallersAt, Threads
<1>3. StoreIsThere'
    BY DEF Order, StoreIsThere
<1> QED BY <1>1, <1>2, <1>3 DEF Order

LEMMA Ends ==
    ASSUME TypeOK, Order, NEW t \in Threads, thread[t] # Idle,
           GotToken(t) \/ Errs(t) \/ Rejected(t),
           path' = path \/ path' # NoFile,
           t = "setup" /\ GotToken(t) => phase = "proving"
    PROVE  Order'
<1>1. thread' = [thread EXCEPT ![t] = Idle]
    BY DEF GotToken, Errs, Rejected, Leave
<1>2. thread'[t] = Idle /\ \A u \in Threads : u # t => thread'[u] = thread[u]
    BY <1>1 DEF TypeOK
<1>3. CASE t = "setup"
    <2>1. phase \in {"materializing", "proving"}
        BY <1>3 DEF Order, SetupAt
    <2>2. \A c \in Callers : thread'[c] = Idle
        BY <1>2, <1>3, <2>1, TokenAssumption DEF Order, CallersAt, Threads
    <2>3. phase' = "loaded" => phase = "proving"
        BY <1>3, <2>1 DEF GotToken, Errs, Rejected
    <2>4. phase' # "proving"
        BY <1>3, <2>1 DEF GotToken, Errs, Rejected
    <2>5. StoreIsThere'
        BY <2>3, <2>4 DEF Order, StoreIsThere
    <2> QED BY <1>2, <1>3, <2>2, <2>5 DEF Order, SetupAt, CallersAt
<1>4. CASE t # "setup"
    <2>1. t \in Callers /\ phase = "loaded"
        BY <1>4 DEF Order, CallersAt, Threads
    <2>2. phase' = phase
        BY <1>4 DEF GotToken, Errs, Rejected
    <2>3. thread'["setup"] = Idle
        BY <1>2, <1>4, <2>1 DEF Order, SetupAt, Threads
    <2>4. StoreIsThere'
        BY <2>1, <2>2 DEF Order, StoreIsThere
    <2> QED BY <2>1, <2>2, <2>3, <2>4 DEF Order, SetupAt, CallersAt
<1> QED BY <1>3, <1>4

LEMMA RunOrder ==
    ASSUME TypeOK, Order, NEW t \in Threads, Run(t)
    PROVE  Order'
<1>1. thread[t] # Idle
    <2>1. thread[t].at # "idle"
        BY DEF Run, Look, Read, Refresh, Open, Write, Replace
    <2>2. Idle.at = "idle"
        BY DEF Idle
    <2> QED BY <2>1, <2>2
<1>2. t = "setup" /\ thread[t].at \in {"looking", "reading", "refreshing"} => phase = "proving"
    BY <1>1 DEF Order, SetupAt
<1>3. t = "setup" /\ phase # "materializing" => phase = "proving"
    BY <1>1 DEF Order, SetupAt
<1>4. ASSUME NEW at, Step(t, at)
      PROVE  thread'[t].at = at /\ \A u \in Threads : u # t => thread'[u] = thread[u]
    BY <1>4 DEF Step, TypeOK, Calls
<1>5. CASE Look(t)
    <2>1. UNCHANGED files /\ thread[t].at = "looking"
        BY <1>5 DEF Look
    <2>2. CASE path = NoFile
        <3>1. Rejected(t) /\ ~(t = "setup" /\ GotToken(t) /\ phase # "proving")
            BY <1>2, <1>5, <2>1, <2>2 DEF Look
        <3> QED BY <1>1, <2>1, <3>1, Ends DEF files
    <2>3. CASE path # NoFile
        <3>1. Step(t, "reading") /\ UNCHANGED phase
            BY <1>5, <2>3 DEF Look, entry
        <3> QED BY <1>1, <1>2, <1>4, <2>1, <3>1, GoesOn DEF files
    <2> QED BY <2>2, <2>3
<1>6. CASE Read(t)
    <2>1. UNCHANGED files /\ thread[t].at = "reading"
        BY <1>6 DEF Read
    <2>2. CASE GotToken(t) \/ Errs(t)
        BY <1>1, <1>2, <2>1, <2>2, Ends DEF files
    <2>3. CASE ~(GotToken(t) \/ Errs(t))
        <3>1. Step(t, "refreshing") /\ UNCHANGED phase
            BY <1>6, <2>3 DEF Read, entry
        <3> QED BY <1>1, <1>2, <1>4, <2>1, <3>1, GoesOn DEF files
    <2> QED BY <2>2, <2>3
<1>7. CASE Refresh(t)
    <2>1. UNCHANGED files /\ thread[t].at = "refreshing"
        BY <1>7 DEF Refresh
    <2>2. CASE cognito \in {"down", "revoked"}
        <3>1. Errs(t) \/ Rejected(t)
            BY <1>7, <2>2 DEF Refresh
        <3> QED BY <1>1, <1>2, <2>1, <3>1, Ends DEF files
    <2>3. CASE cognito \notin {"down", "revoked"}
        <3>1. UNCHANGED phase /\ \A u \in Threads : u # t => thread'[u] = thread[u]
            BY <1>7, <2>3 DEF Refresh, entry, TypeOK
        <3> QED BY <1>1, <1>2, <2>1, <3>1, GoesOn DEF files
    <2> QED BY <2>2, <2>3
<1>8. CASE Open(t)
    <2>1. UNCHANGED <<path, phase>>
        BY <1>8 DEF Open, entry
    <2>2. PICK i \in Inodes :
            thread' = [thread EXCEPT ![t] = [thread[t] EXCEPT !.at = "writing", !.fd = i]]
        BY <1>8 DEF Open
    <2>3. thread'[t].at = "writing" /\ \A u \in Threads : u # t => thread'[u] = thread[u]
        BY <2>2 DEF TypeOK, Calls
    <2> QED BY <1>1, <2>1, <2>3, GoesOn
<1>9. CASE Write(t)
    <2>1. UNCHANGED <<path, phase>>
        BY <1>9 DEF Write, entry
    <2>2. thread' = [thread EXCEPT ![t] = [thread[t] EXCEPT !.at = "replacing", !.fd = NoFile]]
        BY <1>9 DEF Write
    <2>3. thread'[t].at = "replacing" /\ \A u \in Threads : u # t => thread'[u] = thread[u]
        BY <2>2 DEF TypeOK, Calls
    <2> QED BY <1>1, <2>1, <2>3, GoesOn
<1>10. CASE Replace(t)
    <2>1. CASE tmp = NoFile
        <3>1. UNCHANGED files /\ Errs(t)
            BY <1>10, <2>1 DEF Replace
        <3>2. t = "setup" /\ GotToken(t) => phase = "proving"
            BY <1>3, <3>1 DEF Errs, GotToken
        <3> QED BY <1>1, <3>1, <3>2, Ends DEF files
    <2>2. CASE tmp # NoFile
        <3>1. path' # NoFile
            BY <1>10, <2>2 DEF Replace
        <3>2. CASE t = "setup" /\ phase = "materializing"
            <4>1. Step(t, "looking") /\ phase' = "proving"
                BY <1>10, <2>2, <3>2 DEF Replace
            <4>2. \A c \in Callers : thread'[c] = Idle
                BY <1>4, <3>2, <4>1, TokenAssumption DEF Order, CallersAt, Threads
            <4> QED BY <3>1, <4>1, <4>2 DEF Order, SetupAt, CallersAt, StoreIsThere
        <3>3. CASE ~(t = "setup" /\ phase = "materializing")
            <4>1. GotToken(t)
                BY <1>10, <2>2, <3>3 DEF Replace
            <4> QED BY <1>1, <1>3, <3>1, <3>3, <4>1, Ends
        <3> QED BY <3>2, <3>3
    <2> QED BY <2>1, <2>2
<1> QED BY <1>5, <1>6, <1>7, <1>8, <1>9, <1>10 DEF Run

LEMMA NextOrder == TypeOK /\ Order /\ Orderly /\ [Next]_vars => Order'
<1> SUFFICES ASSUME TypeOK, Order, Orderly, [Next]_vars PROVE Order'
    OBVIOUS
<1> USE TokenAssumption DEF Order
<1>1. ASSUME NEW c \in Callers, Call(c)
      PROVE  Order'
    <2>1. phase = "loaded" /\ UNCHANGED <<phase, path>>
        BY <1>1 DEF Call, files, entry
    <2>2. thread["setup"] = Idle
        BY <2>1 DEF SetupAt
    <2>3. thread'["setup"] = Idle
        BY <1>1, <2>2 DEF Call, TypeOK, Threads
    <2> QED BY <2>1, <2>3 DEF SetupAt, CallersAt, StoreIsThere
<1>2. ASSUME NEW t \in Threads, Run(t)
      PROVE  Order'
    BY <1>2, RunOrder
<1>3. CASE SetupEntry
    <2>1. phase = "unloaded" /\ phase' = "materializing"
        BY <1>3 DEF SetupEntry
    <2>2. thread'["setup"].at = "opening" /\ \A c \in Callers : thread'[c] = thread[c]
        BY <1>3 DEF SetupEntry, TypeOK, Threads, Calls, Idle
    <2> QED BY <2>1, <2>2 DEF SetupAt, CallersAt, StoreIsThere
<1>4. CASE Unload \/ RemoveFile \/ Reload \/ SignIn
    <2>1. thread' = thread /\ phase' \in {"unloading", "unloaded"}
          /\ phase \in {"loaded", "unloading", "failed", "unloaded"}
        BY <1>4 DEF Unload, RemoveFile, Reload, SignIn
    <2>2. phase = "loaded" => InFlight = {}
        BY <1>4 DEF Unload, RemoveFile, Reload, SignIn
    <2>3. \A c \in Callers : thread[c] = Idle
        BY <2>2 DEF CallersAt, InFlight
    <2>4. thread["setup"] = Idle
        BY <2>1 DEF SetupAt
    <2> QED BY <2>1, <2>3, <2>4 DEF SetupAt, CallersAt, StoreIsThere
<1>5. CASE Crash
    BY <1>5 DEF Crash, SetupAt, CallersAt, StoreIsThere, Threads
<1>6. CASE Expire
    <2>1. ASSUME NEW t \in Threads
          PROVE  thread'[t].at = thread[t].at /\ (thread[t] = Idle => thread'[t] = Idle)
        <3>1. thread'[t] = [thread[t] EXCEPT !.tokens.fresh = FALSE]
            BY <1>6 DEF Expire
        <3>2. thread[t] \in Calls
            BY DEF TypeOK
        <3>3. thread'[t].at = thread[t].at
            BY <3>1, <3>2 DEF Calls
        <3>4. [Idle EXCEPT !.tokens.fresh = FALSE] = Idle
            <4>1. [NoTokens EXCEPT !.fresh = FALSE] = NoTokens
                <5>1. NoTokens \in Tokens /\ NoTokens.fresh = FALSE
                    BY TokenAssumption DEF NoTokens, Tokens
                <5>2. ASSUME NEW r \in Tokens, r.fresh = FALSE
                      PROVE  [r EXCEPT !.fresh = FALSE] = r
                    BY <5>2 DEF Tokens
                <5> QED BY <5>1, <5>2
            <4>2. [Idle EXCEPT !.tokens = NoTokens] = Idle
                BY DEF Idle
            <4> QED BY <4>1, <4>2 DEF Idle
        <3> QED BY <3>1, <3>3, <3>4
    <2>2. UNCHANGED <<path, phase>>
        BY <1>6 DEF Expire
    <2> QED BY <2>1, <2>2 DEF SetupAt, CallersAt, StoreIsThere, Threads
<1>7. CASE CognitoChanges \/ UNCHANGED vars
    BY <1>7 DEF CognitoChanges, vars, files, entry, SetupAt, CallersAt, StoreIsThere
<1> QED BY <1>1, <1>2, <1>3, <1>4, <1>5, <1>6, <1>7 DEF Next

-----------------------------------------------------------------------------
(* What follows *)

LEMMA InitIInv == Init => IInv
<1> SUFFICES ASSUME Init PROVE IInv
    OBVIOUS
<1>1. TypeOK
    <2>1. content \in [Inodes -> Files]
        BY TokenAssumption DEF Init, EmptyFile, Files
    <2>2. thread \in [Threads -> Calls]
        BY IdleType DEF Init
    <2>3. endings \in 0..MaxEndings
        BY TokenAssumption DEF Init
    <2> QED BY <2>1, <2>2, <2>3 DEF Init, TypeOK
<1>2. Order
    BY DEF Init, Order, SetupAt, CallersAt, StoreIsThere, Threads
<1> QED BY <1>1, <1>2 DEF IInv

THEOREM StoreInvariant == Spec => []IInv
<1>1. IInv /\ [Next]_vars => IInv'
    BY NextType, NextOrder DEF IInv
<1> QED BY InitIInv, <1>1, PTL DEF Spec

\* The two names stand for inodes of their own, and every call is where its load
\* left it, whatever threads, unloads and crashes there are.
THEOREM StoreTyped == Spec => []TypeOK
<1>1. IInv => TypeOK
    BY DEF IInv
<1> QED BY <1>1, StoreInvariant, PTL

\* access_token_from_store never passes a good refresh token off as a missing one,
\* as long as an unload finds no call in flight.
THEOREM OnlyCognitoPrompts == Orderly => (Spec => PromptIsDeserved)
<1> SUFFICES ASSUME Orderly PROVE Spec => PromptIsDeserved
    OBVIOUS
<1>1. IInv /\ [Next]_vars => [~prompt /\ prompt' => cognito = "revoked"]_vars
    <2> SUFFICES ASSUME IInv, Next, ~prompt, prompt'
                 PROVE  cognito = "revoked"
        BY DEF vars
    <2> USE DEF IInv
    <2>1. ASSUME NEW t \in Threads, Run(t)
          PROVE  cognito = "revoked"
        <3>1. CASE Rejected(t)
            <4>1. CASE Look(t)
                <5>1. thread[t].at = "looking" /\ (path # NoFile => prompt' = prompt)
                    BY <4>1 DEF Look
                <5>2. thread[t] # Idle
                    BY <5>1 DEF Idle
                <5>3. phase \in {"proving", "loaded"}
                    BY <5>1, <5>2 DEF Order, SetupAt, CallersAt, Threads
                <5> QED BY <5>1, <5>3 DEF Order, StoreIsThere
            <4>2. CASE Refresh(t)
                BY <4>2 DEF Refresh, Errs, entry
            <4>3. CASE Read(t) \/ Open(t) \/ Write(t) \/ Replace(t)
                BY <4>3 DEF Read, Open, Write, Replace, GotToken, Errs, Step
            <4> QED BY <2>1, <4>1, <4>2, <4>3 DEF Run
        <3>2. CASE ~Rejected(t)
            BY <2>1, <3>2 DEF Run, Look, Read, Refresh, Open, Write, Replace, GotToken, Errs
        <3> QED BY <3>1, <3>2
    <2>2. CASE \E c \in Callers : Call(c)
        BY <2>2 DEF Call
    <2>3. CASE SetupEntry \/ Unload \/ RemoveFile \/ Reload \/ SignIn \/ Crash \/ Expire \/ CognitoChanges
        BY <2>3 DEF SetupEntry, Unload, RemoveFile, Reload, SignIn, Crash, Expire, CognitoChanges
    <2> QED BY <2>1, <2>2, <2>3 DEF Next
<1> QED BY <1>1, StoreInvariant, PTL DEF Spec, PromptIsDeserved

-----------------------------------------------------------------------------
(* Half-written stores *)

\* No payload is written over a longer one.
Fits(t) == content[thread[t].fd].length <= thread[t].tokens.length

LEMMA WritesFit ==
    ASSUME TypeOK, Even \/ (Alone /\ WritesItsOwn),
           NEW t \in Threads, thread[t].at = "writing", thread[t].fd \in Inodes
    PROVE  Fits(t)
<1>1. content[thread[t].fd].length \in 0..MaxLength /\ thread[t].tokens.length \in 1..MaxLength
    BY DEF TypeOK, Files, Calls, Tokens
<1>2. CASE Even
    BY <1>1, <1>2 DEF Even, Fits
<1>3. CASE WritesItsOwn
    BY <1>1, <1>3, TokenAssumption DEF WritesItsOwn, Fits
<1> QED BY <1>2, <1>3

\* A file is mended as long as its writers are left alone.
LEMMA StaysMended ==
    ASSUME TypeOK, NEW t \in Threads, NEW i \in Inodes \cup {NoFile}, Mended(i),
           thread[t].at # "writing", content' = content,
           \A u \in Threads : u # t => thread'[u] = thread[u]
    PROVE  i # NoFile /\ ~content'[i].whole =>
               \E u \in Threads : thread'[u].at = "writing" /\ thread'[u].fd = i
BY DEF Mended

LEMMA RunTidy ==
    ASSUME TypeOK, Order, Tidy, Even \/ (Alone /\ WritesItsOwn), NEW t \in Threads, Run(t)
    PROVE  Tidy'
<1>1. thread[t].at # "idle"
    BY DEF Run, Look, Read, Refresh, Open, Write, Replace
<1>2. thread[t] # Idle
    BY <1>1 DEF Idle
<1>3. \/ t = "setup" /\ phase = "materializing"
          /\ thread[t].at \in {"opening", "writing", "replacing"}
      \/ phase \in {"proving", "loaded"}
    BY <1>2 DEF Order, SetupAt, CallersAt, Threads
<1>4. path \in Inodes \cup {NoFile} /\ tmp \in Inodes \cup {NoFile}
    BY DEF TypeOK
<1>5. ASSUME GotToken(t) \/ Errs(t) \/ Rejected(t)
      PROVE  /\ \A u \in Threads : u # t => thread'[u] = thread[u]
             /\ phase' # "materializing"
             /\ phase' \in {"proving", "loaded"} /\ ~GotToken(t) => phase \in {"proving", "loaded"}
    <2>1. \A u \in Threads : u # t => thread'[u] = thread[u]
        BY <1>5 DEF GotToken, Errs, Rejected, Leave, TypeOK
    <2>2. t # "setup" => phase' = phase /\ phase = "loaded"
        BY <1>2, <1>5 DEF GotToken, Errs, Rejected, Order, CallersAt, Threads
    <2>3. t = "setup" => phase' \in {"loaded", "unloaded", "failed"}
                         /\ (phase' = "loaded" => GotToken(t))
        BY <1>3, <1>5 DEF GotToken, Errs, Rejected
    <2> QED BY <2>1, <2>2, <2>3
<1>6. CASE Look(t) \/ Read(t) \/ Refresh(t)
    <2>1. UNCHANGED files /\ thread[t].at \in {"looking", "reading", "refreshing"}
        BY <1>6 DEF Look, Read, Refresh
    <2>2. phase \in {"proving", "loaded"}
        BY <1>3, <2>1
    <2>3. \A u \in Threads : u # t => thread'[u] = thread[u]
        BY <1>6, <1>5 DEF Look, Read, Refresh, Step, TypeOK
    <2>4. phase' # "materializing"
        BY <1>6, <1>5, <2>2 DEF Look, Read, Refresh, Step, entry
    <2>5. Mended(path)' /\ Mended(tmp)'
        BY <1>4, <2>1, <2>2, <2>3, StaysMended DEF Tidy, Mended, files
    <2> QED BY <2>4, <2>5 DEF Tidy
<1>7. CASE Open(t)
    <2>1. PICK i \in Inodes :
            /\ IF tmp # NoFile THEN i = tmp ELSE i \in Free
            /\ tmp' = i
            /\ content' = [content EXCEPT ![i] = EmptyFile]
            /\ thread' = [thread EXCEPT ![t] = [thread[t] EXCEPT !.at = "writing", !.fd = i]]
        BY <1>7 DEF Open
    <2>2. UNCHANGED <<path, phase>> /\ thread[t].at = "opening"
        BY <1>7 DEF Open, entry
    <2>3. thread'[t].at = "writing" /\ thread'[t].fd = i
          /\ \A u \in Threads : u # t => thread'[u] = thread[u]
        BY <2>1 DEF TypeOK, Calls
    <2>4. Mended(tmp)'
        BY <2>1, <2>3 DEF Mended
    <2>5. ASSUME phase \in {"proving", "loaded"}
          PROVE  Mended(path)'
        <3>1. Mended(path)
            BY <2>5 DEF Tidy
        <3>2. path # NoFile => path # i /\ path \in Inodes
            BY <2>1 DEF TypeOK, Free
        <3>3. path # NoFile => content'[path] = content[path]
            BY <2>1, <3>2 DEF TypeOK
        <3> QED BY <2>2, <2>3, <3>1, <3>3 DEF Mended
    <2> QED BY <2>2, <2>4, <2>5 DEF Tidy
<1>8. CASE Write(t)
    <2>1. thread[t].at = "writing"
          /\ content' = [content EXCEPT ![thread[t].fd] =
                            Overwritten(content[thread[t].fd], thread[t].tokens)]
          /\ thread' = [thread EXCEPT ![t] = [thread[t] EXCEPT !.at = "replacing", !.fd = NoFile]]
          /\ UNCHANGED <<path, tmp, phase>>
        BY <1>8 DEF Write, entry
    <2>2. \A u \in Threads : u # t => thread'[u] = thread[u]
        BY <2>1 DEF TypeOK
    <2>3. ASSUME NEW i \in Inodes, Mended(i)
          PROVE  ~content'[i].whole =>
                     \E u \in Threads : thread'[u].at = "writing" /\ thread'[u].fd = i
        <3>1. CASE thread[t].fd = i
            <4>1. content[i].length <= thread[t].tokens.length
                BY <2>1, <3>1, WritesFit DEF Fits
            <4>2. content[i].length \in Nat /\ thread[t].tokens.length \in Nat
                BY TokenAssumption DEF TypeOK, Files, Calls, Tokens
            <4>3. content'[i] = Overwritten(content[i], thread[t].tokens)
                BY <2>1, <3>1 DEF TypeOK
            <4> QED BY <4>1, <4>2, <4>3 DEF Overwritten
        <3>2. CASE thread[t].fd # i
            <4>1. content'[i] = content[i]
                BY <2>1, <3>2 DEF TypeOK
            <4> QED BY <2>2, <2>3, <3>2, <4>1, InodesType DEF Mended, NoFile
        <3> QED BY <3>1, <3>2
    <2>4. Mended(path) => Mended(path)'
        BY <1>4, <2>1, <2>3 DEF Mended
    <2>5. Mended(tmp) => Mended(tmp)'
        BY <1>4, <2>1, <2>3 DEF Mended
    <2>6. phase = "materializing" => t = "setup"
        BY <1>3
    <2> QED BY <2>1, <2>4, <2>5, <2>6 DEF Tidy
<1>9. CASE Replace(t)
    <2>1. thread[t].at = "replacing"
        BY <1>9 DEF Replace
    <2>2. CASE tmp = NoFile
        <3>1. UNCHANGED files /\ Errs(t)
            BY <1>9, <2>2 DEF Replace
        <3>2. phase' # "materializing" /\ \A u \in Threads : u # t => thread'[u] = thread[u]
            BY <1>5, <3>1
        <3>3. phase' \in {"proving", "loaded"} => phase \in {"proving", "loaded"}
            BY <1>3, <3>1 DEF Errs
        <3>4. phase \in {"proving", "loaded"} => Mended(path)' /\ Mended(tmp)'
            BY <1>4, <2>1, <3>1, <3>2, StaysMended DEF Tidy, Mended, files
        <3> QED BY <3>2, <3>3, <3>4 DEF Tidy
    <2>3. CASE tmp # NoFile
        <3>1. path' = tmp /\ tmp' = NoFile /\ content' = content
            BY <1>9, <2>3 DEF Replace
        <3>2. \A u \in Threads : u # t => thread'[u] = thread[u]
            BY <1>9, <1>5, <2>3 DEF Replace, Step, TypeOK
        <3>3. Mended(tmp)
            BY <1>3, <2>1 DEF Tidy
        <3>4. Mended(path)' /\ Mended(tmp)'
            BY <1>4, <2>1, <3>1, <3>2, <3>3, StaysMended DEF Mended
        <3>5. phase' # "materializing"
            BY <1>9, <1>5, <2>3 DEF Replace
        <3> QED BY <3>4, <3>5 DEF Tidy
    <2> QED BY <2>2, <2>3
<1> QED BY <1>6, <1>7, <1>8, <1>9 DEF Run

LEMMA NextTidy ==
    ASSUME IInv, Orderly, Tidy, Even \/ (Alone /\ WritesItsOwn), [Next]_vars
    PROVE  Tidy'
<1> USE DEF IInv
<1>1. ASSUME NEW c \in Callers, Call(c)
      PROVE  Tidy'
    <2>1. phase = "loaded" /\ UNCHANGED <<files, phase>> /\ thread[c].at = "idle"
          /\ c \in Threads /\ \A u \in Threads : u # c => thread'[u] = thread[u]
        BY <1>1 DEF Call, entry, Idle, TypeOK, Threads
    <2>2. path \in Inodes \cup {NoFile} /\ tmp \in Inodes \cup {NoFile}
        BY DEF TypeOK
    <2>3. Mended(path)' /\ Mended(tmp)'
        BY <2>1, <2>2, StaysMended DEF Tidy, Mended, files
    <2> QED BY <2>1, <2>3 DEF Tidy
<1>2. ASSUME NEW t \in Threads, Run(t)
      PROVE  Tidy'
    BY <1>2, RunTidy
<1>3. CASE SetupEntry
    <2>1. phase' = "materializing" /\ thread'["setup"].at = "opening"
        BY <1>3 DEF SetupEntry, TypeOK, Threads, Calls, Idle
    <2> QED BY <2>1 DEF Tidy
<1>4. CASE Unload \/ RemoveFile \/ Reload \/ SignIn \/ Crash
    BY <1>4 DEF Unload, RemoveFile, Reload, SignIn, Crash, Tidy
<1>5. CASE Expire
    <2>1. UNCHANGED <<path, tmp, phase>>
        BY <1>5 DEF Expire
    <2>2. \A i \in Inodes : content'[i].whole = content[i].whole
        BY <1>5 DEF Expire, TypeOK, Files
    <2>3. \A u \in Threads : thread'[u].at = thread[u].at /\ thread'[u].fd = thread[u].fd
        BY <1>5 DEF Expire, TypeOK, Calls
    <2>4. "setup" \in Threads /\ path \in Inodes \cup {NoFile} /\ tmp \in Inodes \cup {NoFile}
        BY DEF Threads, TypeOK
    <2>5. (Mended(path) => Mended(path)') /\ (Mended(tmp) => Mended(tmp)')
        BY <2>1, <2>2, <2>3, <2>4 DEF Mended
    <2> QED BY <2>1, <2>3, <2>4, <2>5 DEF Tidy
<1>6. CASE CognitoChanges \/ UNCHANGED vars
    BY <1>6 DEF CognitoChanges, vars, files, entry, Tidy, Mended
<1> QED BY <1>1, <1>2, <1>3, <1>4, <1>5, <1>6 DEF Next

LEMMA NextWritesItsOwn ==
    ASSUME IInv, Orderly, Alone, WritesItsOwn, [Next]_vars
    PROVE  WritesItsOwn'
<1> USE DEF IInv
<1>1. ASSUME NEW t \in Threads, NEW u \in Threads, thread[t] # Idle, thread[u] # Idle
      PROVE  t = u
    BY <1>1 DEF Order, SetupAt, CallersAt, Threads, Alone
<1>2. ASSUME NEW c \in Callers, Call(c)
      PROVE  WritesItsOwn'
    <2>1. UNCHANGED files /\ thread'[c].at = "looking"
          /\ \A u \in Threads : u # c => thread'[u] = thread[u]
        BY <1>2 DEF Call, TypeOK, Threads, Idle
    <2> QED BY <2>1 DEF WritesItsOwn, files
<1>3. ASSUME NEW t \in Threads, Run(t)
      PROVE  WritesItsOwn'
    <2>1. thread[t].at # "idle"
        BY <1>3 DEF Run, Look, Read, Refresh, Open, Write, Replace
    <2>2. thread[t] # Idle
        BY <2>1 DEF Idle
    <2>3. \A u \in Threads : u # t => thread[u].at = "idle"
        BY <1>1, <2>2 DEF Idle
    <2>4. CASE Open(t)
        <3>1. PICK i \in Inodes :
                /\ tmp' = i
                /\ content' = [content EXCEPT ![i] = EmptyFile]
                /\ thread' = [thread EXCEPT ![t] = [thread[t] EXCEPT !.at = "writing", !.fd = i]]
            BY <2>4 DEF Open
        <3>2. thread'[t].fd = i /\ \A u \in Threads : u # t => thread'[u] = thread[u]
            BY <3>1 DEF TypeOK, Calls
        <3>3. content'[i].length = 0 /\ i # NoFile
            BY <3>1, InodesType DEF TypeOK, EmptyFile, NoFile
        <3> QED BY <2>3, <3>1, <3>2, <3>3 DEF WritesItsOwn
    <2>5. CASE ~Open(t)
        <3>1. \A u \in Threads : u # t => thread'[u] = thread[u]
            BY <1>3, <2>5 DEF Run, Look, Read, Refresh, Write, Replace, GotToken, Errs, Rejected,
                              Leave, Step, TypeOK
        <3>2. CASE GotToken(t) \/ Errs(t) \/ Rejected(t)
            <4>1. thread'[t] = Idle
                BY <3>2 DEF GotToken, Errs, Rejected, Leave, TypeOK
            <4> QED BY <2>3, <3>1, <4>1 DEF WritesItsOwn, Idle
        <3>3. CASE \E at \in {"looking", "reading", "refreshing"} : Step(t, at)
            <4>1. thread'[t].at \in {"looking", "reading", "refreshing"}
                BY <3>3 DEF Step, TypeOK, Calls
            <4> QED BY <2>3, <3>1, <4>1 DEF WritesItsOwn
        <3>4. CASE Refresh(t) \/ Write(t)
            <4>1. CASE ~(GotToken(t) \/ Errs(t) \/ Rejected(t))
                <5>1. \/ \E tokens : thread' = [thread EXCEPT ![t] =
                               [thread[t] EXCEPT !.at = "opening", !.tokens = tokens]]
                      \/ thread' = [thread EXCEPT ![t] =
                               [thread[t] EXCEPT !.at = "replacing", !.fd = NoFile]]
                    BY <3>4, <4>1 DEF Refresh, Write
                <5>2. thread'[t].at \in {"opening", "replacing"}
                    BY <5>1 DEF TypeOK, Calls
                <5> QED BY <2>3, <3>1, <5>2 DEF WritesItsOwn
            <4> QED BY <3>2, <4>1
        <3>5. CASE Look(t) \/ Read(t) \/ Replace(t)
            BY <3>2, <3>3, <3>5 DEF Look, Read, Replace
        <3> QED BY <1>3, <2>5, <3>4, <3>5 DEF Run
    <2> QED BY <2>4, <2>5
<1>4. CASE SetupEntry
    <2>1. UNCHANGED files /\ thread'["setup"].at = "opening"
          /\ \A u \in Threads : u # "setup" => thread'[u] = thread[u]
        BY <1>4 DEF SetupEntry, TypeOK, Threads, Calls, Idle
    <2> QED BY <2>1 DEF WritesItsOwn, files
<1>5. CASE Unload \/ RemoveFile \/ Reload \/ SignIn
    <2>1. UNCHANGED <<tmp, content, thread>>
        BY <1>5 DEF Unload, RemoveFile, Reload, SignIn, files
    <2> QED BY <2>1 DEF WritesItsOwn
<1>6. CASE Crash
    BY <1>6 DEF Crash, WritesItsOwn, Idle
<1>7. CASE Expire
    <2>1. tmp' = tmp /\ \A i \in Inodes : content'[i].length = content[i].length
        BY <1>7 DEF Expire, TypeOK, Files
    <2>2. \A u \in Threads : thread'[u].at = thread[u].at /\ thread'[u].fd = thread[u].fd
        BY <1>7 DEF Expire, TypeOK, Calls
    <2>3. tmp \in Inodes \cup {NoFile}
        BY DEF TypeOK
    <2> QED BY <2>1, <2>2, <2>3 DEF WritesItsOwn
<1>8. CASE CognitoChanges \/ UNCHANGED vars
    BY <1>8 DEF CognitoChanges, vars, files, entry, WritesItsOwn
<1> QED BY <1>2, <1>3, <1>4, <1>5, <1>6, <1>7, <1>8 DEF Next

LEMMA HalfWrittenInvariant == Orderly /\ (Even \/ Alone) => (Spec => []WInv)
<1> SUFFICES ASSUME Orderly, Even \/ Alone PROVE Spec => []WInv
    OBVIOUS
<1>1. Init => WInv
    BY InitIInv DEF Init, WInv, Tidy, WritesItsOwn, Idle
<1>2. WInv /\ [Next]_vars => WInv'
    BY NextType, NextOrder, NextTidy, NextWritesItsOwn DEF WInv, IInv
<1> QED BY <1>1, <1>2, PTL DEF Spec

\* When payloads have one length, whatever threads save at once and whenever the process
\* dies, a store that setup or a caller finds half-written has a save in flight that is
\* about to make it whole (save_tokens, load_tokens): "try later" is the right answer.
THEOREM TryLaterIsRight == Orderly /\ Even => (Spec => []CorruptIsInFlight)
<1> SUFFICES ASSUME Orderly, Even PROVE Spec => []CorruptIsInFlight
    OBVIOUS
<1>1. WInv => CorruptIsInFlight
    BY DEF WInv, Tidy, CorruptIsInFlight
<1> QED BY <1>1, HalfWrittenInvariant, PTL

\* What save_tokens says of readers holds of a single thread, for payloads of any
\* length and crashes anywhere between its steps.
THEOREM AloneNoHalfWritten == Orderly /\ Alone => (Spec => []ReadersSeeWhole)
<1> SUFFICES ASSUME Orderly, Alone PROVE Spec => []ReadersSeeWhole
    OBVIOUS
<1>1. WInv => ReadersSeeWhole
    BY DEF WInv, IInv, TypeOK, Tidy, Mended, WritesItsOwn, ReadersSeeWhole, StoreIsWhole
<1> QED BY <1>1, HalfWrittenInvariant, PTL

=============================================================================

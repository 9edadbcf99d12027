----------------------------- MODULE TokenStore -----------------------------
(***************************************************************************)
(* The Cognito token store of one config entry: cloud_auth's load_tokens,  *)
(* save_tokens and access_token_from_store, called without a lock by the   *)
(* backend's threads (the stream, the snapshot refresh, an energy poll, a  *)
(* relay command) and by the entry's setup; and what the entry's life does *)
(* to the file under them.                                                 *)
(*                                                                         *)
(* Every system call on the two names, the store and its ".tmp", is a step *)
(* of its own.  A name stands for an inode, so that a thread may write to  *)
(* a file another thread has meanwhile published.  A payload is small      *)
(* enough to reach the file in the one write of its closing flush.         *)
(*                                                                         *)
(* Cognito, the clock and Home Assistant's reauth prompt are external.     *)
(***************************************************************************)
EXTENDS Integers, FiniteSets

CONSTANTS
    Callers,    \* threads of the backend that need an access token
    MaxLength,  \* payloads are 1..MaxLength long (expires_at prints unevenly)
    Orderly,    \* an unload finds no call in flight
    MaxEndings  \* bound: unloads, sign-ins and crashes the entry goes through

ASSUME TokenAssumption ==
    /\ IsFiniteSet(Callers)
    /\ "setup" \notin Callers
    /\ MaxLength \in Nat \ {0}
    /\ Orderly \in BOOLEAN
    /\ MaxEndings \in Nat

VARIABLES
    path,     \* the inode the store's name stands for, NoFile when absent
    tmp,      \* likewise its ".tmp"
    content,  \* what each inode holds
    thread,   \* where each thread is in access_token_from_store
    phase,    \* the entry's setup state
    endings,  \* how often the entry was ended: the number of this load
    kept,     \* the entry's own copy of the tokens is still fresh
    cognito,  \* external: "up", "down", or refusing the refresh token
    prompt,   \* external: a reauth flow is open
    reported  \* loads whose backend has set _auth_failure_reported

files == <<path, tmp, content>>
entry == <<phase, endings, kept>>
vars  == <<files, thread, entry, cognito, prompt, reported>>

Threads == Callers \cup {"setup"}

\* Every thread may hold one inode open, beside the two named ones.
Inodes == 1 .. (Cardinality(Callers) + 3)

NoFile == 0

\* A file: `whole` when it parses.  `fresh` is ~expired.
Files  == [whole : BOOLEAN, fresh : BOOLEAN, length : 0..MaxLength]
Tokens == [fresh : BOOLEAN, length : 1..MaxLength]

EmptyFile == [whole |-> FALSE, fresh |-> FALSE, length |-> 0]
NoTokens  == [fresh |-> FALSE, length |-> 1]

Calls == [at : {"idle", "looking", "reading", "refreshing", "opening", "writing",
                "replacing"},
          load : 0..MaxEndings, fd : Inodes \cup {NoFile}, tokens : Tokens]

Idle == [at |-> "idle", load |-> 0, fd |-> NoFile, tokens |-> NoTokens]

-----------------------------------------------------------------------------
Init ==
    /\ path = NoFile /\ tmp = NoFile
    /\ content = [i \in Inodes |-> EmptyFile]
    /\ thread = [t \in Threads |-> Idle]
    /\ phase = "unloaded"
    /\ endings = 0
    /\ kept = TRUE
    /\ cognito = "up"
    /\ prompt = FALSE
    /\ reported = {}

(* How a call ends *)

Step(t, at) == thread' = [thread EXCEPT ![t] = [thread[t] EXCEPT !.at = at]]

Leave(t) == thread' = [thread EXCEPT ![t] = Idle]

\* async_setup_entry: a token in hand, the entry is loaded.
GotToken(t) ==
    /\ Leave(t)
    /\ phase' = IF t = "setup" THEN "loaded" ELSE phase
    /\ UNCHANGED <<endings, kept, cognito, prompt, reported>>

\* Any other failure.  Setup retries when it was proving the credentials, not when
\* it was writing them.
Errs(t) ==
    /\ Leave(t)
    /\ phase' = IF t # "setup" THEN phase
                ELSE IF phase = "proving" THEN "unloaded" ELSE "failed"
    /\ UNCHANGED <<endings, kept, cognito, prompt, reported>>

\* Mutant: the latch outlives the backend it belongs to.
RejectedOnce(t) ==
    /\ Leave(t)
    /\ IF t = "setup"
       THEN /\ phase' = "failed" /\ prompt' = TRUE
            /\ UNCHANGED reported
       ELSE /\ prompt' = (prompt \/ reported = {})
            /\ reported' = reported \cup {thread[t].load}
            /\ UNCHANGED phase
    /\ UNCHANGED <<endings, kept, cognito>>

\* CloudCredentialsRejected: setup raises ConfigEntryAuthFailed, a backend reports
\* it once in its life.  A flow already open is not opened again.
Rejected(t) ==
    /\ Leave(t)
    /\ IF t = "setup"
       THEN /\ phase' = "failed" /\ prompt' = TRUE
            /\ UNCHANGED reported
       ELSE /\ prompt' = (prompt \/ thread[t].load \notin reported)
            /\ reported' = reported \cup {thread[t].load}
            /\ UNCHANGED phase
    /\ UNCHANGED <<endings, kept, cognito>>

(* access_token_from_store, step by step *)

\* A thread of the loaded entry needs a token.
Call(c) ==
    /\ phase = "loaded"
    /\ thread[c] = Idle
    /\ thread' = [thread EXCEPT ![c] = [Idle EXCEPT !.at = "looking", !.load = endings]]
    /\ UNCHANGED <<files, entry, cognito, prompt, reported>>

\* load_tokens: path.exists().
Look(t) ==
    /\ thread[t].at = "looking"
    /\ UNCHANGED files
    /\ IF path = NoFile
       THEN Rejected(t)
       ELSE Step(t, "reading") /\ UNCHANGED <<entry, cognito, prompt, reported>>

\* Mutant: a store that does not parse counts as none.
ReadCorruptAsNone(t) ==
    /\ thread[t].at = "reading"
    /\ UNCHANGED files
    /\ IF path = NoFile \/ ~content[path].whole
       THEN Rejected(t)
       ELSE IF content[path].fresh
            THEN GotToken(t)
            ELSE Step(t, "refreshing") /\ UNCHANGED <<entry, cognito, prompt, reported>>

\* load_tokens: read_text() and the parse; then the expiry test.  A store that does
\* not parse, or is gone by now, is an error like any other.
Read(t) ==
    /\ thread[t].at = "reading"
    /\ UNCHANGED files
    /\ IF path = NoFile \/ ~content[path].whole
       THEN Errs(t)
       ELSE IF content[path].fresh
            THEN GotToken(t)
            ELSE Step(t, "refreshing") /\ UNCHANGED <<entry, cognito, prompt, reported>>

\* refresh: one round-trip to Cognito.
Refresh(t) ==
    /\ thread[t].at = "refreshing"
    /\ UNCHANGED files
    /\ CASE cognito = "down"    -> Errs(t)
         [] cognito = "revoked" -> Rejected(t)
         [] OTHER ->
              /\ \E n \in 1..MaxLength :
                   thread' = [thread EXCEPT ![t] =
                     [thread[t] EXCEPT !.at = "opening",
                                       !.tokens = [fresh |-> TRUE, length |-> n]]]
              /\ UNCHANGED <<entry, cognito, prompt, reported>>

\* Inodes no name and no thread refers to; the first of them serves a new file.
Free == Inodes \ ({path, tmp} \cup {thread[t].fd : t \in Threads})

\* save_tokens: os.open of the temp file, O_CREAT | O_TRUNC.
Open(t) ==
    /\ thread[t].at = "opening"
    /\ \E i \in Inodes :
         /\ IF tmp # NoFile THEN i = tmp ELSE i \in Free /\ \A j \in Free : i <= j
         /\ tmp' = i
         /\ content' = [content EXCEPT ![i] = EmptyFile]
         /\ thread' = [thread EXCEPT ![t] = [thread[t] EXCEPT !.at = "writing", !.fd = i]]
    /\ UNCHANGED <<path, entry, cognito, prompt, reported>>

\* Mutant: the payload is appended.
Appended(file, tokens) ==
    IF file.length > 0
    THEN [file EXCEPT !.whole = FALSE]
    ELSE [whole |-> TRUE, fresh |-> tokens.fresh, length |-> tokens.length]

\* What a file holds after a payload is written at its beginning.
Overwritten(file, tokens) ==
    IF file.length > tokens.length
    THEN [file EXCEPT !.whole = FALSE]
    ELSE [whole |-> TRUE, fresh |-> tokens.fresh, length |-> tokens.length]

\* save_tokens: the payload reaches the inode the thread has open.
Write(t) ==
    /\ thread[t].at = "writing"
    /\ content' = [content EXCEPT ![thread[t].fd] =
                     Overwritten(content[thread[t].fd], thread[t].tokens)]
    /\ thread' = [thread EXCEPT ![t] = [thread[t] EXCEPT !.at = "replacing", !.fd = NoFile]]
    /\ UNCHANGED <<path, tmp, entry, cognito, prompt, reported>>

\* Mutant: the temp file is linked to the store's name and left behind.
ReplaceByLink(t) ==
    /\ thread[t].at = "replacing"
    /\ IF tmp = NoFile
       THEN UNCHANGED files /\ Errs(t)
       ELSE /\ path' = tmp
            /\ UNCHANGED <<tmp, content>>
            /\ IF t = "setup" /\ phase = "materializing"
               THEN /\ Step(t, "looking") /\ phase' = "proving"
                    /\ UNCHANGED <<endings, kept, cognito, prompt, reported>>
               ELSE GotToken(t)

\* save_tokens: os.replace, which raises when another thread has moved the file.
Replace(t) ==
    /\ thread[t].at = "replacing"
    /\ IF tmp = NoFile
       THEN UNCHANGED files /\ Errs(t)
       ELSE /\ path' = tmp /\ tmp' = NoFile
            /\ UNCHANGED content
            /\ IF t = "setup" /\ phase = "materializing"
               THEN /\ Step(t, "looking") /\ phase' = "proving"
                    /\ UNCHANGED <<endings, kept, cognito, prompt, reported>>
               ELSE GotToken(t)

(* The entry's life *)

\* async_setup_entry begins by writing the tokens of the entry over the store.
SetupEntry ==
    /\ phase = "unloaded"
    /\ phase' = "materializing"
    /\ \E n \in 1..MaxLength :
         thread' = [thread EXCEPT !["setup"] =
           [Idle EXCEPT !.at = "opening", !.tokens = [fresh |-> kept, length |-> n]]]
    /\ UNCHANGED <<files, endings, kept, cognito, prompt, reported>>

InFlight == {c \in Callers : thread[c] # Idle}

EndLoad ==
    /\ endings < MaxEndings
    /\ endings' = endings + 1

\* async_unload_entry up to the end of async_shutdown: no call is made any more.
Unload ==
    /\ phase = "loaded"
    /\ Orderly => InFlight = {}
    /\ EndLoad
    /\ phase' = "unloading"
    /\ UNCHANGED <<files, thread, kept, cognito, prompt, reported>>

\* async_unload_entry: the token file is removed.
RemoveFile ==
    /\ phase = "unloading"
    /\ path' = NoFile
    /\ phase' = "unloaded"
    /\ UNCHANGED <<tmp, content, thread, endings, kept, cognito, prompt, reported>>

\* A failed entry has nothing to unload: the user reloads it.
Reload ==
    /\ phase = "failed"
    /\ EndLoad
    /\ phase' = "unloaded"
    /\ UNCHANGED <<files, thread, kept, cognito, prompt, reported>>

\* async_update_reload_and_abort: the user has signed in again, the entry has new
\* tokens and is reloaded.  The new refresh token stands for the old one.
SignIn ==
    /\ prompt
    /\ cognito # "down"
    /\ phase \in {"loaded", "failed", "unloaded"}
    /\ Orderly => InFlight = {}
    /\ EndLoad
    /\ prompt' = FALSE
    /\ cognito' = "up"
    /\ kept' = TRUE
    /\ phase' = IF phase = "loaded" THEN "unloading" ELSE "unloaded"
    /\ UNCHANGED <<files, thread, reported>>

\* Home Assistant dies, flows and all, and comes back.
Crash ==
    /\ EndLoad
    /\ thread' = [t \in Threads |-> Idle]
    /\ phase' = "unloaded"
    /\ prompt' = FALSE
    /\ UNCHANGED <<files, kept, cognito, reported>>

(* The outside world *)

\* The hour of every access token issued so far runs out.
Expire ==
    /\ content' = [i \in Inodes |-> [content[i] EXCEPT !.fresh = FALSE]]
    /\ thread' = [t \in Threads |-> [thread[t] EXCEPT !.tokens.fresh = FALSE]]
    /\ kept' = FALSE
    /\ UNCHANGED <<path, tmp, phase, endings, cognito, prompt, reported>>

CognitoChanges ==
    /\ cognito # "revoked"
    /\ cognito' \in {"up", "down", "revoked"} \ {cognito}
    /\ UNCHANGED <<files, thread, entry, prompt, reported>>

-----------------------------------------------------------------------------
Run(t) == Look(t) \/ Read(t) \/ Refresh(t) \/ Open(t) \/ Write(t) \/ Replace(t)

Next ==
    \/ \E c \in Callers : Call(c)
    \/ \E t \in Threads : Run(t)
    \/ SetupEntry
    \/ Unload
    \/ RemoveFile
    \/ Reload
    \/ SignIn
    \/ Crash
    \/ Expire
    \/ CognitoChanges

\* Threads run, calls recur, Home Assistant sets the entry up, tokens expire.
Fairness ==
    /\ \A c \in Callers : WF_vars(Call(c))
    /\ \A t \in Threads : WF_vars(Run(t))
    /\ WF_vars(SetupEntry)
    /\ WF_vars(RemoveFile)
    /\ WF_vars(Expire)

Spec == Init /\ [][Next]_vars /\ Fairness

-----------------------------------------------------------------------------
(* Properties *)

TypeOK ==
    /\ path \in Inodes \cup {NoFile}
    /\ tmp \in Inodes \cup {NoFile}
    /\ path # NoFile => path # tmp
    /\ content \in [Inodes -> Files]
    /\ thread \in [Threads -> Calls]
    /\ phase \in {"unloaded", "materializing", "proving", "loaded", "unloading", "failed"}
    /\ endings \in 0..MaxEndings
    /\ cognito \in {"up", "down", "revoked"}
    /\ reported \subseteq 0..MaxEndings
    /\ {kept, prompt} \subseteq BOOLEAN

\* "a reader never sees a half-written store" (save_tokens).
StoreIsWhole == path # NoFile => content[path].whole

\* Only a terminal answer of Cognito asks the user to sign in again
\* (access_token_from_store: "Each of those needs the user to sign in again"): no
\* race over the two file names passes a good refresh token off as a missing one.
PromptIsDeserved == [][~prompt /\ prompt' => cognito = "revoked"]_vars

\* A store found corrupt is a CloudAuthError, "try later": later it is whole again.
TryLaterHelps == []<>StoreIsWhole

\* A refresh token that is revoked for good is put to the user, if need be after
\* every restart again.
RevocationIsReported == cognito = "revoked" ~> prompt \/ cognito # "revoked"
=============================================================================

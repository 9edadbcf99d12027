--------------------------- MODULE SignInPayloads ---------------------------
(***************************************************************************)
(* The sign-in, with a Cognito that knows a password and plays its side of *)
(* the exchange.                                                           *)
(***************************************************************************)
EXTENDS Handling, Digits

CONSTANTS
    N,             \* the modulus of the group
    G,             \* its generator
    Hash(_, _),    \* SHA-256 of the parts that are hashed together
    Passwords,     \* what is registered and what is typed
    Salts,         \* what Cognito salts a password with
    Numbers        \* some of the numbers that are hashed

Proof == INSTANCE PasswordProof

Hashed == ((0 .. N - 1) \X (0 .. N - 1)) \cup (Salts \X Passwords) \cup {<<N, G>>}

ASSUME GroupAssumption ==
  /\ N \in Nat \ {0} /\ G \in Nat /\ Numbers \subseteq Nat
  /\ \A pair \in Hashed : Hash(pair[1], pair[2]) \in Nat

(***************************************************************************)
(* Cognito: it challenges, fails or says that there is no such user, and   *)
(* judges the response by a secret of its own; it may also want another    *)
(* step, be out or leave a token out.                                      *)
(***************************************************************************)
Error(status, type) == [status |-> status, type |-> type, challenge |-> "", result |-> {},
                        salt |-> 0, big_b |-> 0]
Answers(challenge, result, salt, big_b) ==
  [status |-> 200, type |-> <<>>, challenge |-> challenge, result |-> result,
   salt |-> salt, big_b |-> big_b]

Opening(mode, prefix, salt, big_b) ==
  CASE mode = "nobody"    -> Error(400, Append(prefix, "UserNotFoundException"))
    [] mode = "throttled" -> Error(400, Append(prefix, "TooManyRequestsException"))
    [] mode = "down"      -> Error(502, <<>>)
    [] mode = "device"    -> Answers("DEVICE_SRP_AUTH", {}, salt, big_b)
    [] OTHER              -> Answers("PASSWORD_VERIFIER", {}, salt, big_b)

Verdict(mode, prefix, holds) ==
  CASE mode = "outage"                -> Error(500, Append(prefix, "InternalErrorException"))
    [] mode # "outage" /\ ~holds      -> Error(400, Append(prefix, "NotAuthorizedException"))
    [] mode = "mfa" /\ holds          -> Answers("SMS_MFA", {}, 0, 0)
    [] mode = "incomplete" /\ holds   -> Answers("", {"AccessToken"}, 0, 0)
    [] OTHER                          -> Answers("", {"AccessToken", "IdToken", "RefreshToken"}, 0, 0)

SignInModes == {"plain", "nobody", "throttled", "down", "device", "outage", "mfa", "incomplete"}
Namespaces == {<<>>, <<"com.amazon.coral.service">>}

Verifier(salt, password) == Proof!PowMod(G, Hash(salt, password))
BigB(verifier, b) == (Hash(N, G) * verifier + Proof!PowMod(G, b)) % N
Scrambler(a, big_b) == Hash(Proof!PowMod(G, a), big_b)
\* The secret that Cognito arrives at.
CognitoSecret(verifier, a, u, b) ==
  Proof!PowMod((Proof!PowMod(G, a) * Proof!PowMod(verifier, u)) % N, b)

OnSignIn ==
  /\ Comes("sign-in")
  /\ \E a \in Proof!_generate_a : \E b \in 0 .. N - 1 : \E salt \in Salts : \E registered, typed \in Passwords :
     \E mode \in SignInModes : \E prefix \in Namespaces :
       LET verifier == Verifier(salt, registered)
           big_b == BigB(verifier, b)
           u == Scrambler(a, big_b)
           respond == [proof \in [secret : 0 .. N - 1, scrambler : Nat] |->
                         Verdict(mode, prefix,
                                 proof = [secret |-> CognitoSecret(verifier, a, u, b), scrambler |-> u])]
       IN  Handled([right |-> typed = registered, mode |-> mode, usable |-> big_b # 0 /\ u # 0],
                   Proof!authenticate(Opening(mode, prefix, salt, big_b), respond, typed, a))

\* The numbers that are hashed.
OnPad ==
  /\ Comes("pad")
  /\ \E value \in Numbers : Handled(value, Proof!_pad_hex(value))

SignInKinds == {"sign-in", "pad"}
SignInNext == OnSignIn \/ OnPad

\* Sign-ins, whatever else is handled in between.
SignInSpec == Init /\ [][SignInNext \/ Rest \/ Elsewhere(SignInKinds)]_vars

(***************************************************************************)
(* What must hold.                                                         *)
(***************************************************************************)

\* The right password signs in, whatever the two sides drew, unless the client
\* refuses the challenge; the user is told that the credentials are bad only if
\* Cognito found them so, under either spelling of its errors, and always then;
\* an outage, a throttle or a step that is not supported is never put that way
\* (_process_challenge, _cognito_call, _error_type, authenticate).
PasswordIsJudged ==
  kind = "sign-in" =>
    /\ given.mode = "plain" /\ given.right /\ given.usable => got = "tokens"
    /\ got = "tokens" => given.mode = "plain" /\ given.usable
    /\ got = "rejected" /\ given.mode # "nobody" =>
         ~given.right /\ given.mode \in {"plain", "mfa", "incomplete"}
    /\ given.mode = "nobody" => got = "rejected"

\* A padded number has whole bytes, is not negative to a reader that takes it
\* as two's complement, and is the number (_pad_hex).
PadIsUnsigned ==
  kind = "pad" =>
    /\ Len(got) % 2 = 0
    /\ got[1] < 8
    /\ given = NumberOf([i \in 1 .. Len(got) |-> got[Len(got) + 1 - i]], 16)

\* Both sides hash the number that was meant, and the password is judged as
\* Cognito judges it.
SignInIsJudged == PasswordIsJudged /\ PadIsUnsigned

=============================================================================

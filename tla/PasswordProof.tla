--------------------------- MODULE PasswordProof ---------------------------
(***************************************************************************)
(* span_client/cloud_auth.py's part of a sign-in: the SRP exchange with    *)
(* Cognito, in a small group.  SHA-256 is a function Hash of two numbers;  *)
(* the HMAC over the derived key is the pair of what it is computed from.  *)
(***************************************************************************)
EXTENDS Digits, SequencesExt

CONSTANTS N, G, Hash(_, _)

\* The built-in pow(base, e, N).
PowMod(base, e) ==
  LET pow[n \in Nat] == IF n = 0 THEN 1 % N ELSE (base * pow[n - 1]) % N
  IN  pow[e]

\* Hexadecimal digits of an unsigned number, most significant first.
Hex(value) ==
  LET n == DigitCount(value, 16)
  IN  [i \in 1 .. n |-> Digit(value, 16, n + 1 - i)]

_pad_hex(value) ==
  LET h == Hex(value)
  IN  IF Len(h) % 2 = 1 THEN <<0>> \o h
      ELSE IF h[1] >= 8 THEN <<0, 0>> \o h
      ELSE h

_k == Hash(N, G)

\* The exponents _generate_a may return; it draws again when A is 0 mod N.
_generate_a == {a \in 0 .. N - 1 : PowMod(G, a) % N # 0}

\* Mutant: the multiplier is left out.
ChallengeWithoutK(password, salt, big_b, a) ==
  LET u == Hash(PowMod(G, a), big_b)
      x == Hash(salt, password)
  IN  IF big_b % N = 0 \/ u = 0
        THEN {}
        ELSE {[secret |-> PowMod((big_b - PowMod(G, x)) % N, a + u * x), scrambler |-> u]}

\* What the client sends back for a challenge, or nothing when it raises.
_process_challenge(password, salt, big_b, a) ==
  LET u == Hash(PowMod(G, a), big_b)
      x == Hash(salt, password)
      base == (big_b - _k * PowMod(G, x)) % N
  IN  IF big_b % N = 0 \/ u = 0
        THEN {}
        ELSE {[secret |-> PowMod(base, a + u * x), scrambler |-> u]}

(***************************************************************************)
(* The two calls of a sign-in.  A response of Cognito has an HTTP status;  *)
(* an error is named by the parts of its type, the last of which is its    *)
(* name; an answer has a challenge, or the names of the tokens it brings.  *)
(***************************************************************************)
TERMINAL_COGNITO_ERRORS ==
  {"NotAuthorizedException", "UserNotFoundException", "UserNotConfirmedException",
   "PasswordResetRequiredException"}

_error_type(parts) == IF parts = <<>> THEN {} ELSE {Last(parts)}

\* How a call that is no answer ends.
_cognito_call(resp) ==
  IF resp.status = 200 THEN {}
  ELSE IF _error_type(resp.type) \cap TERMINAL_COGNITO_ERRORS # {} THEN {"rejected"} ELSE {"failed"}

_tokens_from_result(result) ==
  IF {"AccessToken", "IdToken"} \subseteq result THEN "tokens" ELSE "failed"

\* respond[proof] is what Cognito makes of the response to its challenge.
authenticate(first, respond, password, a) ==
  LET proof == _process_challenge(password, first.salt, first.big_b, a)
      second == respond[CHOOSE p \in proof : TRUE]
  IN  IF _cognito_call(first) # {} THEN CHOOSE r \in _cognito_call(first) : TRUE
      ELSE IF first.challenge # "PASSWORD_VERIFIER" \/ proof = {} THEN "failed"
      ELSE IF _cognito_call(second) # {} THEN CHOOSE r \in _cognito_call(second) : TRUE
      ELSE _tokens_from_result(second.result)

=============================================================================

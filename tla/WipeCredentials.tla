--------------------------- MODULE WipeCredentials ---------------------------
(***************************************************************************)
(* auth-service: the credentials that authorize a panic wipe (the wipe key  *)
(* and the panic PIN, columns of one user_security_settings row) and the    *)
(* single-use challenges in Redis.  Requests of several sessions of one     *)
(* account, not all of them with the password or a private key, interleave  *)
(* between their statements.  What a request carries (password, signature,  *)
(* challenge, PIN) is chosen when the handler looks at it.                  *)
(***************************************************************************)
EXTENDS Naturals, FiniteSets

CONSTANTS
    WipeKeys,    \* wipe key pairs
    Pins,        \* panic PINs
    Challenges,  \* challenge ids
    Asks,        \* requests
    Nothing      \* NULL

ASSUME CredentialsAssumption ==
    Nothing \notin WipeKeys \union Pins \union Challenges

VARIABLES
    settings,   \* the user_security_settings row
    challenge,  \* wipe challenges in Redis
    ask,        \* the requests
    user        \* users row and wiped_accounts marker

credentialVars == <<settings, challenge, ask, user>>

\* key: the key to install; old: the key the handler read; by: the key whose
\* signature it accepted; spent: the challenge it consumed; password: checked.
Ask == [pc : {"new", "enroll", "insert", "rotate", "swap", "verifier", "signature",
              "pin", "setpin", "authorized", "done"},
        key : WipeKeys \union {Nothing}, old : WipeKeys \union {Nothing},
        by : WipeKeys \union {Nothing}, spent : Challenges \union {Nothing},
        password : BOOLEAN]

CredentialsTypeOK ==
    /\ settings \in [row : BOOLEAN, key : WipeKeys \union {Nothing},
                     pin : Pins \union {Nothing}]
    /\ challenge \in [Challenges -> {"none", "issued", "gone"}]
    /\ ask \in [Asks -> Ask]
    /\ user \in {"live", "marked", "gone"}

NoSettings == [row |-> FALSE, key |-> Nothing, pin |-> Nothing]
NewAsk == [pc |-> "new", key |-> Nothing, old |-> Nothing, by |-> Nothing,
           spent |-> Nothing, password |-> FALSE]

CredentialsInit ==
    /\ settings = NoSettings
    /\ challenge = [c \in Challenges |-> "none"]
    /\ ask = [r \in Asks |-> NewAsk]
    /\ user = "live"

End(r) == ask' = [ask EXCEPT ![r].pc = "done"]

-----------------------------------------------------------------------------
\* NewWipeChallengeHandler, and the end of wipeChallengeTTL.
IssueChallenge(c) ==
    /\ challenge[c] = "none" /\ user = "live"
    /\ challenge' = [challenge EXCEPT ![c] = "issued"]
    /\ UNCHANGED <<settings, ask, user>>

ChallengeExpires(c) ==
    /\ challenge[c] = "issued"
    /\ challenge' = [challenge EXCEPT ![c] = "gone"]
    /\ UNCHANGED <<settings, ask, user>>

\* GETDEL.
Spend(c) == challenge[c] = "issued" /\ challenge' = [challenge EXCEPT ![c] = "gone"]

-----------------------------------------------------------------------------
\* NewSetWipePublicKeyHandler: whether this is an enrollment, a repetition or
\* a rotation is decided by the stored key.
SetKeyLookup(r, k) ==
    /\ ask[r].pc = "new" /\ user = "live"
    /\ ask' = [ask EXCEPT ![r].key = k, ![r].old = settings.key,
                 ![r].pc = IF settings.key = Nothing THEN "enroll"
                           ELSE IF settings.key = k THEN "done" ELSE "rotate"]
    /\ UNCHANGED <<settings, challenge, user>>

\* The password is missing, wrong or cannot be looked up, or it is right.
EnrollPassword(r) ==
    /\ ask[r].pc = "enroll"
    /\ \/ End(r)
       \/ ask' = [ask EXCEPT ![r].pc = "insert", ![r].password = TRUE]
    /\ UNCHANGED <<settings, challenge, user>>

\* qEnrollWipePublicKey: set if null.
Enroll(r) ==
    /\ ask[r].pc = "insert"
    /\ \/ /\ user # "gone" /\ settings.key = Nothing
          /\ settings' = [settings EXCEPT !.row = TRUE, !.key = ask[r].key]
       \/ UNCHANGED settings
    /\ End(r)
    /\ UNCHANGED <<challenge, user>>

\* The challenge is consumed before the signature is verified, by the key that
\* was read, over the challenge and the new key.
RotateProof(r, c) ==
    /\ ask[r].pc = "rotate"
    /\ \/ /\ Spend(c)
          /\ \/ ask' = [ask EXCEPT ![r].pc = "swap", ![r].spent = c, ![r].by = ask[r].old]
             \/ End(r)
       \/ End(r) /\ UNCHANGED challenge
    /\ UNCHANGED <<settings, user>>

\* Mutant: UPDATE ... WHERE uin = $1 AND wipe_public_key IS NOT NULL.
RotateAny(r) ==
    /\ ask[r].pc = "swap"
    /\ settings' = IF settings.key # Nothing THEN [settings EXCEPT !.key = ask[r].key]
                   ELSE settings
    /\ End(r)
    /\ UNCHANGED <<challenge, user>>

\* qUpdateWipePublicKey: compare and swap.
Rotate(r) ==
    /\ ask[r].pc = "swap"
    /\ \/ settings.key = ask[r].old /\ settings' = [settings EXCEPT !.key = ask[r].key]
       \/ UNCHANGED settings
    /\ End(r)
    /\ UNCHANGED <<challenge, user>>

-----------------------------------------------------------------------------
\* NewSetPanicPinHandler: the password, then the upsert or the clearing.
PinPassword(r) ==
    /\ ask[r].pc = "new" /\ user = "live"
    /\ \/ ask' = [ask EXCEPT ![r].pc = "setpin", ![r].password = TRUE]
       \/ End(r)
    /\ UNCHANGED <<settings, challenge, user>>

SetPin(r) ==
    /\ ask[r].pc = "setpin"
    /\ \/ /\ user # "gone"
          /\ \E p \in Pins : settings' = [settings EXCEPT !.row = TRUE, !.pin = p]
       \/ settings' = [settings EXCEPT !.pin = Nothing]
       \/ UNCHANGED settings
    /\ End(r)
    /\ UNCHANGED <<challenge, user>>

-----------------------------------------------------------------------------
\* NewManualPanicWipeHandler: the lookup that selects the verifier.  With a
\* signature in the request there is no fallback to the PIN.
SelectVerifier(r) ==
    /\ ask[r].pc = "new" /\ user = "live"
    /\ \/ ask' = [ask EXCEPT ![r].pc = IF settings.key = Nothing THEN "done" ELSE "verifier"]
       \/ ask' = [ask EXCEPT ![r].pc = "pin"]
    /\ UNCHANGED <<settings, challenge, user>>

\* VerifyWipeSignature looks the key up again ...
VerifyLookup(r) ==
    /\ ask[r].pc = "verifier"
    /\ ask' = [ask EXCEPT ![r].old = settings.key,
                          ![r].pc = IF settings.key = Nothing THEN "done" ELSE "signature"]
    /\ UNCHANGED <<settings, challenge, user>>

\* ... consumes the challenge and verifies.
VerifyWipeSignature(r, c) ==
    /\ ask[r].pc = "signature"
    /\ \/ /\ Spend(c)
          /\ \/ ask' = [ask EXCEPT ![r].pc = "authorized", ![r].spent = c, ![r].by = ask[r].old]
             \/ End(r)
       \/ End(r) /\ UNCHANGED challenge
    /\ UNCHANGED <<settings, user>>

\* A stored PIN and the right one; without a PIN the wipe is refused.
VerifyPin(r) ==
    /\ ask[r].pc = "pin"
    /\ \/ settings.pin # Nothing /\ ask' = [ask EXCEPT ![r].pc = "authorized"]
       \/ End(r)
    /\ UNCHANGED <<settings, challenge, user>>

\* PanicWipe, of which the row's deletion is seen here (or it fails).
WipeSettings(r) ==
    /\ ask[r].pc = "authorized"
    /\ \/ user # "gone" /\ user' = "marked" /\ settings' = NoSettings
       \/ UNCHANGED <<user, settings>>
    /\ End(r)
    /\ UNCHANGED challenge

\* DELETE FROM users, which a row without cascade forbids.
EraseUser ==
    /\ user = "marked" /\ ~settings.row
    /\ user' = "gone"
    /\ UNCHANGED <<settings, challenge, ask>>

CredentialsNext ==
    \/ \E c \in Challenges : IssueChallenge(c) \/ ChallengeExpires(c)
    \/ \E r \in Asks :
         \/ \E k \in WipeKeys : SetKeyLookup(r, k)
         \/ \E c \in Challenges : RotateProof(r, c) \/ VerifyWipeSignature(r, c)
         \/ EnrollPassword(r) \/ Enroll(r) \/ Rotate(r) \/ PinPassword(r) \/ SetPin(r)
         \/ SelectVerifier(r) \/ VerifyLookup(r) \/ VerifyPin(r) \/ WipeSettings(r)
    \/ EraseUser

CredentialsSpec == CredentialsInit /\ [][CredentialsNext]_credentialVars

-----------------------------------------------------------------------------
(***************************************************************************)
(* Properties                                                              *)
(***************************************************************************)

\* "A stolen session token can never overwrite the key" and "two concurrent
\* rotations with the same old key cannot both succeed": the stored key is
\* replaced only by a request that proved the very key it replaces, over a
\* challenge no other request was granted anything for, and put in an empty
\* place only by one that proved the password.  Each handler decides which
\* proof to ask for in a statement before the one that writes.
KeyChangesProven ==
    [][settings'.key \notin {settings.key, Nothing} =>
         \E r \in Asks :
            /\ ask[r].pc # "done" /\ ask'[r].pc = "done" /\ ask[r].key = settings'.key
            /\ IF settings.key = Nothing THEN ask[r].password
               ELSE /\ ask[r].by = settings.key
                    /\ \A q \in Asks \ {r} : ask[q].spent # ask[r].spent
      ]_credentialVars
=============================================================================

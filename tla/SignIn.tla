------------------------------- MODULE SignIn -------------------------------
(***************************************************************************)
(* One customer's way in: the PIN and its attempt counter (auth/pin), the  *)
(* one-time codes (otp), the second factor (mfa) and the refresh tokens    *)
(* (session), as the routes of auth, mfa and session use them together.    *)
(*                                                                         *)
(* A call is one request.  It runs alone between two awaits, so a call's   *)
(* first step is its first read, and every later step one write; what it   *)
(* has read is kept in `call' and may be stale when it writes.  A process  *)
(* that dies is a call that takes no further step.  A code or a PIN is     *)
(* right or wrong as bcrypt says; hashing and signing are not modelled.    *)
(* Refresh tokens live for 30 days and do not expire here; access tokens   *)
(* are stateless and prove only that the caller once signed in.            *)
(***************************************************************************)
EXTENDS Integers, Sequences

CONSTANTS SignInCalls,       \* the customer's requests
          Pins,
          NoPin,             \* a request that carries none
          Held,              \* "call" that opened the session there is at the start
          MAX_PIN_ATTEMPTS,
          MAX_ATTEMPTS       \* per one-time code

ASSUME LimitsArePositive == MAX_PIN_ATTEMPTS \in Nat \ {0} /\ MAX_ATTEMPTS \in Nat \ {0}

VARIABLES
    user,     \* User: pin, pinFailedAttempts, pinLockedUntil, mfaEnabled
    otps,     \* Otp rows in the order of creation; a row's place is its challengeId
    tokens,   \* RefreshToken rows in the order of creation
    call,     \* per call: the request, what it has read, where it is
    guesses   \* history: wrong PINs answered since the counter was cleared

signInVars == <<user, otps, tokens, call, guesses>>

Purposes == {"login", "enable_mfa", "password_reset"}
Kinds    == {"login", "confirm", "mfaVerify", "forgot", "reset", "refresh", "logout",
             "revokeOne", "revokeAll", "enable", "enableVerify", "disable"}
Places   == {"idle", "checking", "locking", "sending", "delivering", "undelivered",
             "verifying", "opening", "enabling", "saving", "revoking", "rotating",
             "succeeding", "disabling", "done", "refused"}

(* pinLockedUntil is unset, ahead, or past.                                *)
Users == [pin: Pins, failed: Nat, lock: {"no", "ahead", "past"}, mfaEnabled: BOOLEAN]
Otps  == [purpose: Purposes, by: SignInCalls \cup {Held}, attempts: 0 .. MAX_ATTEMPTS,
          consumed: BOOLEAN, expired: BOOLEAN, deleted: BOOLEAN]
Reasons == {"rotated", "user_logout", "user_revoked_session", "revoke_all"}
Tokens  == [by: SignInCalls \cup {Held}, parent: Nat, revoked: Reasons \cup {"no"}]

At(c, kinds, place) == call[c].kind \in kinds /\ call[c].at = place

(* A request arrives and makes its first read; `given' is what it says and *)
(* reads.                                                                  *)
Unread == [pin |-> NoPin, failed |-> 0, lock |-> "no", mfaEnabled |-> FALSE]
Blank  == [kind |-> "none", at |-> "idle", pin |-> NoPin, right |-> FALSE,
           row |-> 0, saw |-> Unread, tries |-> 0]

Receive(c, given, place) ==
    /\ call[c].at = "idle"
    /\ call' = [call EXCEPT ![c] = [given EXCEPT !.at = place]]

MoveTo(c, place) == call' = [call EXCEPT ![c].at = place]

OnlyCalls == UNCHANGED <<user, otps, tokens, guesses>>

-----------------------------------------------------------------------------
(* pin.service.js: checkPin, for login and for confirming a payment.       *)

ReceivePin(c, kind, pin) ==
    /\ kind \in {"login", "confirm"}
    /\ Receive(c, [Blank EXCEPT !.kind = kind, !.pin = pin, !.saw = user],
               IF user.lock = "ahead" THEN "refused" ELSE "checking")
    /\ OnlyCalls

Matches(c) == call[c].pin = call[c].saw.pin

AfterPin(c) == IF call[c].kind = "confirm" THEN "done"
               ELSE IF call[c].saw.mfaEnabled THEN "sending" ELSE "opening"

(* The right PIN clears what the load has seen of earlier attempts.        *)
PinMatches(c) ==
    /\ At(c, {"login", "confirm"}, "checking")
    /\ Matches(c)
    /\ IF call[c].saw.failed # 0 \/ call[c].saw.lock # "no"
         THEN /\ user' = [user EXCEPT !.failed = 0, !.lock = "no"]
              /\ guesses' = 0
         ELSE UNCHANGED <<user, guesses>>
    /\ MoveTo(c, AfterPin(c))
    /\ UNCHANGED <<otps, tokens>>

(* Mutant: the counter is computed from the user loaded before.            *)
LoadedPlusOne(c) == call[c].saw.failed + 1

(* $inc.                                                                   *)
Incremented(c) == user.failed + 1

PinWrong(c) ==
    /\ At(c, {"login", "confirm"}, "checking")
    /\ ~ Matches(c)
    /\ user' = [user EXCEPT !.failed = Incremented(c)]
    /\ guesses' = guesses + 1
    /\ MoveTo(c, IF Incremented(c) >= MAX_PIN_ATTEMPTS THEN "locking" ELSE "refused")
    /\ UNCHANGED <<otps, tokens>>

Lock(c) ==
    /\ At(c, {"login", "confirm"}, "locking")
    /\ user' = [user EXCEPT !.failed = 0, !.lock = "ahead"]
    /\ guesses' = 0
    /\ MoveTo(c, "refused")
    /\ UNCHANGED <<otps, tokens>>

LockLapses ==
    /\ user.lock = "ahead"
    /\ user' = [user EXCEPT !.lock = "past"]
    /\ UNCHANGED <<otps, tokens, call, guesses>>

-----------------------------------------------------------------------------
(* otp.service.js.                                                         *)

PurposeOf(kind) == CASE kind \in {"login", "mfaVerify"}     -> "login"
                     [] kind \in {"enable", "enableVerify"} -> "enable_mfa"
                     [] OTHER                               -> "password_reset"

(* forgotPassword() and mfa's enable() load the user and ask for a code.   *)
ReceiveCodeRequest(c, kind) ==
    /\ kind \in {"forgot", "enable"}
    /\ Receive(c, [Blank EXCEPT !.kind = kind],
               IF kind = "enable" /\ user.mfaEnabled THEN "refused" ELSE "sending")
    /\ OnlyCalls

GenerateOtp(c) ==
    /\ At(c, {"login", "forgot", "enable"}, "sending")
    /\ otps' = Append(otps, [purpose |-> PurposeOf(call[c].kind), by |-> c, attempts |-> 0,
                             consumed |-> FALSE, expired |-> FALSE, deleted |-> FALSE])
    /\ call' = [call EXCEPT ![c].at = "delivering", ![c].row = Len(otps')]
    /\ UNCHANGED <<user, tokens, guesses>>

Deliver(c) ==
    /\ call[c].at = "delivering"
    /\ \E place \in {"done", "undelivered"} : MoveTo(c, place)
    /\ OnlyCalls

DeleteUndelivered(c) ==
    /\ call[c].at = "undelivered"
    /\ otps' = [otps EXCEPT ![call[c].row].deleted = TRUE]
    /\ MoveTo(c, "refused")
    /\ UNCHANGED <<user, tokens, guesses>>

(* Mutant: any code will do, whatever it was sent for.                     *)
AnyPurpose(otp, kind) == TRUE

RightPurpose(otp, kind) == otp.purpose = PurposeOf(kind)

Live(otp) == ~ otp.consumed /\ ~ otp.expired /\ ~ otp.deleted

TriesLeft(otp) == otp.attempts < MAX_ATTEMPTS

(* verifyOtp(), by challengeId.                                            *)
ReceiveCode(c, kind, row, right) ==
    /\ kind \in {"mfaVerify", "enableVerify"}
    /\ Receive(c, [Blank EXCEPT !.kind = kind, !.right = right, !.row = row,
                            !.tries = otps[row].attempts],
               IF RightPurpose(otps[row], kind) /\ Live(otps[row]) /\ TriesLeft(otps[row])
               THEN "verifying" ELSE "refused")
    /\ OnlyCalls

(* verifyOtpForUser(): the newest code for a reset that still lives.       *)
ForReset == {row \in DOMAIN otps : RightPurpose(otps[row], "reset") /\ Live(otps[row])}

ReceiveReset(c, pin, right) ==
    /\ \E row \in ForReset :
         /\ \A older \in ForReset : older <= row
         /\ Receive(c, [Blank EXCEPT !.kind = "reset", !.pin = pin, !.right = right, !.row = row,
                                     !.tries = otps[row].attempts],
                    IF TriesLeft(otps[row]) THEN "verifying" ELSE "refused")
    /\ OnlyCalls

AfterCode(c) == CASE call[c].kind = "mfaVerify"    -> "opening"
                  [] call[c].kind = "enableVerify" -> "enabling"
                  [] OTHER                         -> "saving"

(* Saving a row that has been deleted fails.                               *)
SaveOtp(c, row, place) ==
    /\ call[c].at = "verifying"
    /\ IF otps[call[c].row].deleted
         THEN UNCHANGED otps /\ MoveTo(c, "refused")
         ELSE otps' = [otps EXCEPT ![call[c].row] = row] /\ MoveTo(c, place)
    /\ UNCHANGED <<user, tokens, guesses>>

CodeWrong(c) ==
    /\ ~ call[c].right
    /\ SaveOtp(c, [otps[call[c].row] EXCEPT !.attempts = call[c].tries + 1], "refused")

Consume(c) ==
    /\ call[c].right
    /\ SaveOtp(c, [otps[call[c].row] EXCEPT !.consumed = TRUE], AfterCode(c))

OtpExpires ==
    /\ \E row \in DOMAIN otps :
         /\ ~ otps[row].expired
         /\ otps' = [otps EXCEPT ![row].expired = TRUE]
    /\ UNCHANGED <<user, tokens, call, guesses>>

-----------------------------------------------------------------------------
(* What a right code is for: resetPassword() and mfa.controller.js.        *)

SavePin(c) ==
    /\ At(c, {"reset"}, "saving")
    /\ user' = [user EXCEPT !.pin = call[c].pin, !.failed = 0, !.lock = "no"]
    /\ guesses' = 0
    /\ MoveTo(c, "revoking")
    /\ UNCHANGED <<otps, tokens>>

EnableMfa(c) ==
    /\ At(c, {"enableVerify"}, "enabling")
    /\ user' = [user EXCEPT !.mfaEnabled = TRUE]
    /\ MoveTo(c, "done")
    /\ UNCHANGED <<otps, tokens, guesses>>

(* disable() compares the PIN itself, outside checkPin.                    *)
ReceiveDisable(c, pin) ==
    /\ Receive(c, [Blank EXCEPT !.kind = "disable", !.pin = pin],
               IF pin = user.pin THEN "disabling" ELSE "refused")
    /\ OnlyCalls

DisableMfa(c) ==
    /\ At(c, {"disable"}, "disabling")
    /\ user' = [user EXCEPT !.mfaEnabled = FALSE]
    /\ MoveTo(c, "done")
    /\ UNCHANGED <<otps, tokens, guesses>>

-----------------------------------------------------------------------------
(* session.service.js.                                                     *)

(* issueTokenPair().                                                       *)
IssueTokenPair(c) ==
    /\ At(c, {"login", "mfaVerify"}, "opening")
    /\ tokens' = Append(tokens, [by |-> c, parent |-> 0, revoked |-> "no"])
    /\ MoveTo(c, "done")
    /\ UNCHANGED <<user, otps, guesses>>

Active(t) == tokens[t].revoked = "no"

(* rotateRefreshToken() and revokeSessionById() load the row and check it. *)
ReceiveToken(c, kind, t) ==
    /\ kind \in {"refresh", "revokeOne"}
    /\ Receive(c, [Blank EXCEPT !.kind = kind, !.row = t],
                  IF Active(t) THEN "rotating" ELSE "refused")
    /\ OnlyCalls

(* Mutant: the old token is revoked after the new one is on file.          *)
NewTokenFirst(c) ==
    /\ tokens' = Append(tokens, [by |-> c, parent |-> call[c].row, revoked |-> "no"])
    /\ MoveTo(c, "succeeding")

GiveUpOld(c) ==
    /\ tokens' = [tokens EXCEPT ![call[c].row].revoked = "rotated"]
    /\ MoveTo(c, "succeeding")

RevokeOld(c) ==
    /\ At(c, {"refresh"}, "rotating")
    /\ GiveUpOld(c)
    /\ UNCHANGED <<user, otps, guesses>>

CreateSuccessor(c) ==
    /\ At(c, {"refresh"}, "succeeding")
    /\ tokens' = Append(tokens, [by |-> c, parent |-> call[c].row, revoked |-> "no"])
    /\ MoveTo(c, "done")
    /\ UNCHANGED <<user, otps, guesses>>

RevokeSession(c) ==
    /\ At(c, {"revokeOne"}, "rotating")
    /\ tokens' = [tokens EXCEPT ![call[c].row].revoked = "user_revoked_session"]
    /\ MoveTo(c, "done")
    /\ UNCHANGED <<user, otps, guesses>>

(* revokeRefreshToken(): one update, of a row not revoked yet.             *)
Logout(c, t) ==
    /\ Receive(c, [Blank EXCEPT !.kind = "logout", !.row = t], "done")
    /\ tokens' = IF Active(t) THEN [tokens EXCEPT ![t].revoked = "user_logout"] ELSE tokens
    /\ UNCHANGED <<user, otps, guesses>>

AllRevoked == [t \in DOMAIN tokens |->
                 IF Active(t) THEN [tokens[t] EXCEPT !.revoked = "revoke_all"] ELSE tokens[t]]

RevokeAllSessions(c) ==
    /\ Receive(c, [Blank EXCEPT !.kind = "revokeAll"], "done")
    /\ tokens' = AllRevoked
    /\ UNCHANGED <<user, otps, guesses>>

(* The last write of resetPassword().                                      *)
RevokeAfterReset(c) ==
    /\ At(c, {"reset"}, "revoking")
    /\ tokens' = AllRevoked
    /\ MoveTo(c, "done")
    /\ UNCHANGED <<user, otps, guesses>>

-----------------------------------------------------------------------------
Arrive(c) ==
    \/ \E kind \in {"login", "confirm"}, pin \in Pins : ReceivePin(c, kind, pin)
    \/ \E kind \in {"forgot", "enable"} : ReceiveCodeRequest(c, kind)
    \/ \E kind \in {"mfaVerify", "enableVerify"}, row \in DOMAIN otps, right \in BOOLEAN :
         ReceiveCode(c, kind, row, right)
    \/ \E pin \in Pins, right \in BOOLEAN : ReceiveReset(c, pin, right)
    \/ \E pin \in Pins : ReceiveDisable(c, pin)
    \/ \E t \in DOMAIN tokens :
         \/ \E kind \in {"refresh", "revokeOne"} : ReceiveToken(c, kind, t)
         \/ Logout(c, t)
    \/ RevokeAllSessions(c)

Proceed(c) ==
    \/ PinMatches(c) \/ PinWrong(c) \/ Lock(c)
    \/ GenerateOtp(c) \/ Deliver(c) \/ DeleteUndelivered(c)
    \/ CodeWrong(c) \/ Consume(c) \/ SavePin(c) \/ EnableMfa(c) \/ DisableMfa(c)
    \/ IssueTokenPair(c) \/ RevokeOld(c) \/ CreateSuccessor(c) \/ RevokeSession(c)
    \/ RevokeAfterReset(c)

StartUsers == {u \in [pin: Pins, failed: 0 .. MAX_PIN_ATTEMPTS - 1, lock: {"no", "ahead"},
                      mfaEnabled: BOOLEAN] : u.lock = "ahead" => u.failed = 0}

(* The customer has one session, perhaps a code on the way, perhaps wrong  *)
(* attempts behind them.                                                   *)
SignInInit ==
    /\ user \in StartUsers
    /\ otps \in {<< >>} \cup
         {<<[purpose |-> p, by |-> Held, attempts |-> 0, consumed |-> FALSE,
             expired |-> FALSE, deleted |-> FALSE]>> : p \in Purposes}
    /\ tokens = <<[by |-> Held, parent |-> 0, revoked |-> "no"]>>
    /\ call = [c \in SignInCalls |-> Blank]
    /\ guesses = user.failed

SignInNext == (\E c \in SignInCalls : Arrive(c) \/ Proceed(c)) \/ LockLapses \/ OtpExpires

SignInSpec == SignInInit /\ [][SignInNext]_signInVars

-----------------------------------------------------------------------------
(* Properties.                                                             *)

(* Every variable holds a value of its kind; no code counts more wrong     *)
(* tries than it allows.                                                   *)
SignInTypeOK ==
    /\ user \in Users
    /\ otps \in Seq(Otps)
    /\ tokens \in Seq(Tokens)
    /\ call \in [SignInCalls -> [kind: Kinds \cup {"none"}, at: Places, pin: Pins \cup {NoPin},
                           right: BOOLEAN, row: Nat, saw: Users \cup {Unread},
                           tries: 0 .. MAX_ATTEMPTS]]
    /\ guesses \in Nat

(* Parallel guesses cannot dodge the counter (pin.service.js:31): it shows *)
(* every wrong PIN answered since it was last cleared, from the login and  *)
(* the payment screen together, and when it is full somebody is about to   *)
(* lock the account, or died before.                                       *)
AttemptsAreCounted ==
    /\ user.failed = guesses
    /\ user.failed >= MAX_PIN_ATTEMPTS => \E c \in SignInCalls : call[c].at = "locking"

(* Nobody is signed in without having proved what the account asked for:   *)
(* a session goes back to a login that had the right PIN on an account     *)
(* neither locked nor asking for a code, or to a used code which such a    *)
(* login had sent, or to a token that was given up for it.                 *)
KnewThePin(c) == call[c].kind = "login" /\ Matches(c) /\ call[c].saw.lock # "ahead"

EverySessionWasEarned ==
    \A t \in DOMAIN tokens : LET c == tokens[t].by IN
        \/ c = Held
        \/ KnewThePin(c) /\ ~ call[c].saw.mfaEnabled
        \/ /\ call[c].kind = "mfaVerify"
           /\ LET otp == otps[call[c].row] IN
                /\ otp.consumed /\ otp.purpose = "login"
                /\ otp.by = Held \/ KnewThePin(otp.by)
        \/ call[c].kind = "refresh" /\ tokens[t].parent = call[c].row

(* A token that has been exchanged is dead (session.service.js:50-53):     *)
(* wherever the exchange was interrupted, and whatever revoked or rotated  *)
(* it at the same time, no token is usable beside its successor.           *)
OldTokenDies == \A t \in DOMAIN tokens : tokens[t].parent # 0 => ~ Active(tokens[t].parent)
=============================================================================

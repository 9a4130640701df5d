------------------------------ MODULE Sessions ------------------------------
(***************************************************************************)
(* One account: its document, and what Redis keeps of it: the refresh      *)
(* token of its session, the copy the middleware reads, the one-time code, *)
(* the mark that a code was right, the token of its verification mail.     *)
(* Requests get, compare, set and delete these keys one await at a time.   *)
(***************************************************************************)
EXTENDS Integers, FiniteSets

CONSTANTS
    AuthRequests,       \* the requests, numbered from 1 in their order
    AuthOps             \* the operations they are of

ASSUME SessionAssumption ==
    AuthRequests \subseteq Nat \ {0} /\ IsFiniteSet(AuthRequests)

VARIABLES
    account,            \* the document: profile, password, isVerified
    redis,              \* redis[k]: who set the key, or None
    userCache,          \* the copy, with who stored it and, as history, who
                        \* wrote the account since
    authReq             \* authReq[r]: a request

sessionVars == <<account, redis, userCache, authReq>>

None == -1
Keys == {"refresh", "otp", "otp_verified", "verify"}
AccountCopy == [profile |-> account.profile, isVerified |-> account.isVerified]
NoCopy == [profile |-> None, isVerified |-> FALSE]
EmptyCache == [copy |-> NoCopy, by |-> 0, since |-> {}]
IdleRequest == [op |-> "none", pc |-> "idle", copy |-> NoCopy, password |-> 0,
                key |-> None, overtaken |-> FALSE, ended |-> {}]

(* In use: with a session or not, a mark, a code or a mail under way; 0    *)
(* stands for the requests before.                                         *)
SessionsInit ==
    /\ account \in [profile : {0}, password : {0}, isVerified : BOOLEAN]
    /\ redis \in [Keys -> {0, None}]
    /\ redis["otp_verified"] = redis["otp"]
    /\ redis["verify"] = IF account.isVerified THEN None ELSE 0
    /\ userCache = EmptyCache
    /\ authReq = [r \in AuthRequests |-> IdleRequest]

Ended == {r \in AuthRequests : authReq[r].pc = "done"}

(* The first step of a request r of an operation, on to pc.                *)
Begins(r, op, pc, fields) ==
    /\ op \in AuthOps
    /\ authReq[r].pc = "idle"
    /\ \A s \in AuthRequests : s < r => authReq[s].pc # "idle"
    /\ authReq' = [authReq EXCEPT ![r] =
           [@ EXCEPT !.op = op, !.pc = pc, !.copy = fields.copy, !.key = fields.key,
                     !.password = account.password, !.ended = Ended]]

Holds(key) == [copy |-> AccountCopy, key |-> key]

At(r, pc) == authReq[r].pc = pc
Goes(r, pc) == authReq' = [authReq EXCEPT ![r].pc = pc]

(* loginService: the account is found, its password compared, and it must  *)
(* be verified; tokens are issued.                                         *)
Login(r) ==
    /\ account.isVerified
    /\ Begins(r, "login", "storeToken", Holds(None))
    /\ UNCHANGED <<account, redis, userCache>>

(* refreshToken:<id>; the session before, of another device, is replaced.  *)
StoreToken(r) ==
    /\ At(r, "storeToken")
    /\ redis' = [redis EXCEPT !["refresh"] = r]
    /\ Goes(r, "fill")
    /\ UNCHANGED <<account, userCache>>

(* getCachedUser, for each request with an access token.  On a hit nothing *)
(* changes; on a miss the document is read                                 *)
ReadUser(r) ==
    /\ userCache.copy = NoCopy
    /\ Begins(r, "view", "fill", Holds(None))
    /\ UNCHANGED <<account, redis, userCache>>

(* and its copy stored, as a login stores the one it found.                *)
FillUserCache(r) ==
    /\ At(r, "fill")
    /\ userCache' = [copy |-> authReq[r].copy, by |-> r, since |-> {}]
    /\ Goes(r, "done")
    /\ UNCHANGED <<account, redis>>

(* logoutService: the token first, then the copy.                          *)
Logout(r) ==
    /\ Begins(r, "logout", "dropCopy", Holds(None))
    /\ redis' = [redis EXCEPT !["refresh"] = None]
    /\ UNCHANGED <<account, userCache>>

(* refreshTokenService: the token given is the one stored;                 *)
Refresh(r) ==
    /\ redis["refresh"] # None
    /\ Begins(r, "refresh", "issue", Holds(redis["refresh"]))
    /\ UNCHANGED <<account, redis, userCache>>

(* the access token says who and until when, and asks nothing again.       *)
IssueAccess(r) ==
    /\ At(r, "issue")
    /\ Goes(r, "done")
    /\ UNCHANGED <<account, redis, userCache>>

DropCopy(r) ==
    /\ At(r, "dropCopy")
    /\ userCache' = EmptyCache
    /\ Goes(r, IF authReq[r].op = "change" THEN "dropToken" ELSE "done")
    /\ UNCHANGED <<account, redis>>

Overtakes(reqs) ==
    [s \in AuthRequests |-> IF reqs[s].pc \in {"storeToken", "fill"}
                            THEN [reqs[s] EXCEPT !.overtaken = TRUE] ELSE reqs[s]]

Rewritten(r) == userCache' = [userCache EXCEPT !.since = userCache.since \cup {r}]

(* updateProfileService: the document, and with a new email no longer      *)
(* verified; then the copy is dropped.                                     *)
BeginUpdate(r) ==
    /\ Begins(r, "update", "writeProfile", Holds(None))
    /\ UNCHANGED <<account, redis, userCache>>

WriteProfile(r) ==
    /\ At(r, "writeProfile")
    /\ \E newEmail \in BOOLEAN :
         account' = [account EXCEPT !.profile = r,
                                    !.isVerified = account.isVerified /\ ~newEmail]
    /\ authReq' = Overtakes([authReq EXCEPT ![r].pc = "dropCopy"])
    /\ Rewritten(r)
    /\ UNCHANGED redis

(* forgotPasswordService sets a code, over the one before,                 *)
Forgot(r) ==
    /\ Begins(r, "forgot", "mail", Holds(r))
    /\ redis' = [redis EXCEPT !["otp"] = r]
    /\ UNCHANGED <<account, userCache>>

(* and when the mail fails deletes the code there is.                      *)
OtpMail(r) ==
    /\ At(r, "mail")
    /\ redis' \in {redis, [redis EXCEPT !["otp"] = None]}
    /\ Goes(r, "done")
    /\ UNCHANGED <<account, userCache>>

(* verifyOTPService: the code is right; it is deleted, and the mark set.   *)
BeginVerifyOtp(r) ==
    /\ redis["otp"] # None
    /\ Begins(r, "otp", "dropOtp", Holds(redis["otp"]))
    /\ UNCHANGED <<account, redis, userCache>>

DropOtp(r) ==
    /\ At(r, "dropOtp")
    /\ redis' = [redis EXCEPT !["otp"] = None]
    /\ Goes(r, "mark")
    /\ UNCHANGED <<account, userCache>>

Mark(r) ==
    /\ At(r, "mark")
    /\ redis' = [redis EXCEPT !["otp_verified"] = r]
    /\ Goes(r, "done")
    /\ UNCHANGED <<account, userCache>>

(* changePasswordService: there is a mark.  The password is saved, the     *)
(* mark, the copy and the session deleted.                                 *)
BeginChange(r) ==
    /\ redis["otp_verified"] # None
    /\ Begins(r, "change", "savePassword", Holds(redis["otp_verified"]))
    /\ UNCHANGED <<account, redis, userCache>>

SavePassword(r) ==
    /\ At(r, "savePassword")
    /\ account' = [account EXCEPT !.password = r]
    /\ authReq' = Overtakes([authReq EXCEPT ![r].pc = "dropMark"])
    /\ UNCHANGED <<redis, userCache>>

(* Mutant: the mark is left to expire.                                     *)
DropMarkMutant(r) ==
    /\ At(r, "dropMark")
    /\ Goes(r, "dropCopy")
    /\ UNCHANGED <<account, redis, userCache>>

DropMark(r) ==
    /\ At(r, "dropMark")
    /\ redis' = [redis EXCEPT !["otp_verified"] = None]
    /\ Goes(r, "dropCopy")
    /\ UNCHANGED <<account, userCache>>

DropToken(r) ==
    /\ At(r, "dropToken")
    /\ redis' = [redis EXCEPT !["refresh"] = None]
    /\ Goes(r, "done")
    /\ UNCHANGED <<account, userCache>>

(* resendVerificationService, and registerService at first: the account is *)
(* not verified when it is read; it may be when the token of the mail is   *)
(* stored.                                                                 *)
ResendVerification(r) ==
    /\ ~account.isVerified
    /\ Begins(r, "resend", "storeVerify", Holds(r))
    /\ UNCHANGED <<account, redis, userCache>>

StoreVerify(r) ==
    /\ At(r, "storeVerify")
    /\ redis' = [redis EXCEPT !["verify"] = r]
    /\ Goes(r, "done")
    /\ UNCHANGED <<account, userCache>>

(* verifyEmailService: the token is the one stored, the account is not     *)
(* verified.  The copy in Redis is left as it is.                          *)
BeginVerifyEmail(r) ==
    /\ redis["verify"] # None /\ ~account.isVerified
    /\ Begins(r, "email", "saveVerified", Holds(redis["verify"]))
    /\ UNCHANGED <<account, redis, userCache>>

SaveVerified(r) ==
    /\ At(r, "saveVerified")
    /\ account' = [account EXCEPT !.isVerified = TRUE]
    /\ authReq' = Overtakes([authReq EXCEPT ![r].pc = "dropVerify"])
    /\ Rewritten(r)
    /\ UNCHANGED redis

DropVerify(r) ==
    /\ At(r, "dropVerify")
    /\ redis' = [redis EXCEPT !["verify"] = None]
    /\ Goes(r, "done")
    /\ UNCHANGED <<account, userCache>>

Expire ==
    \/ /\ \E k \in Keys : redis[k] # None /\ redis' = [redis EXCEPT ![k] = None]
       /\ UNCHANGED <<account, userCache, authReq>>
    \/ /\ userCache.copy # NoCopy
       /\ userCache' = EmptyCache
       /\ UNCHANGED <<account, redis, authReq>>

(* The process stops, or Redis fails, between two writes.                  *)
CutRequest(r) ==
    /\ authReq[r].pc \in {"dropCopy", "dropMark", "dropToken", "dropVerify", "mark"}
    /\ authReq' = [authReq EXCEPT ![r].pc = "cut"]
    /\ UNCHANGED <<account, redis, userCache>>

SessionStep(r) ==
    \/ Login(r) \/ StoreToken(r) \/ ReadUser(r) \/ FillUserCache(r)
    \/ Logout(r) \/ Refresh(r) \/ IssueAccess(r) \/ DropCopy(r) \/ BeginUpdate(r) \/ WriteProfile(r)
    \/ Forgot(r) \/ OtpMail(r) \/ BeginVerifyOtp(r) \/ DropOtp(r) \/ Mark(r)
    \/ BeginChange(r) \/ SavePassword(r) \/ DropMark(r) \/ DropToken(r)
    \/ ResendVerification(r) \/ StoreVerify(r)
    \/ BeginVerifyEmail(r) \/ SaveVerified(r) \/ DropVerify(r)
    \/ CutRequest(r)

SessionsNext == Expire \/ \E r \in AuthRequests : SessionStep(r)

SessionsSpec == SessionsInit /\ [][SessionsNext]_sessionVars

-----------------------------------------------------------------------------
Requests(op, pcs) == {r \in AuthRequests : authReq[r].op = op /\ authReq[r].pc \in pcs}

(* The copy the middleware reads is that of the account, or the request    *)
(* that stored it was overtaken by a writer; or an update that came after  *)
(* has not dropped it yet, or stopped before it did; or the email was      *)
(* verified since, which drops no copy and changes no profile.             *)
UserCopyFresh ==
    userCache.copy # NoCopy =>
        \/ userCache.copy = AccountCopy
        \/ userCache.by # 0 /\ authReq[userCache.by].overtaken
        \/ userCache.since \cap Requests("update", {"dropCopy", "cut"}) # {}
        \/ /\ \E w \in userCache.since : authReq[w].op = "email"
           /\ userCache.copy.profile = account.profile

(* A session opened with an old password does not outlive the request that *)
(* set the one there is, unless that one stopped before it ended the       *)
(* session, or the login was under way while the account was saved.        *)
ResetRevokes ==
    \A r \in Requests("login", {"fill", "done"}) :
        redis["refresh"] = r /\ authReq[r].password # account.password =>
            \/ authReq[r].overtaken
            \/ account.password \in
                 Requests("change", {"dropMark", "dropCopy", "dropToken", "cut"})

(* Of two requests that used one code, or one mark, one had not ended when *)
(* the other began.                                                        *)
UsedOnce ==
    \A op \in {"otp", "change"} :
        \A r, s \in Requests(op, {"dropMark", "dropCopy", "dropToken", "mark", "cut", "done"}) :
            r # s /\ authReq[r].key = authReq[s].key =>
                r \notin authReq[s].ended /\ s \notin authReq[r].ended

(* A session whose login had ended before a request to log out, or to      *)
(* change the password, began gives no access token to a request that      *)
(* begins after that one has ended.                                        *)
EndedForGood ==
    \A r \in Requests("refresh", {"issue", "done"}) :
        \A q \in Requests("logout", {"done"}) \cup Requests("change", {"done"}) :
            q \in authReq[r].ended =>
                ~(authReq[r].key = 0 \/ authReq[r].key \in authReq[q].ended)

(* What Redis keeps of an account follows the account.                     *)
SessionSound == UserCopyFresh /\ ResetRevokes /\ UsedOnce /\ EndedForGood
=============================================================================

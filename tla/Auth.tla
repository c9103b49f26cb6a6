-------------------------------- MODULE Auth --------------------------------
(***************************************************************************)
(* Registration, sessions and passwords (internal/service/auth/service.go, *)
(* internal/repository/sqlite/user_repo.go).  Every action is one          *)
(* statement of one request and what the request decides after it.         *)
(*                                                                         *)
(* A password check succeeds; one that fails changes nothing.  So does a   *)
(* request the rate limiter refuses.  Times are an order of issue and a    *)
(* flag that a code has expired.                                           *)
(***************************************************************************)
EXTENDS ServiceData

Ask(op, pc, sub, u) == [op |-> op, pc |-> pc, sub |-> sub, user |-> u, val |-> None]

-----------------------------------------------------------------------------
(* Register: EmailExists says no, the code is made. *)
Register(q, u) ==
    /\ New(q)
    /\ u \notin DOMAIN users
    /\ Starts(q, Ask("registration", "storeCode", None, u))
    /\ UNCHANGED <<authVars, jobVars, failures>>

(* ForgotPassword: the same for a user who is active. *)
ForgotPassword(q, u) ==
    /\ New(q)
    /\ ActiveUser(u)
    /\ Starts(q, Ask("forgot_password", "storeCode", None, u))
    /\ UNCHANGED <<authVars, jobVars, failures>>

(* created_at has seconds: the next code is as old as the last one, or newer. *)
NextTimes ==
    {t \in Instant : /\ \A c \in codes : c.at <= t
                     /\ t = 1 \/ \E c \in codes : t <= c.at + 1}

(* StoreOTP *)
StoreCode(q) ==
    /\ At(q, "storeCode")
    /\ \E t \in NextTimes :
         codes' = codes \cup {[id |-> q, user |-> req[q].user, type |-> req[q].op,
                               at |-> t, used |-> FALSE, expired |-> FALSE]}
    /\ Goto(q, IF req[q].op = "registration" THEN "createUser" ELSE "send")
    /\ UNCHANGED <<users, tokens, received, jobVars, failures>>

(* Variant for testing the checks: Register ignores the error, too.         *)
StoreCodeIgnored(q) ==
    /\ At(q, "storeCode")
    /\ Failure
    /\ Goto(q, IF req[q].op = "registration" THEN "createUser" ELSE "send")
    /\ UNCHANGED <<authVars, jobVars>>

(* Register returns the error, ForgotPassword ignores it and sends the code. *)
StoreCodeFails(q) ==
    /\ At(q, "storeCode")
    /\ IF req[q].op = "registration" THEN End(q) ELSE Goto(q, "send")
    /\ Failure
    /\ UNCHANGED <<authVars, jobVars>>

(* CreatePending: the address is unique, and the code is not sent without it. *)
CreatePending(q) ==
    /\ At(q, "createUser")
    /\ IF req[q].user \in DOMAIN users
         THEN End(q) /\ UNCHANGED users
         ELSE /\ users' = With(users, req[q].user, [role |-> "user", active |-> FALSE, by |-> q])
              /\ Goto(q, "send")
    /\ UNCHANGED <<tokens, codes, received, jobVars, failures>>

(* SendOTP, in a goroutine of its own; the mail may be lost. *)
SendCode(q) ==
    /\ At(q, "send")
    /\ received' \in {received, received \cup {q}}
    /\ End(q)
    /\ UNCHANGED <<users, tokens, codes, jobVars, failures>>

(* Ten minutes, and by the comparison of texts the rest of that day, are over. *)
CodeExpires(c) ==
    /\ c \in codes /\ ~c.expired /\ ~c.used
    /\ codes' = (codes \ {c}) \cup {[c EXCEPT !.expired = TRUE]}
    /\ UNCHANGED <<users, tokens, received, jobVars, req, failures>>
-----------------------------------------------------------------------------
(* ConsumeOTP reads the newest code that is neither used nor expired. *)
Usable(u, type) == {c \in codes : c.user = u /\ c.type = type /\ ~c.used /\ ~c.expired}
IsNewest(c) == c \in Usable(c.user, c.type) /\ \A d \in Usable(c.user, c.type) : d.at <= c.at

(* The code in the mail is submitted, and is the newest. *)
SubmitCode(q, c) ==
    /\ New(q)
    /\ c.id \in received
    /\ IsNewest(c)
    /\ Starts(q, [Ask(c.type, "useCode", None, c.user) EXCEPT !.val = c.id])
    /\ UNCHANGED <<authVars, jobVars, failures>>

(* The second statement marks it, whoever else has read it meanwhile. *)
UseCode(q) ==
    /\ At(q, "useCode")
    /\ codes' = {IF c.id = req[q].val THEN [c EXCEPT !.used = TRUE] ELSE c : c \in codes}
    /\ Goto(q, IF req[q].op = "registration" THEN "activate" ELSE "setPassword")
    /\ UNCHANGED <<users, tokens, received, jobVars, failures>>

(* Activate, by the address: the user may be one an admin deactivated. *)
Activate(q) ==
    /\ At(q, "activate")
    /\ users' = IF req[q].user \in DOMAIN users
                  THEN [users EXCEPT ![req[q].user].active = TRUE] ELSE users
    /\ End(q)
    /\ UNCHANGED <<tokens, codes, received, jobVars, failures>>
-----------------------------------------------------------------------------
(* Login: FindByEmail, the password is right and the user active. *)
Login(q, u) ==
    /\ New(q)
    /\ ActiveUser(u)
    /\ Starts(q, [Ask("login", "storeToken", None, u) EXCEPT !.val = "current"])
    /\ UNCHANGED <<authVars, jobVars, failures>>

StoreToken(q) ==
    /\ At(q, "storeToken")
    /\ tokens' = tokens \cup {[id |-> q, user |-> req[q].user, epoch |-> req[q].val]}
    /\ End(q)
    /\ UNCHANGED <<users, codes, received, jobVars, failures>>

(* Logout revokes the token it was called with. *)
Logout(q, t) ==
    /\ New(q)
    /\ t \in tokens /\ ActiveUser(t.user)
    /\ tokens' = tokens \ {t}
    /\ End(q)
    /\ UNCHANGED <<users, codes, received, jobVars, failures>>

(* ChangePassword: GetPasswordHash, and the current password is right. *)
ChangePassword(q, u) ==
    /\ New(q)
    /\ Subject(u)
    /\ Starts(q, Ask("change", "setPassword", u, u))
    /\ UNCHANGED <<authVars, jobVars, failures>>

(* History: the sessions u has are old now, and a login that has read the   *)
(* row already is spared; so is an old session whose revocation is given up. *)
Supersede(q, u, pc) ==
    /\ tokens' = {IF t.user = u /\ t.epoch = "current" THEN [t EXCEPT !.epoch = "old"] ELSE t
                    : t \in tokens}
    /\ req' = [r \in Request |->
         IF r = q THEN [req[q] EXCEPT !.pc = pc, !.val = None]
         ELSE IF req[r].pc = "storeToken" /\ req[r].user = u
           THEN [req[r] EXCEPT !.val = "spared"] ELSE req[r]]

Spare(u) ==
    tokens' = {IF t.user = u /\ t.epoch = "old" THEN [t EXCEPT !.epoch = "spared"] ELSE t
                : t \in tokens}

(* UpdatePassword.  ChangePassword goes on to revoke the sessions. *)
SetPassword(q) ==
    /\ At(q, "setPassword")
    /\ Supersede(q, req[q].user, IF req[q].op = "change" THEN "revoke" ELSE "findUser")
    /\ UNCHANGED <<users, codes, received, jobVars, failures>>

(* OTPForgotPassword revokes the sessions of a user who is active; it       *)
(* returns success without it if the user is not, or cannot be read.        *)
FindUser(q) ==
    /\ At(q, "findUser")
    /\ IF ActiveUser(req[q].user) THEN Goto(q, "revoke") /\ UNCHANGED tokens
                                 ELSE End(q) /\ Spare(req[q].user)
    /\ UNCHANGED <<users, codes, received, jobVars, failures>>

(* Variant for testing the checks: only one session is revoked.             *)
RevokeOne(q) ==
    /\ At(q, "revoke")
    /\ \E t \in tokens : t.user = req[q].user /\ tokens' = tokens \ {t}
    /\ End(q)
    /\ UNCHANGED <<users, codes, received, jobVars, failures>>

(* RevokeAllUserTokens *)
Revoke(q) ==
    /\ At(q, "revoke")
    /\ tokens' = {t \in tokens : t.user # req[q].user}
    /\ End(q)
    /\ UNCHANGED <<users, codes, received, jobVars, failures>>

(* ChangePassword reports the error, SetUserActive does not; either way the *)
(* sessions stay.                                                           *)
RevokeFails(q) ==
    /\ req[q].pc \in {"findUser", "revoke"}
    /\ Failure
    /\ Spare(req[q].user)
    /\ End(q)
    /\ UNCHANGED <<users, codes, received, jobVars>>
-----------------------------------------------------------------------------
(* AdminUpdateUser: not one's own role to "user"; one's own is_active may go. *)
AdminUpdateUser(q, s, u, role, active) ==
    /\ New(q)
    /\ Admin(s)
    /\ ~(u = s /\ role = "user")
    /\ role # None \/ active # None
    /\ Starts(q, [Ask("update", IF role # None THEN "setRole" ELSE "setActive", s, u)
                    EXCEPT !.val = <<role, active>>])
    /\ UNCHANGED <<authVars, jobVars, failures>>

(* UpdateUserRole; no such user is an error, and ends the request. *)
SetRole(q) ==
    /\ At(q, "setRole")
    /\ LET u == req[q].user IN
         IF u \notin DOMAIN users
           THEN End(q) /\ UNCHANGED users
           ELSE /\ users' = [users EXCEPT ![u].role = req[q].val[1]]
                /\ IF req[q].val[2] # None THEN Goto(q, "setActive") ELSE End(q)
    /\ UNCHANGED <<tokens, codes, received, jobVars, failures>>

(* SetUserActive; a user who is deactivated loses the sessions next. *)
SetActive(q) ==
    /\ At(q, "setActive")
    /\ LET u == req[q].user
           active == req[q].val[2] = "active"
       IN IF u \notin DOMAIN users
            THEN End(q) /\ UNCHANGED <<users, tokens>>
            ELSE /\ users' = [users EXCEPT ![u].active = active]
                 /\ IF active THEN End(q) /\ UNCHANGED tokens ELSE Supersede(q, u, "revoke")
    /\ UNCHANGED <<codes, received, jobVars, failures>>

AuthFails(q) ==
    /\ req[q].pc \in {"createUser", "useCode", "activate", "storeToken", "setPassword",
                      "setRole", "setActive"}
    /\ Fails(q)

AuthStep(q) ==
    \/ \E u \in User :
         \/ Register(q, u) \/ ForgotPassword(q, u)
         \/ Login(q, u) \/ ChangePassword(q, u)
         \/ \E s \in User, role \in Role \cup {None}, active \in {"active", "inactive", None} :
              AdminUpdateUser(q, s, u, role, active)
    \/ \E c \in codes : SubmitCode(q, c)
    \/ \E t \in tokens : Logout(q, t)
    \/ StoreCode(q) \/ StoreCodeFails(q) \/ CreatePending(q) \/ SendCode(q)
    \/ UseCode(q) \/ Activate(q) \/ StoreToken(q)
    \/ SetPassword(q) \/ FindUser(q) \/ Revoke(q) \/ RevokeFails(q)
    \/ SetRole(q) \/ SetActive(q) \/ AuthFails(q)

AuthNext == (\E q \in Request : AuthStep(q)) \/ \E c \in codes : CodeExpires(c)
=============================================================================

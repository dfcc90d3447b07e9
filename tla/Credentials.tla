----------------------------- MODULE Credentials -----------------------------
(***************************************************************************)
(* How staff sign in and get a new password (auth.controller.ts,           *)
(* login-otp.service.ts, password-reset.service.ts).  One-time codes are   *)
(* kept in the process's memory, where reading and deleting one is a       *)
(* single step; reset links are kept in the account's row, read by one     *)
(* statement and used up by another, with the hashing of the new password  *)
(* between the two.  Codes and links are numbered in the order of issue;   *)
(* the bypass code of demonstrations (isDemoLoginOtp) is left out.         *)
(***************************************************************************)
EXTENDS Requests, FiniteSets

CONSTANTS
  Users,
  Passwords,
  Production   \* whether NODE_ENV is production

Account == [password : Passwords, must : BOOLEAN, active : BOOLEAN,
            link : 0..MaxRequests, live : BOOLEAN]
Code    == [code : 1..MaxRequests, live : BOOLEAN]

VARIABLES
  accounts,  \* the User rows: link is 0 where passwordResetTokenHash is NULL
  codes,     \* otpByPhone, per user: Null or the code last issued
  links,     \* number of links issued
  issued,    \* number of codes issued
  used,      \* ghost: the links that have completed a reset
  signIns    \* ghost: the codes sign-ins were accepted with

credVars == <<accounts, codes, links, issued, used, signIns>>

CredInit ==
  /\ accounts \in [Users -> {[password |-> p, must |-> TRUE, active |-> TRUE,
                              link |-> 0, live |-> FALSE] : p \in Passwords}]
  /\ codes = [u \in Users |-> Null]
  /\ links = 0
  /\ issued = 0
  /\ used = {}
  /\ signIns = {}

-----------------------------------------------------------------------------
(* One-time codes: sendLoginOtp, verifyLoginOtp.                            *)

CodeRequest(c) ==
  /\ \E u \in Users : Arrive(c, "code.user", [user |-> u])
  /\ UNCHANGED credVars

\* findActiveUserByTenDigitPhone, then issueLoginOtp in the same step.  The
\* message is sent afterwards; when that fails the code stays.
CodeIssue(c) ==
  /\ pc[c] = "code.user"
  /\ IF accounts[req[c].user].active
     THEN /\ issued' = issued + 1
          /\ codes' = [codes EXCEPT ![req[c].user] = [code |-> issued + 1, live |-> TRUE]]
     ELSE UNCHANGED <<issued, codes>>
  /\ Answer(c)
  /\ UNCHANGED <<accounts, links, used, signIns>>

CodeEnter(c) ==
  /\ \E u \in Users, n \in 1..issued : Arrive(c, "code.verify", [user |-> u, code |-> n])
  /\ UNCHANGED credVars

\* What consumeLoginOtpIfValid leaves: a wrong code is kept, an expired or
\* accepted one is deleted.
Consumed(u, n) ==
  IF codes[u] # Null /\ codes[u].live /\ codes[u].code # n THEN codes[u] ELSE Null

CodeVerify(c) ==
  LET u == req[c].user  n == req[c].code
      valid == codes[u] # Null /\ codes[u].live /\ codes[u].code = n IN
  /\ pc[c] = "code.verify"
  /\ IF accounts[u].active
     THEN /\ codes' = [codes EXCEPT ![u] = Consumed(u, n)]
          /\ signIns' = IF valid THEN signIns \cup {n} ELSE signIns
     ELSE UNCHANGED <<codes, signIns>>
  /\ Answer(c)
  /\ UNCHANGED <<accounts, links, issued, used>>

CodeExpire(u) ==
  /\ codes[u] # Null
  /\ codes' = [codes EXCEPT ![u].live = FALSE]
  /\ UNCHANGED <<accounts, links, issued, used, signIns, requestVars>>

-----------------------------------------------------------------------------
(* Reset links: forgotPassword, completePasswordReset.                      *)

LinkRequest(c) ==
  /\ \E u \in Users : Arrive(c, "link.user", [user |-> u])
  /\ UNCHANGED credVars

LinkUser(c) ==
  /\ pc[c] = "link.user"
  /\ IF accounts[req[c].user].active THEN Goto(c, "link.issue", req[c]) ELSE Answer(c)
  /\ UNCHANGED credVars

\* issuePasswordResetForUser
LinkIssue(c) ==
  /\ pc[c] = "link.issue"
  /\ links' = links + 1
  /\ accounts' = [accounts EXCEPT ![req[c].user].link = links + 1,
                                  ![req[c].user].live = TRUE]
  /\ Goto(c, "link.mail", req[c])
  /\ UNCHANGED <<codes, issued, used, signIns>>

\* sendPasswordResetEmail succeeds, or fails: production then clears whatever
\* link the account has by now.
LinkMailed(c) ==
  /\ pc[c] = "link.mail"
  /\ Answer(c)
  /\ UNCHANGED credVars

LinkMailFailed(c) ==
  /\ pc[c] = "link.mail"
  /\ IF Production THEN Goto(c, "link.clear", req[c]) ELSE Answer(c)
  /\ UNCHANGED credVars

LinkClear(c) ==
  /\ pc[c] = "link.clear"
  /\ accounts' = [accounts EXCEPT ![req[c].user].link = 0, ![req[c].user].live = FALSE]
  /\ Answer(c)
  /\ UNCHANGED <<codes, links, issued, used, signIns>>

LinkExpire(u) ==
  /\ accounts[u].live
  /\ accounts' = [accounts EXCEPT ![u].live = FALSE]
  /\ UNCHANGED <<codes, links, issued, used, signIns, requestVars>>

LinkFollow(c) ==
  /\ \E n \in 1..links, p \in Passwords :
       Arrive(c, "reset.find", [link |-> n, password |-> p])
  /\ UNCHANGED credVars

\* consumePasswordResetToken: the SELECT and what is tested of its row.
ResetFind(c) ==
  LET holders == {u \in Users : accounts[u].link = req[c].link} IN
  /\ pc[c] = "reset.find"
  /\ IF \E u \in holders : accounts[u].active /\ accounts[u].live
     THEN \E u \in holders :
            Goto(c, "reset.write",
                 [user |-> u, link |-> req[c].link, password |-> req[c].password])
     ELSE Answer(c)
  /\ UNCHANGED credVars

\* Mutant: the link outlives the password it has set.
NewPassword_KeepLink(row, p) == [row EXCEPT !.password = p, !.must = FALSE]

NewPassword(row, p) ==
  [row EXCEPT !.password = p, !.must = FALSE, !.link = 0, !.live = FALSE]

\* The UPDATE, by id: neither the link nor its expiry is looked at again.
ResetWrite(c) ==
  LET u == req[c].user IN
  /\ pc[c] = "reset.write"
  /\ accounts' = [accounts EXCEPT ![u] = NewPassword(accounts[u], req[c].password)]
  /\ used' = used \cup {req[c].link}
  /\ Answer(c)
  /\ UNCHANGED <<codes, links, issued, signIns>>

-----------------------------------------------------------------------------
(* changePassword reads the account, compares and hashes, then updates;     *)
(* login only compares.  An administrator resets, suspends and restores.    *)

PasswordChange(c) ==
  /\ \E u \in Users, p, q \in Passwords :
       Arrive(c, "change.find", [user |-> u, current |-> p, password |-> q])
  /\ UNCHANGED credVars

ChangeFind(c) ==
  LET row == accounts[req[c].user] IN
  /\ pc[c] = "change.find"
  /\ IF row.active /\ row.password = req[c].current
     THEN Goto(c, "change.write", req[c]) ELSE Answer(c)
  /\ UNCHANGED credVars

\* A link that is pending stays so.
ChangeWrite(c) ==
  /\ pc[c] = "change.write"
  /\ accounts' = [accounts EXCEPT ![req[c].user].password = req[c].password,
                                  ![req[c].user].must = FALSE]
  /\ Answer(c)
  /\ UNCHANGED <<codes, links, issued, used, signIns>>

AdminReset(c) ==
  /\ AtOnce(c)
  /\ \E u \in Users, p \in Passwords :
       accounts' = [accounts EXCEPT ![u].password = p, ![u].must = TRUE]
  /\ UNCHANGED <<codes, links, issued, used, signIns>>

AdminSetActive(c) ==
  /\ AtOnce(c)
  /\ \E u \in Users : accounts' = [accounts EXCEPT ![u].active = ~ @]
  /\ UNCHANGED <<codes, links, issued, used, signIns>>

\* A restart forgets every code and ends every request.
Restart ==
  /\ codes' = [u \in Users |-> Null]
  /\ pc' = [c \in Clients |-> "idle"]
  /\ req' = [c \in Clients |-> Null]
  /\ UNCHANGED <<accounts, links, issued, used, signIns, sent>>

CredStep ==
  \/ \E c \in Clients :
       \/ CodeRequest(c) \/ CodeIssue(c) \/ CodeEnter(c) \/ CodeVerify(c)
       \/ LinkRequest(c) \/ LinkUser(c) \/ LinkIssue(c) \/ LinkMailed(c)
       \/ LinkMailFailed(c) \/ LinkClear(c) \/ LinkFollow(c)
       \/ ResetFind(c) \/ ResetWrite(c)
       \/ PasswordChange(c) \/ ChangeFind(c) \/ ChangeWrite(c)
       \/ AdminReset(c) \/ AdminSetActive(c)
  \/ \E u \in Users : CodeExpire(u) \/ LinkExpire(u)
  \/ Restart

CredSpec == CredInit /\ RequestInit /\ [][CredStep]_<<credVars, requestVars>>

-----------------------------------------------------------------------------
(* Properties                                                               *)

CredTypeOK ==
  /\ accounts \in [Users -> Account]
  /\ codes \in [Users -> Code \cup {Null}]
  /\ links \in 0..MaxRequests
  /\ issued \in 0..MaxRequests
  /\ used \subseteq 1..links
  /\ signIns \subseteq 1..issued

(* What has served once is gone: a code that signed its user in is no longer *)
(* kept, and a link that completed a reset is on no account, so that only     *)
(* requests that had found it before can still use it.  Neither a mail that   *)
(* fails, a new link, a restart nor an overlapping reset brings one back      *)
(* (consumeLoginOtpIfValid, consumePasswordResetToken).                       *)
UsedOnceIsGone ==
  \A u \in Users :
    /\ accounts[u].link \notin used
    /\ codes[u] # Null => codes[u].code \notin signIns
=============================================================================

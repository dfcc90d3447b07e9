---------------------------- MODULE PeopleProofs ----------------------------
(***************************************************************************)
(* The theorems about accounts, attendance, customers and their portal,    *)
(* settings, parties and the platform's plans, for every value of their    *)
(* constants.                                                              *)
(***************************************************************************)
EXTENDS Credentials, Attendance, CustomerPortal, Singletons, PlatformPlans, PartyBooks,
        FunctionSums, TLAPS

-----------------------------------------------------------------------------
(***************************************************************************)
(* What has served once is gone, proved for any number of users, requests, *)
(* codes and links.  UsedOnceIsGone is not inductive: a link could be on a *)
(* second account, and a request that found a link could come to an end    *)
(* after another account was given it.  Both are excluded because a link   *)
(* is issued to one account only, which CredApart and CredFits record.     *)
(***************************************************************************)
CredNamed == {"code.user", "link.user", "link.issue", "link.mail", "link.clear"}

CredChanging == {"change.find", "change.write"}

AccountRow(n) == [password : Passwords, must : BOOLEAN, active : BOOLEAN,
           link : 0..n, live : BOOLEAN]

\* What the request of client c holds at its label; the link of a request about
\* to write is on no account but the one it was found on.
CredFits(c) ==
  /\ pc[c] \in CredNamed => req[c] \in [user : Users]
  /\ pc[c] = "code.verify" => req[c] \in [user : Users, code : 1..issued]
  /\ pc[c] = "reset.find" => req[c] \in [link : 1..links, password : Passwords]
  /\ pc[c] = "reset.write" =>
       /\ req[c] \in [user : Users, link : 1..links, password : Passwords]
       /\ \A v \in Users : accounts[v].link = req[c].link => v = req[c].user
  /\ pc[c] \in CredChanging =>
       req[c] \in [user : Users, current : Passwords, password : Passwords]

AccountsTyped ==
  /\ links \in Nat
  /\ issued \in Nat
  /\ accounts \in [Users -> AccountRow(links)]
  /\ codes = [u \in Users |-> codes[u]]
  /\ \A u \in Users : codes[u] # Null => codes[u] \in [code : 1..issued, live : BOOLEAN]
  /\ used \subseteq 1..links
  /\ signIns \subseteq 1..issued

\* No link is on two accounts and no code is kept for two users.
CredApart ==
  \A u, v \in Users :
    /\ accounts[u].link = accounts[v].link => u = v \/ accounts[u].link = 0
    /\ codes[u] # Null /\ codes[v] # Null /\ codes[u].code = codes[v].code => u = v

CredRequested ==
  /\ pc = [c \in Clients |-> pc[c]]
  /\ req = [c \in Clients |-> req[c]]
  /\ \A c \in Clients : CredFits(c)

CredInv == AccountsTyped /\ CredApart /\ UsedOnceIsGone /\ CredRequested

-----------------------------------------------------------------------------

\* Before the first request nothing has been issued.
LEMMA CredInitSound == CredInit /\ RequestInit => CredInv
<1> SUFFICES ASSUME CredInit, RequestInit  PROVE CredInv
  OBVIOUS
<1>1. AccountsTyped
  <2>1. \A p \in Passwords : [password |-> p, must |-> TRUE, active |-> TRUE,
                              link |-> 0, live |-> FALSE] \in AccountRow(0)
    BY DEF AccountRow
  <2>2. accounts \in [Users -> AccountRow(0)] /\ links = 0
    BY <2>1 DEF CredInit
  <2>3. accounts \in [Users -> AccountRow(links)]
    BY <2>2
  <2> QED  BY <2>2, <2>3 DEF CredInit, AccountsTyped
<1>2. CredApart /\ UsedOnceIsGone
  BY DEF CredInit, CredApart, UsedOnceIsGone
<1>3. CredRequested
  BY DEF RequestInit, CredRequested, CredFits, CredNamed, CredChanging
<1> QED  BY <1>1, <1>2, <1>3 DEF CredInv

\* A step of one request that leaves the rows alone keeps the invariant when
\* what the request holds afterwards fits its label.
LEMMA CredOwnStep ==
  ASSUME CredInv, NEW c \in Clients, UNCHANGED credVars,
         pc' = [pc EXCEPT ![c] = pc'[c]], req' = [req EXCEPT ![c] = req'[c]],
         CredFits(c)'
  PROVE  CredInv'
<1>1. (AccountsTyped /\ CredApart /\ UsedOnceIsGone)'
  BY DEF CredInv, AccountsTyped, CredApart, UsedOnceIsGone, credVars
<1>2. \A d \in Clients \ {c} : CredFits(d)'
  BY DEF CredInv, CredRequested, CredFits, credVars
<1>3. CredRequested'
  BY <1>2 DEF CredInv, CredRequested
<1> QED  BY <1>1, <1>3 DEF CredInv

\* A request that did nothing still fits when rows changed under it: its link is
\* given to no other account, because a new link is a new number.
LEMMA CredOthersFit ==
  ASSUME CredInv, NEW d \in Clients, pc'[d] = pc[d], req'[d] = req[d],
         links' \in Nat, links' >= links, issued' \in Nat, issued' >= issued,
         \A v \in Users : accounts'[v].link = accounts[v].link
                          \/ accounts'[v].link \notin 1..links
  PROVE  CredFits(d)'
<1>1. CredFits(d) /\ links \in Nat /\ issued \in Nat
  BY DEF CredInv, CredRequested, AccountsTyped
<1>2. 1..links \subseteq 1..links' /\ 1..issued \subseteq 1..issued'
  BY <1>1
<1>3. CASE pc[d] = "reset.write"
  <2>1. /\ req[d] \in [user : Users, link : 1..links, password : Passwords]
        /\ \A v \in Users : accounts[v].link = req[d].link => v = req[d].user
    BY <1>1, <1>3 DEF CredFits
  <2>2. req[d] \in [user : Users, link : 1..links', password : Passwords]
    BY <1>2, <2>1
  <2>3. \A v \in Users : accounts'[v].link = req[d].link => v = req[d].user
    BY <2>1
  <2> QED  BY <1>3, <2>2, <2>3 DEF CredFits, CredNamed, CredChanging
<1>4. CASE pc[d] # "reset.write"
  BY <1>1, <1>2, <1>4 DEF CredFits
<1> QED  BY <1>3, <1>4

\* What remains to be shown of a step of c that changes rows and then answers.
LEMMA CredAnswered ==
  ASSUME CredInv, NEW c \in Clients, Answer(c), (AccountsTyped /\ CredApart /\ UsedOnceIsGone)',
         links' >= links, issued' >= issued,
         \A v \in Users : accounts'[v].link = accounts[v].link
                          \/ accounts'[v].link \notin 1..links
  PROVE  CredInv'
<1>1. \A d \in Clients \ {c} : pc'[d] = pc[d] /\ req'[d] = req[d]
  BY DEF Answer, CredInv, CredRequested
<1>2. \A d \in Clients \ {c} : CredFits(d)'
  BY <1>1, CredOthersFit DEF AccountsTyped
<1>3. pc'[c] = "idle"
  BY DEF Answer, CredInv, CredRequested
<1>4. CredFits(c)'
  BY <1>3 DEF CredFits, CredNamed, CredChanging
<1>5. pc' = [d \in Clients |-> pc'[d]] /\ req' = [d \in Clients |-> req'[d]]
  BY DEF Answer, CredInv, CredRequested
<1>6. CredRequested'
  BY <1>2, <1>4, <1>5 DEF CredRequested
<1> QED  BY <1>6 DEF CredInv

\* Requests that arrive, and steps that only read rows.
LEMMA CredReadSound ==
  ASSUME CredInv, NEW c \in Clients,
         \/ CodeRequest(c) \/ CodeEnter(c) \/ LinkRequest(c) \/ LinkUser(c)
         \/ LinkMailed(c) \/ LinkMailFailed(c) \/ LinkFollow(c) \/ ResetFind(c)
         \/ PasswordChange(c) \/ ChangeFind(c)
  PROVE  CredInv'
<1> USE DEF Arrive, Goto, Answer
<1>0. /\ CredFits(c)
      /\ pc = [d \in Clients |-> pc[d]] /\ req = [d \in Clients |-> req[d]]
      /\ UNCHANGED credVars
  BY DEF CredInv, CredRequested, CodeRequest, CodeEnter, LinkRequest, LinkUser, LinkMailed,
         LinkMailFailed, LinkFollow, ResetFind, PasswordChange, ChangeFind
<1>1. pc' = [pc EXCEPT ![c] = pc'[c]] /\ req' = [req EXCEPT ![c] = req'[c]]
  BY <1>0 DEF CodeRequest, CodeEnter, LinkRequest, LinkUser, LinkMailed,
              LinkMailFailed, LinkFollow, ResetFind, PasswordChange, ChangeFind
<1>2. CASE Answer(c)
  <2>1. pc'[c] = "idle"
    BY <1>0, <1>2
  <2> QED  BY <1>0, <1>1, <2>1, CredOwnStep DEF CredFits, CredNamed, CredChanging
<1>3. CASE CodeRequest(c) \/ LinkRequest(c)
  <2>1. pc'[c] \in CredNamed /\ req'[c] \in [user : Users]
    BY <1>0, <1>3 DEF CodeRequest, LinkRequest, CredNamed
  <2> QED  BY <1>0, <1>1, <2>1, CredOwnStep DEF CredFits, CredNamed, CredChanging
<1>4. CASE CodeEnter(c)
  <2>1. pc'[c] = "code.verify" /\ req'[c] \in [user : Users, code : 1..issued']
    BY <1>0, <1>4 DEF CodeEnter, credVars
  <2> QED  BY <1>0, <1>1, <2>1, CredOwnStep DEF CredFits, CredNamed, CredChanging
<1>5. CASE (LinkUser(c) \/ LinkMailFailed(c)) /\ ~ Answer(c)
  <2>1. pc'[c] \in CredNamed /\ req'[c] \in [user : Users]
    BY <1>0, <1>5 DEF LinkUser, LinkMailFailed, CredNamed, CredFits
  <2> QED  BY <1>0, <1>1, <2>1, CredOwnStep DEF CredFits, CredNamed, CredChanging
<1>6. CASE LinkFollow(c)
  <2>1. pc'[c] = "reset.find" /\ req'[c] \in [link : 1..links', password : Passwords]
    BY <1>0, <1>6 DEF LinkFollow, credVars
  <2> QED  BY <1>0, <1>1, <2>1, CredOwnStep DEF CredFits, CredNamed, CredChanging
<1>7. CASE ResetFind(c) /\ ~ Answer(c)
  <2>1. req[c] \in [link : 1..links, password : Passwords]
    BY <1>0, <1>7 DEF ResetFind, CredFits
  <2>2. PICK u \in Users :
          /\ accounts[u].link = req[c].link
          /\ Goto(c, "reset.write",
                  [user |-> u, link |-> req[c].link, password |-> req[c].password])
    BY <1>7 DEF ResetFind
  <2>3. pc'[c] = "reset.write" /\ req'[c].user = u /\ req'[c].link = req[c].link
        /\ req'[c] \in [user : Users, link : 1..links, password : Passwords]
    BY <1>0, <2>1, <2>2
  <2>4. \A v \in Users : accounts[v].link = req[c].link => v = u
    BY <2>1, <2>2 DEF CredInv, CredApart, AccountsTyped
  <2> QED  BY <1>0, <1>1, <2>3, <2>4, CredOwnStep DEF CredFits, CredNamed, CredChanging, credVars
<1>8. CASE PasswordChange(c) \/ (ChangeFind(c) /\ ~ Answer(c))
  <2>1. /\ pc'[c] \in CredChanging
        /\ req'[c] \in [user : Users, current : Passwords, password : Passwords]
    BY <1>0, <1>8 DEF PasswordChange, ChangeFind, CredChanging, CredFits
  <2> QED  BY <1>0, <1>1, <2>1, CredOwnStep DEF CredFits, CredNamed, CredChanging
<1> QED
  BY <1>2, <1>3, <1>4, <1>5, <1>6, <1>7, <1>8 DEF LinkMailed

\* Changes to one account that give it no link keep what is said of rows.
LEMMA AccountKept ==
  ASSUME CredInv, NEW u \in Users, NEW row \in AccountRow(links),
         accounts' = [accounts EXCEPT ![u] = row],
         row.link \in {0, accounts[u].link},
         used' \subseteq 1..links, UNCHANGED <<codes, links, issued, signIns>>,
         \A v \in Users : accounts'[v].link \notin used'
  PROVE  /\ (AccountsTyped /\ CredApart /\ UsedOnceIsGone)'
         /\ \A v \in Users : accounts'[v].link = accounts[v].link
                             \/ accounts'[v].link \notin 1..links
<1> USE DEF CredInv, AccountsTyped
<1>1. /\ accounts \in [Users -> AccountRow(links)]
      /\ \A v \in Users : accounts'[v].link \in {0, accounts[v].link}
  BY DEF AccountRow
<1>2. accounts' \in [Users -> AccountRow(links')]
  BY <1>1
<1>3. AccountsTyped'
  BY <1>2
<1>4. CredApart'
  BY <1>1 DEF CredApart
<1>5. UsedOnceIsGone'
  BY DEF UsedOnceIsGone
<1> QED  BY <1>1, <1>3, <1>4, <1>5

\* Codes are issued, entered and forgotten.
LEMMA CodeSound ==
  ASSUME CredInv, NEW c \in Clients, CodeIssue(c) \/ CodeVerify(c)
  PROVE  CredInv'
<1> USE DEF CredInv, AccountsTyped, CredApart, UsedOnceIsGone
<1>1. CASE CodeIssue(c)
  <2>0. req[c].user \in Users
    BY <1>1 DEF CodeIssue, CredRequested, CredFits, CredNamed
  <2>1. CASE UNCHANGED <<issued, codes>>
    BY <1>1, <2>1, CredAnswered DEF CodeIssue
  <2>2. CASE ~ UNCHANGED <<issued, codes>>
    <3> DEFINE u == req[c].user  new == [code |-> issued + 1, live |-> TRUE]
    <3>1. issued' = issued + 1 /\ codes' = [codes EXCEPT ![u] = new]
      BY <1>1, <2>2 DEF CodeIssue
    <3>2. /\ codes'[u].code = issued + 1
          /\ codes'[u] \in [code : 1..issued', live : BOOLEAN]
          /\ \A v \in Users \ {u} : codes'[v] = codes[v]
      BY <2>0, <3>1
    <3>3. \A v \in Users : codes[v] # Null =>
            /\ codes[v] \in [code : 1..issued, live : BOOLEAN]
            /\ codes[v].code \in 1..issued
      OBVIOUS
    <3>4. 1..issued \subseteq 1..issued' /\ issued + 1 \notin 1..issued
      BY <3>1
    <3>5. codes' = [v \in Users |-> codes'[v]]
      BY <2>0, <3>1
    <3>6. AccountsTyped'
      <4>1. \A v \in Users : codes'[v] # Null =>
              codes'[v] \in [code : 1..issued', live : BOOLEAN]
        BY <3>2, <3>3, <3>4
      <4> QED  BY <1>1, <3>1, <3>4, <3>5, <4>1 DEF CodeIssue
    <3>7. CredApart'
      BY <1>1, <3>2, <3>3, <3>4 DEF CodeIssue
    <3>8. UsedOnceIsGone'
      BY <1>1, <3>2, <3>4 DEF CodeIssue
    <3> HIDE DEF u, new
    <3> QED  BY <1>1, <3>1, <3>6, <3>7, <3>8, CredAnswered DEF CodeIssue
  <2> QED  BY <2>1, <2>2
<1>2. CASE CodeVerify(c)
  <2> DEFINE u == req[c].user  n == req[c].code
  <2>0. u \in Users /\ n \in 1..issued
    BY <1>2 DEF CodeVerify, CredRequested, CredFits
  <2>1. \A v \in Users : codes'[v] # Null => codes'[v] = codes[v]
    BY <1>2, <2>0 DEF CodeVerify, Consumed
  <2>2. codes' = [v \in Users |-> codes'[v]]
    BY <1>2, <2>0 DEF CodeVerify
  <2>3. /\ signIns' \in {signIns, signIns \cup {n}}
        /\ signIns' # signIns =>
             codes'[u] = Null /\ codes[u] # Null /\ codes[u].code = n
    BY <1>2, <2>0 DEF CodeVerify, Consumed
  <2>4. AccountsTyped'
    BY <1>2, <2>0, <2>1, <2>2, <2>3 DEF CodeVerify
  <2>5. CredApart'
    BY <1>2, <2>1 DEF CodeVerify
  <2>6. UsedOnceIsGone'
    BY <1>2, <2>0, <2>1, <2>3 DEF CodeVerify
  <2> HIDE DEF u, n
  <2> QED  BY <1>2, <2>4, <2>5, <2>6, CredAnswered DEF CodeVerify
<1> QED  BY <1>1, <1>2

\* A link is issued under a number that no account and no request has had.
LEMMA LinkIssueSound ==
  ASSUME CredInv, NEW c \in Clients, LinkIssue(c)
  PROVE  CredInv'
<1> USE DEF CredInv, AccountsTyped
<1> DEFINE u == req[c].user
           row == [accounts[u] EXCEPT !.link = links + 1, !.live = TRUE]
<1>0. req[c] \in [user : Users] /\ u \in Users /\ accounts[u] \in AccountRow(links)
  BY DEF LinkIssue, CredRequested, CredFits, CredNamed
<1>1. links' = links + 1 /\ accounts' = [accounts EXCEPT ![u] = row]
  BY DEF LinkIssue
<1>2. 1..links \subseteq 1..links' /\ 0..links \subseteq 0..links'
      /\ links + 1 \in 0..links' /\ links + 1 \notin 0..links
  BY <1>1
<1>3. /\ row \in AccountRow(links') /\ row.link = links + 1
      /\ \A v \in Users : accounts[v] \in AccountRow(links') /\ accounts[v].link \in 0..links
  BY <1>0, <1>2 DEF AccountRow
<1>4. /\ accounts'[u].link = links + 1
      /\ \A v \in Users \ {u} : accounts'[v] = accounts[v]
      /\ accounts' \in [Users -> AccountRow(links')]
  BY <1>0, <1>1, <1>3
<1> HIDE DEF u, row
<1>5. AccountsTyped'
  BY <1>1, <1>2, <1>4 DEF LinkIssue
<1>6. CredApart'
  BY <1>0, <1>2, <1>3, <1>4 DEF LinkIssue, CredApart
<1>7. UsedOnceIsGone'
  BY <1>2, <1>3, <1>4 DEF LinkIssue, UsedOnceIsGone
<1>8. \A v \in Users : accounts'[v].link = accounts[v].link
                       \/ accounts'[v].link \notin 1..links
  BY <1>2, <1>4
<1>9. \A d \in Clients \ {c} : CredFits(d)'
  <2>1. \A d \in Clients \ {c} : pc'[d] = pc[d] /\ req'[d] = req[d]
    BY DEF LinkIssue, Goto, CredRequested
  <2> QED  BY <1>1, <1>8, <2>1, CredOthersFit DEF LinkIssue
<1>10. CredFits(c)'
  <2>1. pc'[c] = "link.mail" /\ req'[c] = req[c]
    BY DEF LinkIssue, Goto, CredRequested
  <2> QED  BY <1>0, <2>1 DEF CredFits, CredNamed, CredChanging
<1>11. CredRequested'
  BY <1>9, <1>10 DEF LinkIssue, Goto, CredRequested
<1> QED  BY <1>5, <1>6, <1>7, <1>11

\* The three ways in which a request writes an account leave it well formed.
LEMMA AccountWritten ==
  ASSUME NEW n \in Nat, NEW r \in AccountRow(n), NEW p \in Passwords
  PROVE  /\ [r EXCEPT !.link = 0, !.live = FALSE] \in AccountRow(n)
         /\ [r EXCEPT !.link = 0, !.live = FALSE].link = 0
         /\ NewPassword(r, p) \in AccountRow(n)
         /\ NewPassword(r, p).link = 0
         /\ [r EXCEPT !.password = p, !.must = FALSE] \in AccountRow(n)
         /\ [r EXCEPT !.password = p, !.must = FALSE].link = r.link
<1>1. 0 \in 0..n
  OBVIOUS
<1>2. \A q \in AccountRow(n) : /\ [q EXCEPT !.link = 0, !.live = FALSE] \in AccountRow(n)
                        /\ [q EXCEPT !.link = 0, !.live = FALSE].link = 0
  BY <1>1 DEF AccountRow
<1> DEFINE q == [r EXCEPT !.password = p, !.must = FALSE]
<1>3. q \in AccountRow(n) /\ q.link = r.link
  BY DEF AccountRow
<1>4. NewPassword(r, p) = [q EXCEPT !.link = 0, !.live = FALSE]
  BY DEF NewPassword
<1> HIDE DEF q
<1>5. NewPassword(r, p) \in AccountRow(n) /\ NewPassword(r, p).link = 0
  BY <1>2, <1>3, <1>4
<1> QED  BY <1>2, <1>3, <1>5 DEF q

\* A failed mail, a completed reset and a changed password write one account.
LEMMA CredWriteSound ==
  ASSUME CredInv, NEW c \in Clients, LinkClear(c) \/ ResetWrite(c) \/ ChangeWrite(c)
  PROVE  CredInv'
<1> DEFINE u == req[c].user
<1>0. links \in Nat /\ accounts \in [Users -> AccountRow(links)] /\ used \subseteq 1..links
      /\ CredFits(c) /\ \A v \in Users : accounts[v].link \notin used
  BY DEF CredInv, AccountsTyped, CredRequested, UsedOnceIsGone
<1>1. CASE LinkClear(c)
  <2> DEFINE row == [accounts[u] EXCEPT !.link = 0, !.live = FALSE]
  <2>1. u \in Users
    BY <1>0, <1>1 DEF LinkClear, CredFits, CredNamed
  <2>2. accounts[u] \in AccountRow(links) /\ accounts[u].password \in Passwords
    BY <1>0, <2>1 DEF AccountRow
  <2>3. row \in AccountRow(links) /\ row.link = 0
    BY <1>0, <2>2, AccountWritten
  <2>4. accounts' = [accounts EXCEPT ![u] = row]
    BY <1>1 DEF LinkClear
  <2> HIDE DEF row, u
  <2>5. \A v \in Users : accounts'[v].link \notin used'
    BY <1>0, <1>1, <2>1, <2>3, <2>4 DEF LinkClear
  <2>6. /\ (AccountsTyped /\ CredApart /\ UsedOnceIsGone)'
        /\ \A v \in Users : accounts'[v].link = accounts[v].link
                            \/ accounts'[v].link \notin 1..links
    BY <1>0, <1>1, <2>1, <2>3, <2>4, <2>5, AccountKept DEF LinkClear
  <2>7. Answer(c) /\ links' = links /\ issued' = issued /\ issued \in Nat
    BY <1>1 DEF LinkClear, CredInv, AccountsTyped
  <2> QED  BY <1>0, <2>6, <2>7, CredAnswered
<1>2. CASE ResetWrite(c)
  <2> DEFINE row == NewPassword(accounts[u], req[c].password)
  <2>1. /\ req[c] \in [user : Users, link : 1..links, password : Passwords]
        /\ \A v \in Users : accounts[v].link = req[c].link => v = u
    BY <1>0, <1>2 DEF ResetWrite, CredFits
  <2>2. /\ u \in Users /\ req[c].password \in Passwords /\ req[c].link \in 1..links
        /\ accounts[u] \in AccountRow(links)
    BY <1>0, <2>1
  <2>3. row \in AccountRow(links) /\ row.link = 0
    BY <1>0, <2>2, AccountWritten DEF NewPassword
  <2>4. accounts' = [accounts EXCEPT ![u] = row] /\ used' = used \cup {req[c].link}
    BY <1>2 DEF ResetWrite
  <2> HIDE DEF row
  <2>5. \A v \in Users : accounts'[v].link \notin used'
    BY <1>0, <2>1, <2>2, <2>3, <2>4
  <2> HIDE DEF u
  <2>6. /\ (AccountsTyped /\ CredApart /\ UsedOnceIsGone)'
        /\ \A v \in Users : accounts'[v].link = accounts[v].link
                            \/ accounts'[v].link \notin 1..links
    BY <1>0, <1>2, <2>2, <2>3, <2>4, <2>5, AccountKept DEF ResetWrite
  <2>7. Answer(c) /\ links' = links /\ issued' = issued /\ issued \in Nat
    BY <1>2 DEF ResetWrite, CredInv, AccountsTyped
  <2> QED  BY <1>0, <2>6, <2>7, CredAnswered
<1>3. CASE ChangeWrite(c)
  <2> DEFINE row == [accounts[u] EXCEPT !.password = req[c].password, !.must = FALSE]
  <2>1. u \in Users /\ req[c].password \in Passwords /\ accounts[u] \in AccountRow(links)
    BY <1>0, <1>3 DEF ChangeWrite, CredFits, CredChanging
  <2>2. row \in AccountRow(links) /\ row.link = accounts[u].link
    BY <1>0, <2>1, AccountWritten
  <2>3. accounts' = [accounts EXCEPT ![u] = row]
    BY <1>3 DEF ChangeWrite
  <2> HIDE DEF row, u
  <2>4. \A v \in Users : accounts'[v].link \notin used'
    BY <1>0, <1>3, <2>1, <2>2, <2>3 DEF ChangeWrite
  <2>5. /\ (AccountsTyped /\ CredApart /\ UsedOnceIsGone)'
        /\ \A v \in Users : accounts'[v].link = accounts[v].link
                            \/ accounts'[v].link \notin 1..links
    BY <1>0, <1>3, <2>1, <2>2, <2>3, <2>4, AccountKept DEF ChangeWrite
  <2>6. Answer(c) /\ links' = links /\ issued' = issued /\ issued \in Nat
    BY <1>3 DEF ChangeWrite, CredInv, AccountsTyped
  <2> QED  BY <1>0, <2>5, <2>6, CredAnswered
<1> QED  BY <1>1, <1>2, <1>3

\* Steps that are not of a request under way: administrators, time, a restart.
LEMMA CredOutsideSound ==
  ASSUME CredInv,
         \/ \E c \in Clients : AdminReset(c) \/ AdminSetActive(c)
         \/ \E u \in Users : CodeExpire(u) \/ LinkExpire(u)
         \/ Restart
  PROVE  CredInv'
<1>0. /\ links \in Nat /\ issued \in Nat /\ accounts \in [Users -> AccountRow(links)]
      /\ used \subseteq 1..links /\ CredRequested
      /\ \A v \in Users : accounts[v].link \notin used
  BY DEF CredInv, AccountsTyped, UsedOnceIsGone
<1>1. ASSUME NEW u \in Users, NEW row \in AccountRow(links), row.link = accounts[u].link,
             accounts' = [accounts EXCEPT ![u] = row],
             UNCHANGED <<codes, links, issued, used, signIns, pc, req>>
      PROVE  CredInv'
  <2>1. \A v \in Users : accounts'[v].link = accounts[v].link
    BY <1>0, <1>1
  <2>2. (AccountsTyped /\ CredApart /\ UsedOnceIsGone)'
    BY <1>0, <1>1, <2>1, AccountKept
  <2>3. \A d \in Clients : CredFits(d)'
    BY <1>0, <1>1, <2>1, CredOthersFit
  <2>4. CredRequested'
    BY <1>0, <1>1, <2>3 DEF CredRequested
  <2> QED  BY <2>2, <2>4 DEF CredInv
<1>2. \A r \in AccountRow(links) :
        /\ \A p \in Passwords :
             /\ [r EXCEPT !.password = p, !.must = TRUE] \in AccountRow(links)
             /\ [r EXCEPT !.password = p, !.must = TRUE].link = r.link
        /\ [r EXCEPT !.active = ~ @] \in AccountRow(links)
        /\ [r EXCEPT !.active = ~ @].link = r.link
        /\ [r EXCEPT !.live = FALSE] \in AccountRow(links)
        /\ [r EXCEPT !.live = FALSE].link = r.link
  BY DEF AccountRow
<1>3. CASE \E c \in Clients : AdminReset(c)
  <2>1. PICK u \in Users, p \in Passwords :
          accounts' = [accounts EXCEPT ![u] =
                         [accounts[u] EXCEPT !.password = p, !.must = TRUE]]
    BY <1>0, <1>3 DEF AdminReset
  <2>2. UNCHANGED <<codes, links, issued, used, signIns, pc, req>>
    BY <1>3 DEF AdminReset, AtOnce
  <2> QED  BY <1>0, <1>1, <1>2, <2>1, <2>2
<1>4. CASE \E c \in Clients : AdminSetActive(c)
  <2>1. PICK u \in Users :
          accounts' = [accounts EXCEPT ![u] = [accounts[u] EXCEPT !.active = ~ @]]
    BY <1>4 DEF AdminSetActive
  <2>2. UNCHANGED <<codes, links, issued, used, signIns, pc, req>>
    BY <1>4 DEF AdminSetActive, AtOnce
  <2> QED  BY <1>0, <1>1, <1>2, <2>1, <2>2
<1>5. ASSUME NEW u \in Users, LinkExpire(u)  PROVE CredInv'
  <2>1. accounts' = [accounts EXCEPT ![u] = [accounts[u] EXCEPT !.live = FALSE]]
    BY <1>5 DEF LinkExpire
  <2>2. UNCHANGED <<codes, links, issued, used, signIns, pc, req>>
    BY <1>5 DEF LinkExpire, requestVars
  <2> QED  BY <1>0, <1>1, <1>2, <2>1, <2>2
<1>6. ASSUME NEW u \in Users, CodeExpire(u)  PROVE CredInv'
  <2>1. UNCHANGED <<accounts, links, issued, used, signIns, pc, req>>
    BY <1>6 DEF CodeExpire, requestVars
  <2>2. /\ codes' = [v \in Users |-> codes'[v]]
        /\ \A v \in Users : codes'[v] # Null =>
             /\ codes[v] # Null /\ codes'[v].code = codes[v].code
             /\ codes'[v] \in [code : 1..issued, live : BOOLEAN]
    BY <1>6 DEF CodeExpire, CredInv, AccountsTyped
  <2>3. AccountsTyped'
    BY <1>0, <2>1, <2>2 DEF CredInv, AccountsTyped
  <2>4. CredApart' /\ UsedOnceIsGone'
    BY <2>1, <2>2 DEF CredInv, CredApart, UsedOnceIsGone
  <2>5. CredRequested'
    BY <1>0, <2>1 DEF CredRequested, CredFits
  <2> QED  BY <2>3, <2>4, <2>5 DEF CredInv
<1>7. CASE Restart
  <2>1. \A u \in Users : codes'[u] = Null
    BY <1>7 DEF Restart
  <2>2. (AccountsTyped /\ CredApart /\ UsedOnceIsGone)'
    BY <1>0, <1>7, <2>1 DEF Restart, CredInv, AccountsTyped, CredApart, UsedOnceIsGone
  <2>3. CredRequested'
    BY <1>7 DEF Restart, CredRequested, CredFits, CredNamed, CredChanging
  <2> QED  BY <2>2, <2>3 DEF CredInv
<1> QED  BY <1>3, <1>4, <1>5, <1>6, <1>7

\* However requests overlap, mails fail, codes and links expire and the server
\* restarts, a code or link that has served is not there to serve again
\* (consumeLoginOtpIfValid, consumePasswordResetToken).
THEOREM ServesOnce == CredSpec => []UsedOnceIsGone
<1>1. CredInit /\ RequestInit => CredInv
  BY CredInitSound
<1>2. CredInv /\ [CredStep]_<<credVars, requestVars>> => CredInv'
  <2> SUFFICES ASSUME CredInv, [CredStep]_<<credVars, requestVars>>  PROVE CredInv'
    OBVIOUS
  <2>1. CASE CredStep
    BY <2>1, CredReadSound, CodeSound, LinkIssueSound, CredWriteSound, CredOutsideSound DEF CredStep
  <2>2. CASE UNCHANGED <<credVars, requestVars>>
    BY <2>2 DEF CredInv, AccountsTyped, CredApart, UsedOnceIsGone, CredRequested, CredFits,
                credVars, requestVars
  <2> QED  BY <2>1, <2>2
<1>3. CredInv => UsedOnceIsGone
  BY DEF CredInv
<1> QED  BY <1>1, <1>2, <1>3, PTL DEF CredSpec

-----------------------------------------------------------------------------
(***************************************************************************)
(* A punch while a shift is under way ends one, proved for any number of   *)
(* punches, manual entries, resets and staff.  A request decides from the  *)
(* rows it read and writes later; the invariant keeps that, when it is not *)
(* about to end a shift, no row left alone since it came is an open shift  *)
(* of its employee and day.                                                *)
(***************************************************************************)
UnderWay(c, n) ==
  shifts[n].staff = req[c].staff /\ shifts[n].day = req[c].day /\ Open(shifts[n])

PunchHeld(c) ==
  /\ pc[c] \in {"punch.staff", "punch.rows", "punch.write"} =>
       req[c].staff \in Staff /\ req[c].day \in Days /\ req[c].time \in Times
  /\ pc[c] = "manual.find" => req[c] \in Shift
  /\ pc[c] = "manual.write" => req[c].entry \in Shift
  /\ pc[c] = "punch.write" =>
       /\ req[c].kind \in {"new", "in", "out"}
       /\ req[c].kind # "out" => \A n \in lasting[c] : ~UnderWay(c, n)

ShiftInv ==
  /\ pc = [c \in Clients |-> pc[c]]
  /\ req = [c \in Clients |-> req[c]]
  /\ shifts \in [Numbers -> Shift \cup {Null}]
  /\ \A c \in Clients : lasting[c] \subseteq Recorded /\ PunchHeld(c)

\* A row that is kept track of is as it was, and was tracked or is new to its request.
LEMMA LastingKept ==
  ASSUME ShiftInv, StillRecorded, NEW c \in Clients
  PROVE  /\ lasting'[c] \subseteq Recorded'
         /\ \A n \in lasting'[c] : shifts'[n] = shifts[n] /\ n \in Recorded
         /\ pc[c] # "idle" => lasting'[c] \subseteq lasting[c]
<1>1. lasting'[c] =
        IF pc'[c] = "idle" THEN {}
        ELSE {n \in IF pc[c] = "idle" THEN Recorded ELSE lasting[c] : shifts'[n] = shifts[n]}
  BY DEF StillRecorded
<1>2. lasting[c] \subseteq Recorded
  BY DEF ShiftInv
<1> QED  BY <1>1, <1>2 DEF Recorded

\* A request that did nothing holds what it held.
LEMMA PunchUntouched ==
  ASSUME ShiftInv, StillRecorded, NEW d \in Clients, pc'[d] = pc[d], req'[d] = req[d]
  PROVE  PunchHeld(d)'
<1>1. PunchHeld(d)
  BY DEF ShiftInv
<1> SUFFICES ASSUME pc[d] = "punch.write"  PROVE PunchHeld(d)'
  BY <1>1 DEF PunchHeld
<1>2. \A n \in lasting'[d] : shifts'[n] = shifts[n] /\ n \in lasting[d]
  BY LastingKept
<1> QED  BY <1>1, <1>2 DEF PunchHeld, UnderWay

\* A step of c keeps the invariant when what c holds afterwards is right.
LEMMA PunchMoves ==
  ASSUME ShiftInv, StillRecorded, NEW c \in Clients, PunchHeld(c)',
         pc' = [pc EXCEPT ![c] = pc'[c]], req' = [req EXCEPT ![c] = req'[c]],
         shifts' \in [Numbers -> Shift \cup {Null}]
  PROVE  ShiftInv'
<1>1. pc' = [d \in Clients |-> pc'[d]] /\ req' = [d \in Clients |-> req'[d]]
  BY DEF ShiftInv
<1>2. \A d \in Clients \ {c} : pc'[d] = pc[d] /\ req'[d] = req[d]
  BY DEF ShiftInv
<1>3. \A d \in Clients : PunchHeld(d)'
  BY <1>2, PunchUntouched
<1>4. \A d \in Clients : lasting'[d] \subseteq Recorded'
  BY LastingKept
<1> QED  BY <1>1, <1>3, <1>4 DEF ShiftInv

LEMMA ShiftInitSound == ShiftInit /\ RequestInit => ShiftInv
BY DEF ShiftInit, RequestInit, ShiftInv, PunchHeld, Recorded

\* What the query of the day's rows leaves to be written.
LEMMA PunchDecided ==
  ASSUME ShiftInv, StillRecorded, NEW c \in Clients, PunchRows(c)
  PROVE  PunchHeld(c)'
<1>1. /\ pc'[c] = "punch.write" /\ pc[c] = "punch.rows"
      /\ req'[c].staff = req[c].staff /\ req'[c].day = req[c].day
      /\ req'[c].time = req[c].time /\ PunchHeld(c)
      /\ req'[c].kind \in {"new", "in", "out"}
      /\ OpenRows(OfDay(c)) # {} => req'[c].kind = "out"
  BY DEF PunchRows, Goto, ShiftInv
<1>2. ASSUME req'[c].kind # "out", NEW n \in lasting'[c]  PROVE ~UnderWay(c, n)'
  <2>1. n \in Recorded /\ shifts'[n] = shifts[n]
    BY LastingKept
  <2>2. n \notin OpenRows(OfDay(c))
    BY <1>1, <1>2
  <2>3. ~UnderWay(c, n)
    BY <2>1, <2>2 DEF OpenRows, OfDay, UnderWay
  <2> QED  BY <1>1, <2>1, <2>3 DEF UnderWay
<1> QED  BY <1>1, <1>2 DEF PunchHeld

\* Requests that arrive and steps that read leave the rows alone.
LEMMA ShiftReadSound ==
  ASSUME ShiftInv, StillRecorded, NEW c \in Clients,
         \/ Punch(c) \/ PunchStaff(c) \/ PunchRows(c) \/ ManualEntry(c) \/ ManualFind(c)
  PROVE  ShiftInv'
<1> USE DEF Arrive, Goto, Answer
<1>1. shifts' \in [Numbers -> Shift \cup {Null}]
  BY DEF ShiftInv, Punch, PunchStaff, PunchRows, ManualEntry, ManualFind
<1>2. pc' = [pc EXCEPT ![c] = pc'[c]] /\ req' = [req EXCEPT ![c] = req'[c]]
  BY DEF ShiftInv, Punch, PunchStaff, PunchRows, ManualEntry, ManualFind
<1>3. CASE PunchRows(c)
  BY <1>1, <1>2, <1>3, PunchDecided, PunchMoves
<1>4. CASE Punch(c) \/ PunchStaff(c) \/ ManualEntry(c) \/ ManualFind(c)
  <2>0. PunchHeld(c)
    BY DEF ShiftInv
  <2>1. CASE Punch(c) \/ PunchStaff(c)
    <3>1. PunchHeld(c)'
      BY <2>0, <2>1 DEF ShiftInv, Punch, PunchStaff, PunchHeld
    <3> QED  BY <1>1, <1>2, <3>1, PunchMoves
  <2>2. CASE ManualEntry(c) \/ ManualFind(c)
    <3>1. PunchHeld(c)'
      BY <2>0, <2>2, AttendanceAssumption DEF ShiftInv, ManualEntry, ManualFind, PunchHeld
    <3> QED  BY <1>1, <1>2, <3>1, PunchMoves
  <2> QED  BY <1>4, <2>1, <2>2
<1> QED  BY <1>3, <1>4

\* Steps that write a row end their request, or are answered at once.
LEMMA ShiftWriteSound ==
  ASSUME ShiftInv, StillRecorded, NEW c \in Clients,
         PunchWrite(c) \/ ManualWrite(c) \/ ResetAttendance(c) \/ Hire(c)
  PROVE  ShiftInv'
<1>1. CASE PunchWrite(c)
  <2> DEFINE entry == [staff |-> req[c].staff, day |-> req[c].day, in |-> req[c].time,
                       out |-> Unset, status |-> StatusIn(req[c].time)]
             ended(r) == [r EXCEPT !.out = req[c].time,
                                   !.status = StatusOut(req[c].in, req[c].time)]
  <2>1. /\ req[c].kind \in {"new", "in", "out"}
        /\ req[c].staff \in Staff /\ req[c].day \in Days /\ req[c].time \in Times
        /\ shifts \in [Numbers -> Shift \cup {Null}]
    BY <1>1 DEF PunchWrite, ShiftInv, PunchHeld
  <2>2. entry \in Shift
    BY <2>1 DEF Shift, StatusIn, Status
  <2>3. \A r \in Shift : ended(r) \in Shift
    BY <2>1 DEF Shift, StatusOut, StatusIn, Status
  <2> HIDE DEF entry, ended
  <2>4. \/ Insert(entry)
        \/ shifts' = [shifts EXCEPT ![req[c].row] = IF @ = Null THEN @ ELSE entry]
        \/ shifts' = [shifts EXCEPT ![req[c].row] = IF @ = Null THEN @ ELSE ended(@)]
    BY <1>1, <2>1 DEF PunchWrite, entry, ended
  <2>5. shifts' \in [Numbers -> Shift \cup {Null}]
    BY <2>1, <2>2, <2>3, <2>4 DEF Insert
  <2>6. pc'[c] = "idle" /\ pc' = [pc EXCEPT ![c] = pc'[c]] /\ req' = [req EXCEPT ![c] = req'[c]]
    BY <1>1 DEF PunchWrite, Answer, ShiftInv
  <2> QED  BY <2>5, <2>6, PunchMoves DEF PunchHeld
<1>2. CASE ManualWrite(c)
  <2>1. shifts' \in [Numbers -> Shift \cup {Null}]
    <3>1. req[c].entry \in Shift /\ shifts \in [Numbers -> Shift \cup {Null}]
      BY <1>2 DEF ManualWrite, ShiftInv, PunchHeld
    <3> QED  BY <1>2, <3>1 DEF ManualWrite, Insert
  <2>2. pc'[c] = "idle" /\ pc' = [pc EXCEPT ![c] = pc'[c]] /\ req' = [req EXCEPT ![c] = req'[c]]
    BY <1>2 DEF ManualWrite, Answer, ShiftInv
  <2> QED  BY <2>1, <2>2, PunchMoves DEF PunchHeld
<1>3. CASE ResetAttendance(c) \/ Hire(c)
  <2>1. shifts' \in [Numbers -> Shift \cup {Null}]
    BY <1>3 DEF ResetAttendance, Hire, ShiftInv
  <2>2. pc' = pc /\ req' = req
    BY <1>3 DEF ResetAttendance, Hire, AtOnce
  <2>3. PunchHeld(c)'
    BY <2>2, PunchUntouched
  <2> QED  BY <2>1, <2>2, <2>3, PunchMoves DEF ShiftInv
<1> QED  BY <1>1, <1>2, <1>3

\* Only the write itself answers a punch that was about to write.
LEMMA PunchedWrites ==
  ASSUME ShiftInv, NEW c \in Clients, NEW d \in Clients, Punched(d),
         \/ Punch(c) \/ PunchStaff(c) \/ PunchRows(c) \/ PunchWrite(c)
         \/ ManualEntry(c) \/ ManualFind(c) \/ ManualWrite(c)
         \/ ResetAttendance(c) \/ Hire(c)
  PROVE  c = d /\ PunchWrite(d)
<1> USE DEF Arrive, Goto, Answer, AtOnce
<1>1. pc[d] = "punch.write" /\ pc'[d] = "idle"
  BY DEF Punched
<1>2. c = d
  BY <1>1 DEF ShiftInv, Punch, PunchStaff, PunchRows, PunchWrite, ManualEntry, ManualFind,
              ManualWrite, ResetAttendance, Hire
<1> QED
  BY <1>1, <1>2 DEF Punch, PunchStaff, PunchRows, ManualEntry, ManualFind, ManualWrite,
                    ResetAttendance, Hire

\* However punches, entries by hand and resets of the same days overlap, a punch
\* during which a shift was under way throughout opens no other: the rows it
\* changes end with it (punchAttendance).
THEOREM PunchesEnd == ShiftSpec => PunchEndsOpenShift
<1>1. ShiftInit /\ RequestInit => ShiftInv
  BY ShiftInitSound
<1>2. ShiftInv /\ [ShiftStep]_<<shiftVars, requestVars>> => ShiftInv'
  <2> SUFFICES ASSUME ShiftInv, [ShiftStep]_<<shiftVars, requestVars>>  PROVE ShiftInv'
    OBVIOUS
  <2>1. CASE ShiftStep
    BY <2>1, ShiftReadSound, ShiftWriteSound DEF ShiftStep
  <2>2. CASE UNCHANGED <<shiftVars, requestVars>>
    BY <2>2 DEF ShiftInv, PunchHeld, UnderWay, Recorded, shiftVars, requestVars
  <2> QED  BY <2>1, <2>2
<1>3. ShiftInv /\ [ShiftStep]_<<shiftVars, requestVars>> =>
        [\A c \in Clients : Punched(c) =>
           \A n \in lasting[c] :
             shifts[n].staff = req[c].staff /\ shifts[n].day = req[c].day /\ Open(shifts[n])
               => \A k \in Numbers : shifts'[k] # Null /\ shifts'[k] # shifts[k]
                                       => shifts'[k].out = req[c].time]_<<shiftVars, requestVars>>
  <2> SUFFICES ASSUME ShiftInv, ShiftStep, NEW c \in Clients, Punched(c),
                      NEW n \in lasting[c], UnderWay(c, n),
                      NEW k \in Numbers, shifts'[k] # Null, shifts'[k] # shifts[k]
               PROVE  shifts'[k].out = req[c].time
    BY DEF UnderWay
  <2>1. PunchWrite(c)
    BY PunchedWrites DEF ShiftStep
  <2>2. req[c].kind = "out"
    BY <2>1 DEF PunchWrite, ShiftInv, PunchHeld
  <2>3. shifts' = [shifts EXCEPT ![req[c].row] =
                     IF @ = Null THEN @
                     ELSE [@ EXCEPT !.out = req[c].time, !.status = StatusOut(req[c].in, req[c].time)]]
    BY <2>1, <2>2 DEF PunchWrite
  <2>4. k = req[c].row /\ shifts[k] # Null /\ shifts[k] \in Shift
    BY <2>3 DEF ShiftInv
  <2>5. shifts'[k] = [shifts[k] EXCEPT !.out = req[c].time,
                                       !.status = StatusOut(req[c].in, req[c].time)]
    BY <2>3, <2>4 DEF ShiftInv
  <2> QED  BY <2>4, <2>5 DEF Shift
<1> QED  BY <1>1, <1>2, <1>3, PTL DEF ShiftSpec, PunchEndsOpenShift

-----------------------------------------------------------------------------
(***************************************************************************)
(* What a customer was told opens the portal, proved for any number of     *)
(* customers, phone numbers, passwords and requests.  ToldOpensPortal says *)
(* nothing of a request under way or of a message not sent yet; Served     *)
(* adds that a number which a request has checked is still free when it is *)
(* written, and that a message names the password in force.  As it holds   *)
(* only while requests come one after the other, so does the invariant.    *)
(***************************************************************************)
CustomerRow == [phone : Phones, referredBy : Customers \cup {Null}]

Creating == {"customer.clash", "customer.referrer", "customer.insert"}

Renumbering == {"update.clash", "update.current", "update.write"}

PortalFits(c) ==
  /\ pc[c] \in Creating => req[c] \in CustomerRow
  /\ pc[c] \in Renumbering => req[c].customer \in Customers /\ req[c].phone \in Phones
  /\ pc[c] \in {"customers.read", "customers.insert"} => req[c].list \in Seq(Phones)
  /\ pc[c] = "customers.insert" => req[c].fresh \subseteq DOMAIN req[c].list

PortalTyped ==
  /\ pc = [c \in Clients |-> pc[c]]
  /\ req = [c \in Clients |-> req[c]]
  /\ sent \in Nat
  /\ customers \in [Customers -> {Null, Gone} \cup CustomerRow]
  /\ secrets = [k \in Customers |-> secrets[k]]
  /\ told = [k \in Customers |-> told[k]]
  /\ \A c \in Clients : PortalFits(c)

OneNumberEach ==
  \A k, k2 \in Numbered : customers[k].phone = customers[k2].phone => k = k2

\* Messages, sent and about to be, name the password in force.
ToldTrue ==
  /\ \A k \in Customers : told[k] # Null => told[k].password = secrets[k] /\ secrets[k] # Null
  /\ \A m \in outbox : m.password = secrets[m.customer] /\ secrets[m.customer] # Null

\* The numbers that a request has looked up are free.
NumberFree(c) ==
  /\ pc[c] \in {"customer.referrer", "customer.insert"} => ~PhoneTaken(req[c].phone, Customers)
  /\ pc[c] \in {"update.current", "update.write"} =>
       ~PhoneTaken(req[c].phone, Customers \ {req[c].customer})
  /\ pc[c] = "customers.insert" =>
       \A i \in req[c].fresh :
         /\ Holders(req[c].list[i]) = {}
         /\ \A j \in req[c].fresh : req[c].list[i] = req[c].list[j] => i = j

Served ==
  /\ \A c, d \in Clients : pc[c] = "idle" \/ pc[d] = "idle" \/ c = d
  /\ outbox = {} \/ Quiet
  /\ OneNumberEach
  /\ ToldTrue
  /\ \A c \in Clients : NumberFree(c)

PortalInv == PortalTyped /\ (alone => Served)

StillAlone == alone' = (alone /\ (sent' # sent => Quiet /\ outbox = {}))

LEMMA PortalInitSound ==
  RegistryInit /\ Registered = {} /\ PortalInit /\ RequestInit => PortalInv
<1> SUFFICES ASSUME RegistryInit, Registered = {}, PortalInit, RequestInit  PROVE PortalInv
  OBVIOUS
<1>1. customers \in [Customers -> {Null, Gone} \cup CustomerRow]
  BY DEF RegistryInit, CustomerRow
<1>2. \A c \in Clients : pc[c] = "idle"
  BY DEF RequestInit
<1>3. PortalTyped
  BY <1>1, <1>2 DEF PortalTyped, PortalFits, Creating, Renumbering, PortalInit, RequestInit
<1>4. Served
  <2>1. OneNumberEach
    BY DEF OneNumberEach, Numbered
  <2>2. ToldTrue /\ outbox = {}
    BY DEF ToldTrue, PortalInit
  <2>3. \A c \in Clients : NumberFree(c)
    BY <1>2 DEF NumberFree
  <2> QED  BY <1>2, <2>1, <2>2, <2>3 DEF Served
<1> QED  BY <1>3, <1>4 DEF PortalInv

\* A request that comes or goes on while it is alone finds no other, and no message.
LEMMA AloneIsAlone ==
  ASSUME PortalInv, NEW c \in Clients, StillAlone, alone',
         sent' # sent \/ pc[c] # "idle"
  PROVE  Served /\ outbox = {} /\ \A d \in Clients \ {c} : pc[d] = "idle"
<1>1. Served /\ (sent' # sent => Quiet /\ outbox = {})
  BY DEF StillAlone, PortalInv
<1> QED  BY <1>1 DEF Served, Quiet

\* What remains to be shown of a step of c.
LEMMA PortalMoves ==
  ASSUME PortalInv, NEW c \in Clients, StillAlone, sent' # sent \/ pc[c] # "idle",
         pc' = [pc EXCEPT ![c] = pc'[c]], req' = [req EXCEPT ![c] = req'[c]],
         sent' \in Nat, customers' \in [Customers -> {Null, Gone} \cup CustomerRow],
         secrets' = [k \in Customers |-> secrets'[k]],
         told' = [k \in Customers |-> told'[k]],
         PortalFits(c)',
         alone' => /\ outbox' = {} \/ pc'[c] = "idle"
                   /\ OneNumberEach' /\ ToldTrue' /\ NumberFree(c)'
  PROVE  PortalInv'
<1>1. /\ pc' = [d \in Clients |-> pc'[d]] /\ req' = [d \in Clients |-> req'[d]]
      /\ \A d \in Clients \ {c} : pc'[d] = pc[d] /\ req'[d] = req[d] /\ PortalFits(d)
  BY DEF PortalInv, PortalTyped
<1>2. \A d \in Clients : PortalFits(d)'
  BY <1>1 DEF PortalFits
<1>3. PortalTyped'
  BY <1>1, <1>2 DEF PortalTyped
<1>4. ASSUME alone'  PROVE Served'
  <2>1. \A d \in Clients \ {c} : pc'[d] = "idle"
    BY <1>1, <1>4, AloneIsAlone
  <2>2. \A d \in Clients : NumberFree(d)'
    BY <1>4, <2>1 DEF NumberFree
  <2>3. outbox' = {} \/ Quiet'
    BY <1>4, <2>1 DEF Quiet
  <2> QED  BY <1>4, <2>1, <2>2, <2>3 DEF Served
<1> QED  BY <1>3, <1>4 DEF PortalInv

\* What remains to be shown of a step that changes no row and no message.
LEMMA PortalReads ==
  ASSUME PortalInv, NEW c \in Clients, StillAlone, sent' # sent \/ pc[c] # "idle",
         pc' = [pc EXCEPT ![c] = pc'[c]], req' = [req EXCEPT ![c] = req'[c]],
         sent' \in Nat, UNCHANGED <<customers, secrets, told, outbox>>,
         PortalFits(c)', Served => NumberFree(c)'
  PROVE  PortalInv'
<1>1. PortalTyped
  BY DEF PortalInv
<1>2. ASSUME alone'
      PROVE  outbox' = {} /\ OneNumberEach' /\ ToldTrue' /\ NumberFree(c)'
  <2>1. Served /\ outbox = {}
    BY <1>2, AloneIsAlone
  <2> QED  BY <2>1 DEF Served, OneNumberEach, Numbered, Registered, ToldTrue
<1> QED  BY <1>1, <1>2, PortalMoves DEF PortalTyped

\* Of the entries of an import that are inserted, no two are alike and none is taken.
LEMMA FreshApart ==
  ASSUME NEW list, DOMAIN list \subseteq Nat, NEW taken
  PROVE  /\ Fresh(list, taken) \subseteq DOMAIN list
         /\ \A i \in Fresh(list, taken) :
              /\ list[i] \notin taken
              /\ \A j \in Fresh(list, taken) : list[i] = list[j] => i = j
<1>1. ASSUME NEW i \in Fresh(list, taken), NEW j \in Fresh(list, taken), list[i] = list[j]
      PROVE  i = j
  <2>1. i \in Nat /\ j \in Nat /\ ~(i < j) /\ ~(j < i)
    BY <1>1 DEF Fresh
  <2> QED  BY <2>1
<1> QED  BY <1>1 DEF Fresh

\* Requests about customers, up to what they write.
LEMMA RegistryReadSound ==
  ASSUME PortalInv, NEW c \in Clients, StillAlone,
         UNCHANGED <<customers, secrets, told, outbox>>,
         \/ CreateCustomer(c) \/ CustomerClash(c) \/ CustomerReferrer(c)
         \/ ImportCustomers(c) \/ CustomersRead(c)
         \/ UpdateCustomer(c) \/ UpdateClash(c) \/ UpdateCurrent(c)
         \/ DeleteCustomer(c) \/ DeleteVehicles(c)
  PROVE  PortalInv'
<1> USE DEF Arrive, Goto, Answer
<1>0. /\ PortalFits(c) /\ sent \in Nat /\ (Served => NumberFree(c))
      /\ pc = [d \in Clients |-> pc[d]] /\ req = [d \in Clients |-> req[d]]
  BY DEF PortalInv, PortalTyped, Served
<1>1. /\ pc' = [pc EXCEPT ![c] = pc'[c]] /\ req' = [req EXCEPT ![c] = req'[c]]
      /\ sent' \in Nat /\ (sent' # sent \/ pc[c] # "idle")
  BY <1>0 DEF CreateCustomer, CustomerClash, CustomerReferrer, ImportCustomers, CustomersRead,
              UpdateCustomer, UpdateClash, UpdateCurrent, DeleteCustomer, DeleteVehicles
<1>2. Registered' = Registered /\ \A p \in Phones : Holders(p)' = Holders(p)
  BY DEF Registered, Holders
<1> SUFFICES PortalFits(c)' /\ (Served => NumberFree(c)')
  BY <1>1, PortalReads
<1>3. CASE Answer(c)
  BY <1>0, <1>3 DEF PortalFits, Creating, Renumbering, NumberFree
<1>4. CASE CreateCustomer(c)
  BY <1>0, <1>4 DEF CreateCustomer, PortalFits, Creating, Renumbering, NumberFree, CustomerRow
<1>5. CASE (CustomerClash(c) \/ CustomerReferrer(c)) /\ ~Answer(c)
  <2>1. /\ pc'[c] \in {"customer.referrer", "customer.insert"}
        /\ req'[c] = req[c] /\ req[c] \in CustomerRow
        /\ Served => ~PhoneTaken(req[c].phone, Customers)
    BY <1>0, <1>5 DEF CustomerClash, CustomerReferrer, PortalFits, Creating, NumberFree
  <2> QED  BY <1>2, <2>1 DEF PortalFits, Creating, Renumbering, NumberFree, PhoneTaken, CustomerRow
<1>6. CASE ImportCustomers(c)
  BY <1>0, <1>6, RegistryAssumption
     DEF ImportCustomers, PortalFits, Creating, Renumbering, NumberFree
<1>7. CASE CustomersRead(c) /\ ~Answer(c)
  <2> DEFINE list == req[c].list
             taken == ShortPhones \cup {customers[k].phone : k \in Registered}
  <2>1. /\ pc'[c] = "customers.insert" /\ list \in Seq(Phones)
        /\ req'[c] = [list |-> list, fresh |-> Fresh(list, taken)]
    BY <1>0, <1>7 DEF CustomersRead, PortalFits
  <2> HIDE DEF list
  <2>2. /\ Fresh(list, taken) \subseteq DOMAIN list
        /\ \A i \in Fresh(list, taken) :
             /\ list[i] \notin taken
             /\ \A j \in Fresh(list, taken) : list[i] = list[j] => i = j
    <3>1. DOMAIN list \subseteq Nat
      BY <2>1
    <3> QED  BY <3>1, FreshApart
  <2>3. \A i \in Fresh(list, taken), k \in Registered : customers[k].phone # list[i]
    BY <2>2
  <2> HIDE DEF taken
  <2>4. req'[c].list = list /\ req'[c].fresh = Fresh(list, taken)
    BY <2>1
  <2>5. PortalFits(c)'
    BY <2>1, <2>2, <2>4 DEF PortalFits, Creating, Renumbering
  <2>6. ASSUME NEW i \in req'[c].fresh
        PROVE  /\ Holders(req[c].list[i])' = {}
               /\ \A j \in req'[c].fresh : req'[c].list[i] = req'[c].list[j] => i = j
    <3>1. i \in Fresh(list, taken) /\ customers' = customers /\ Registered' = Registered
      BY <1>2, <2>4
    <3>2. \A k \in Registered' : customers'[k].phone # req'[c].list[i]
      BY <2>3, <2>4, <3>1
    <3> QED  BY <2>2, <2>4, <3>1, <3>2 DEF Holders
  <2> QED  BY <2>1, <2>5, <2>6 DEF NumberFree
<1>8. CASE UpdateCustomer(c)
  BY <1>0, <1>8 DEF UpdateCustomer, PortalFits, Creating, Renumbering, NumberFree
<1>9. CASE (UpdateClash(c) \/ UpdateCurrent(c)) /\ ~Answer(c)
  <2>1. /\ pc'[c] \in {"update.current", "update.write"} /\ req'[c] = req[c]
        /\ req[c].customer \in Customers /\ req[c].phone \in Phones
        /\ Served => ~PhoneTaken(req[c].phone, Customers \ {req[c].customer})
    BY <1>0, <1>9 DEF UpdateClash, UpdateCurrent, PortalFits, Renumbering, NumberFree
  <2> QED  BY <1>2, <2>1 DEF PortalFits, Creating, Renumbering, NumberFree, PhoneTaken
<1>10. CASE DeleteCustomer(c) \/ DeleteVehicles(c)
  BY <1>0, <1>10 DEF DeleteCustomer, DeleteVehicles, PortalFits, Creating, Renumbering, NumberFree
<1> QED
  BY <1>3, <1>4, <1>5, <1>6, <1>7, <1>8, <1>9, <1>10

\* Requests of customers that change no row.
LEMMA CustomerReadSound ==
  ASSUME PortalInv, NEW c \in Clients, StillAlone,
         SignIn(c) \/ ChangePassword(c) \/ PasswordFind(c)
  PROVE  PortalInv'
<1>0. /\ PortalFits(c) /\ sent \in Nat /\ (Served => NumberFree(c))
      /\ pc = [d \in Clients |-> pc[d]] /\ req = [d \in Clients |-> req[d]]
      /\ UNCHANGED <<customers, secrets, told, outbox>>
  BY DEF PortalInv, PortalTyped, Served, SignIn, ChangePassword, PasswordFind
<1>1. /\ pc' = [pc EXCEPT ![c] = pc'[c]] /\ req' = [req EXCEPT ![c] = req'[c]]
      /\ sent' \in Nat /\ (sent' # sent \/ pc[c] # "idle")
      /\ pc'[c] \in {"idle", "change.find", "change.write"}
  BY <1>0 DEF SignIn, ChangePassword, PasswordFind, AtOnce, Arrive, Goto, Answer
<1>2. PortalFits(c)' /\ NumberFree(c)'
  BY <1>1 DEF PortalFits, Creating, Renumbering, NumberFree
<1> QED  BY <1>0, <1>1, <1>2, PortalReads

\* Setting a password leaves the other customers' alone and voids what was told.
LEMMA SecretSet ==
  ASSUME PortalInv, NEW k \in Customers, NEW w, SetSecret(k, w)
  PROVE  /\ secrets' = [j \in Customers |-> secrets'[j]]
         /\ told' = [j \in Customers |-> told'[j]]
         /\ secrets'[k] = w
         /\ ToldTrue /\ outbox = {} => \A j \in Customers : told'[j] # Null =>
              told'[j].password = secrets'[j] /\ secrets'[j] # Null
<1>1. /\ secrets = [j \in Customers |-> secrets[j]] /\ told = [j \in Customers |-> told[j]]
      /\ secrets' = [secrets EXCEPT ![k] = w] /\ told' = [told EXCEPT ![k] = Null]
  BY DEF PortalInv, PortalTyped, SetSecret
<1> QED  BY <1>1 DEF ToldTrue

\* A message that is about to be sent names a password.
LEMMA Telling ==
  ASSUME PortalInv, NEW k \in Customers, NEW w \in Secrets, SetSecret(k, w),
         ToldTrue, outbox = {}, outbox' = outbox \/ outbox' = outbox \cup {Tell(k, w)}
  PROVE  ToldTrue'
<1>1. \A m \in outbox' : m.password = w /\ m.customer = k
  BY DEF Tell
<1>2. w # Null
  BY PortalAssumption
<1> QED  BY <1>1, <1>2, SecretSet DEF ToldTrue

\* One more customer, or another number, keeps numbers apart when it was free.
LEMMA NumberGiven ==
  ASSUME OneNumberEach, NEW k \in Customers,
         \A j \in Customers \ {k} : customers'[j] = customers[j],
         k \in Registered' => ~PhoneTaken(customers'[k].phone, Customers \ {k})
  PROVE  OneNumberEach'
<1>1. \A j \in Customers \ {k} :
        (j \in Registered' <=> j \in Registered) /\ (j \in Numbered' <=> j \in Numbered)
  BY DEF Registered, Numbered
<1>2. ASSUME NEW j \in Numbered' \ {k}, k \in Numbered', customers'[j].phone = customers'[k].phone
      PROVE  FALSE
  <2>1. j \in Registered /\ j # k /\ customers[j].phone = customers'[k].phone
    BY <1>1, <1>2 DEF Numbered, Registered
  <2>2. j \in Holders(customers'[k].phone) \cap (Customers \ {k})
    BY <2>1 DEF Holders, Registered
  <2> QED  BY <1>2, <2>2 DEF PhoneTaken, Numbered
<1>3. ASSUME NEW j \in Numbered' \ {k}, NEW j2 \in Numbered' \ {k},
             customers'[j].phone = customers'[j2].phone
      PROVE  j = j2
  <2>1. j \in Numbered /\ j2 \in Numbered /\ customers[j].phone = customers[j2].phone
    BY <1>1, <1>3 DEF Numbered, Registered
  <2> QED  BY <2>1 DEF OneNumberEach
<1> QED  BY <1>2, <1>3 DEF OneNumberEach

\* createCustomer
LEMMA PortalInsertSound ==
  ASSUME PortalInv, NEW c \in Clients, StillAlone, PortalInsert(c)
  PROVE  PortalInv'
<1>1. /\ pc[c] = "customer.insert" /\ req[c] \in CustomerRow
      /\ customers \in [Customers -> {Null, Gone} \cup CustomerRow] /\ sent \in Nat
  BY DEF PortalInsert, CustomerInsert, PortalInv, PortalTyped, PortalFits, Creating
<1>2. PICK k \in Customers : customers[k] = Null /\ customers' = [customers EXCEPT ![k] = req[c]]
  BY DEF PortalInsert, CustomerInsert
<1>3. /\ Answer(c) /\ pc'[c] = "idle" /\ sent' = sent
      /\ pc' = [pc EXCEPT ![c] = pc'[c]] /\ req' = [req EXCEPT ![c] = req'[c]]
  BY DEF PortalInsert, CustomerInsert, Answer, PortalInv, PortalTyped
<1>4. PICK w \in Secrets : /\ SetSecret(k, w)
                           /\ outbox' = outbox \/ outbox' = outbox \cup {Tell(k, w)}
  <2>1. PICK j \in Customers :
          /\ customers[j] # customers'[j]
          /\ \/ \E w \in Chosen : SetSecret(j, w) /\ UNCHANGED outbox
             \/ LET w == Default(customers'[j].phone) IN
                SetSecret(j, w) /\ outbox' = outbox \cup {Tell(j, w)}
    BY DEF PortalInsert
  <2>2. j = k /\ customers'[k] = req[c]
    BY <1>1, <1>2, <2>1
  <2>3. customers'[k].phone \in Phones
    BY <1>1, <2>2 DEF CustomerRow
  <2>4. Default(customers'[k].phone) \in Secrets /\ Chosen \subseteq Secrets
    BY <2>3 DEF Default, Secrets
  <2> QED  BY <2>1, <2>2, <2>4
<1>5. ASSUME alone'  PROVE OneNumberEach' /\ ToldTrue'
  <2>1. Served /\ outbox = {}
    BY <1>1, <1>5, AloneIsAlone
  <2>2. ~PhoneTaken(req[c].phone, Customers)
    BY <1>1, <2>1 DEF Served, NumberFree
  <2>3. \A j \in Customers \ {k} : customers'[j] = customers[j]
    BY <1>1, <1>2
  <2>4. customers'[k] = req[c]
    BY <1>1, <1>2
  <2>5. OneNumberEach'
    BY <2>1, <2>2, <2>3, <2>4, NumberGiven DEF PhoneTaken, Served
  <2> QED  BY <1>4, <2>1, <2>5, Telling DEF Served
<1>6. PortalFits(c)' /\ NumberFree(c)'
  BY <1>3 DEF PortalFits, Creating, Renumbering, NumberFree
<1>7. customers' \in [Customers -> {Null, Gone} \cup CustomerRow]
  BY <1>1, <1>2
<1> QED  BY <1>1, <1>3, <1>4, <1>5, <1>6, <1>7, SecretSet, PortalMoves

\* updateCustomer
LEMMA PortalUpdateSound ==
  ASSUME PortalInv, NEW c \in Clients, StillAlone, PortalUpdate(c)
  PROVE  PortalInv'
<1> DEFINE k == req[c].customer
<1>1. /\ pc[c] = "update.write" /\ k \in Customers /\ req[c].phone \in Phones
      /\ customers \in [Customers -> {Null, Gone} \cup CustomerRow] /\ sent \in Nat
      /\ secrets = [j \in Customers |-> secrets[j]] /\ told = [j \in Customers |-> told[j]]
  BY DEF PortalUpdate, UpdateWrite, PortalInv, PortalTyped, PortalFits, Renumbering
<1>2. \/ k \notin Registered /\ customers' = customers
      \/ /\ k \in Registered
         /\ customers' = [customers EXCEPT ![k] = [customers[k] EXCEPT !.phone = req[c].phone]]
  BY DEF PortalUpdate, UpdateWrite
<1>3. /\ Answer(c) /\ pc'[c] = "idle" /\ sent' = sent
      /\ pc' = [pc EXCEPT ![c] = pc'[c]] /\ req' = [req EXCEPT ![c] = req'[c]]
  BY DEF PortalUpdate, UpdateWrite, Answer, PortalInv, PortalTyped
<1>4. \/ UNCHANGED <<secrets, told, outbox>>
      \/ \E w \in Secrets : SetSecret(k, w) /\ outbox' = outbox \cup {Tell(k, w)}
  BY DEF PortalUpdate, NewSecret, Secrets
<1> HIDE DEF k
<1>5. k \in Registered =>
        [customers[k] EXCEPT !.phone = req[c].phone] \in CustomerRow
  BY <1>1 DEF Registered, CustomerRow
<1>6. customers' \in [Customers -> {Null, Gone} \cup CustomerRow]
  BY <1>1, <1>2, <1>5
<1>7. k \in Registered => customers'[k].phone = req[c].phone
  BY <1>1, <1>2 DEF Registered, CustomerRow
<1>8. \A j \in Customers \ {k} : customers'[j] = customers[j]
  BY <1>1, <1>2
<1>9. ASSUME alone'  PROVE OneNumberEach' /\ ToldTrue'
  <2>1. Served /\ outbox = {}
    BY <1>1, <1>9, AloneIsAlone
  <2>2. ~PhoneTaken(req[c].phone, Customers \ {k})
    BY <1>1, <2>1 DEF Served, NumberFree, k
  <2>3. k \in Registered' => k \in Registered
    BY <1>2 DEF Registered
  <2>4. OneNumberEach'
    BY <1>1, <1>7, <1>8, <2>1, <2>2, <2>3, NumberGiven DEF Served
  <2>5. ToldTrue'
    BY <1>1, <1>4, <2>1, Telling DEF Served, ToldTrue
  <2> QED  BY <2>4, <2>5
<1>10. PortalFits(c)' /\ NumberFree(c)'
  BY <1>3 DEF PortalFits, Creating, Renumbering, NumberFree
<1>11. secrets' = [j \in Customers |-> secrets'[j]] /\ told' = [j \in Customers |-> told'[j]]
  BY <1>1, <1>4, SecretSet
<1> QED  BY <1>1, <1>3, <1>6, <1>9, <1>10, <1>11, PortalMoves

\* createCustomersBulk
LEMMA CustomersInsertSound ==
  ASSUME PortalInv, NEW c \in Clients, StillAlone, CustomersInsert(c),
         UNCHANGED <<secrets, told, outbox>>
  PROVE  PortalInv'
<1> DEFINE list == req[c].list  fresh == req[c].fresh
<1>1. /\ pc[c] = "customers.insert" /\ list \in Seq(Phones) /\ fresh \subseteq DOMAIN list
      /\ customers \in [Customers -> {Null, Gone} \cup CustomerRow] /\ sent \in Nat
      /\ secrets = [j \in Customers |-> secrets[j]] /\ told = [j \in Customers |-> told[j]]
  BY DEF CustomersInsert, PortalInv, PortalTyped, PortalFits
<1>2. /\ Answer(c) /\ pc'[c] = "idle" /\ sent' = sent
      /\ pc' = [pc EXCEPT ![c] = pc'[c]] /\ req' = [req EXCEPT ![c] = req'[c]]
  BY DEF CustomersInsert, Answer, PortalInv, PortalTyped
<1>3. PICK f \in [fresh -> Customers] :
        /\ \A i, j \in fresh : f[i] = f[j] => i = j
        /\ \A i \in fresh : customers[f[i]] = Null
        /\ customers' = [k \in Customers |->
             IF \E i \in fresh : f[i] = k
             THEN [phone |-> list[CHOOSE i \in fresh : f[i] = k], referredBy |-> Null]
             ELSE customers[k]]
  BY DEF CustomersInsert
<1> HIDE DEF list, fresh
<1>4. \A i \in fresh : list[i] \in Phones
  BY <1>1
<1>5. ASSUME NEW k \in Customers
      PROVE  \/ customers'[k] = customers[k] /\ k \notin {f[i] : i \in fresh}
             \/ \E i \in fresh : f[i] = k /\ customers'[k] = [phone |-> list[i], referredBy |-> Null]
  BY <1>3
<1>6. customers' \in [Customers -> {Null, Gone} \cup CustomerRow]
  <2>1. \A k \in Customers : customers'[k] \in {Null, Gone} \cup CustomerRow
    <3>1. \A i \in fresh : [phone |-> list[i], referredBy |-> Null] \in CustomerRow
      BY <1>4 DEF CustomerRow
    <3>2. \A k \in Customers : customers[k] \in {Null, Gone} \cup CustomerRow
      BY <1>1
    <3> HIDE DEF CustomerRow
    <3>3. \A k \in Customers : customers'[k] = customers[k] \/ \E i \in fresh :
            customers'[k] = [phone |-> list[i], referredBy |-> Null]
      BY <1>5
    <3> QED  BY <3>1, <3>2, <3>3
  <2>2. customers' = [k \in Customers |-> customers'[k]]
    BY <1>3
  <2> QED  BY <2>1, <2>2
<1>7. ASSUME alone'  PROVE OneNumberEach' /\ ToldTrue'
  <2>1. Served
    BY <1>1, <1>7, AloneIsAlone
  <2>2. \A i \in fresh : /\ Holders(list[i]) = {}
                         /\ \A j \in fresh : list[i] = list[j] => i = j
    BY <1>1, <2>1 DEF Served, NumberFree, list, fresh
  <2>3. ASSUME NEW k \in Numbered', NEW k2 \in Numbered',
               customers'[k].phone = customers'[k2].phone
        PROVE  k = k2
    <3>0. /\ k \in Customers /\ k2 \in Customers
          /\ customers'[k] \notin {Null, Gone} /\ customers'[k2] \notin {Null, Gone}
          /\ customers'[k].phone \notin ShortPhones
      BY <2>3 DEF Numbered, Registered
    <3>1. CASE customers'[k] = customers[k] /\ customers'[k2] = customers[k2]
      BY <2>1, <2>3, <3>0, <3>1 DEF Served, OneNumberEach, Numbered, Registered
    <3>2. ASSUME NEW i \in fresh, f[i] = k,
                 customers'[k] = [phone |-> list[i], referredBy |-> Null]
          PROVE  k = k2
      <4>1. customers'[k2] # customers[k2]
        BY <2>2, <2>3, <3>0, <3>2 DEF Holders, Registered
      <4>2. PICK j \in fresh : f[j] = k2 /\ customers'[k2] = [phone |-> list[j], referredBy |-> Null]
        BY <1>5, <3>0, <4>1
      <4>3. list[i] = list[j]
        BY <2>3, <3>2, <4>2
      <4> QED  BY <2>2, <3>2, <4>2, <4>3
    <3>3. ASSUME NEW i \in fresh, f[i] = k2,
                 customers'[k2] = [phone |-> list[i], referredBy |-> Null]
          PROVE  k = k2
      <4>1. customers'[k] # customers[k]
        BY <2>2, <2>3, <3>0, <3>3 DEF Holders, Registered
      <4>2. PICK j \in fresh : f[j] = k /\ customers'[k] = [phone |-> list[j], referredBy |-> Null]
        BY <1>5, <3>0, <4>1
      <4>3. list[i] = list[j]
        BY <2>3, <3>3, <4>2
      <4> QED  BY <2>2, <3>3, <4>2, <4>3
    <3> QED  BY <1>5, <3>0, <3>1, <3>2, <3>3
  <2>4. ToldTrue'
    BY <2>1 DEF Served, ToldTrue
  <2> QED  BY <2>3, <2>4 DEF OneNumberEach
<1>8. PortalFits(c)' /\ NumberFree(c)'
  BY <1>2 DEF PortalFits, Creating, Renumbering, NumberFree
<1>9. secrets' = [j \in Customers |-> secrets'[j]] /\ told' = [j \in Customers |-> told'[j]]
  BY <1>1
<1> QED  BY <1>1, <1>2, <1>6, <1>7, <1>8, <1>9, PortalMoves

\* deleteCustomer
LEMMA DeleteRowSound ==
  ASSUME PortalInv, NEW c \in Clients, StillAlone, DeleteRow(c),
         UNCHANGED <<secrets, told, outbox>>
  PROVE  PortalInv'
<1>1. /\ pc[c] = "delete.customer" /\ sent \in Nat
      /\ customers \in [Customers -> {Null, Gone} \cup CustomerRow]
      /\ customers' = [customers EXCEPT ![req[c].customer] = Gone]
      /\ secrets = [j \in Customers |-> secrets[j]] /\ told = [j \in Customers |-> told[j]]
  BY DEF DeleteRow, PortalInv, PortalTyped
<1>2. /\ pc'[c] = "idle" /\ sent' = sent
      /\ pc' = [pc EXCEPT ![c] = pc'[c]] /\ req' = [req EXCEPT ![c] = req'[c]]
  BY DEF DeleteRow, Answer, PortalInv, PortalTyped
<1>3. \A k \in Registered' : k \in Registered /\ customers'[k] = customers[k]
  BY <1>1 DEF Registered
<1>4. ASSUME alone'  PROVE OneNumberEach' /\ ToldTrue'
  <2>1. Served
    BY <1>1, <1>4, AloneIsAlone
  <2> QED  BY <1>3, <2>1 DEF Served, OneNumberEach, Numbered, ToldTrue
<1>5. PortalFits(c)' /\ NumberFree(c)'
  BY <1>2 DEF PortalFits, Creating, Renumbering, NumberFree
<1>6. /\ customers' \in [Customers -> {Null, Gone} \cup CustomerRow]
      /\ secrets' = [j \in Customers |-> secrets'[j]] /\ told' = [j \in Customers |-> told'[j]]
  BY <1>1
<1> QED  BY <1>1, <1>2, <1>4, <1>5, <1>6, PortalMoves

\* setCustomerPassword
LEMMA PasswordWriteSound ==
  ASSUME PortalInv, NEW c \in Clients, StillAlone, PasswordWrite(c)
  PROVE  PortalInv'
<1>1. /\ pc[c] = "change.write" /\ sent \in Nat /\ UNCHANGED <<customers, outbox>>
      /\ customers \in [Customers -> {Null, Gone} \cup CustomerRow]
      /\ secrets = [j \in Customers |-> secrets[j]] /\ told = [j \in Customers |-> told[j]]
  BY DEF PasswordWrite, PortalInv, PortalTyped
<1>2. /\ pc'[c] = "idle" /\ sent' = sent
      /\ pc' = [pc EXCEPT ![c] = pc'[c]] /\ req' = [req EXCEPT ![c] = req'[c]]
  BY DEF PasswordWrite, Answer, PortalInv, PortalTyped
<1>3. \/ UNCHANGED <<secrets, told>>
      \/ \E k \in Customers : \E w : SetSecret(k, w)
  BY DEF PasswordWrite, Registered
<1>4. ASSUME alone'  PROVE OneNumberEach' /\ ToldTrue'
  <2>1. Served /\ outbox = {}
    BY <1>1, <1>4, AloneIsAlone
  <2>2. OneNumberEach'
    BY <1>1, <2>1 DEF Served, OneNumberEach, Numbered, Registered
  <2>3. ToldTrue'
    BY <1>1, <1>3, <2>1, SecretSet DEF Served, ToldTrue
  <2> QED  BY <2>2, <2>3
<1>5. PortalFits(c)' /\ NumberFree(c)'
  BY <1>2 DEF PortalFits, Creating, Renumbering, NumberFree
<1>6. secrets' = [j \in Customers |-> secrets'[j]] /\ told' = [j \in Customers |-> told'[j]]
  BY <1>1, <1>3, SecretSet
<1> QED  BY <1>1, <1>2, <1>4, <1>5, <1>6, PortalMoves

\* A message is sent, or lost.
LEMMA MessageSound ==
  ASSUME PortalInv, StillAlone, NEW m \in outbox, Deliver(m) \/ Undelivered(m),
         UNCHANGED <<requestVars, registryVars>>
  PROVE  PortalInv'
<1>1. /\ UNCHANGED <<pc, req, sent, customers, secrets>> /\ (alone' => alone)
      /\ outbox' \subseteq outbox
      /\ told' = told \/ told' = [told EXCEPT ![m.customer] = m]
  BY DEF Deliver, Undelivered, requestVars, registryVars, StillAlone, PortalInv
<1>2. PortalTyped'
  <2>1. told' = [k \in Customers |-> told'[k]]
    BY <1>1 DEF PortalInv, PortalTyped
  <2> QED  BY <1>1, <2>1 DEF PortalInv, PortalTyped, PortalFits
<1>3. ASSUME alone'  PROVE Served'
  <2>1. Served /\ told = [k \in Customers |-> told[k]]
    BY <1>1, <1>3 DEF PortalInv, PortalTyped
  <2>2. ToldTrue'
    BY <1>1, <2>1 DEF Served, ToldTrue
  <2>3. outbox' = {} \/ Quiet'
    BY <1>1, <2>1 DEF Served, Quiet
  <2>4. OneNumberEach'
    BY <1>1, <2>1 DEF Served, OneNumberEach, Numbered, Registered
  <2>5. \A c \in Clients : NumberFree(c)'
    BY <1>1, <2>1 DEF Served, NumberFree, PhoneTaken, Holders, Registered
  <2> QED  BY <1>1, <2>1, <2>2, <2>3, <2>4, <2>5 DEF Served
<1> QED  BY <1>1, <1>2, <1>3 DEF PortalInv

\* While requests come one after the other, and after each the message about it,
\* what a customer was told last opens that customer's portal and no other
\* (createCustomer, updateCustomer, createCustomersBulk, authenticateCustomer).
THEOREM PortalOpens == PortalSpec => []ToldOpensPortal
<1>1. RegistryInit /\ Registered = {} /\ PortalInit /\ RequestInit => PortalInv
  BY PortalInitSound
<1>2. PortalInv /\ [PortalStep]_<<registryVars, portalVars, requestVars>> => PortalInv'
  <2> SUFFICES ASSUME PortalInv, [PortalStep]_<<registryVars, portalVars, requestVars>>
               PROVE  PortalInv'
    OBVIOUS
  <2>1. CASE UNCHANGED <<registryVars, portalVars, requestVars>>
    <3>1. UNCHANGED <<pc, req, sent, customers, secrets, told, outbox, alone>>
      BY <2>1 DEF registryVars, portalVars, requestVars
    <3> QED
      BY <3>1 DEF PortalInv, PortalTyped, PortalFits, Served, Quiet, OneNumberEach, Numbered,
                  ToldTrue, NumberFree, PhoneTaken, Holders, Registered
  <2>2. CASE PortalStep /\ PortalRequest
    <3>1. StillAlone
      BY <2>2 DEF PortalStep, StillAlone
    <3>2. PICK c \in Clients :
            \/ PortalInsert(c) \/ PortalUpdate(c) \/ PortalRegistry(c)
            \/ SignIn(c) \/ ChangePassword(c) \/ PasswordFind(c) \/ PasswordWrite(c)
      BY <2>2 DEF PortalRequest
    <3>3. CASE PortalRegistry(c)
      <4>1. /\ UNCHANGED <<secrets, told, outbox>>
            /\ \/ CustomersInsert(c) \/ DeleteRow(c)
               \/ /\ UNCHANGED customers
                  /\ \/ CreateCustomer(c) \/ CustomerClash(c) \/ CustomerReferrer(c)
                     \/ ImportCustomers(c) \/ CustomersRead(c)
                     \/ UpdateCustomer(c) \/ UpdateClash(c) \/ UpdateCurrent(c)
                     \/ DeleteCustomer(c) \/ DeleteVehicles(c)
        BY <3>3 DEF PortalRegistry, CustomerStep, DeletionStep, CustomerInsert, UpdateWrite,
                    CreateCustomer, CustomerClash, CustomerReferrer, ImportCustomers,
                    CustomersRead, UpdateCustomer, UpdateClash, UpdateCurrent,
                    DeleteCustomer, DeleteVehicles
      <4> QED  BY <3>1, <4>1, CustomersInsertSound, DeleteRowSound, RegistryReadSound
    <3> QED
      BY <3>1, <3>2, <3>3, PortalInsertSound, PortalUpdateSound, CustomerReadSound,
         PasswordWriteSound
  <2>3. CASE PortalStep /\ ~PortalRequest
    BY <2>3, MessageSound DEF PortalStep, StillAlone
  <2> QED  BY <2>1, <2>2, <2>3
<1>3. PortalInv => ToldOpensPortal
  <2> SUFFICES ASSUME PortalInv, NEW k \in Numbered \ inactive, alone, told[k] # Null,
                      told[k].phone = customers[k].phone
               PROVE  RowsOf(told[k].phone) = {k} /\ Opens(k, told[k].password)
    BY DEF ToldOpensPortal
  <2>1. Served /\ k \in Registered /\ k \in Customers /\ customers[k].phone \notin ShortPhones
    BY DEF PortalInv, Numbered, Registered
  <2>2. Opens(k, told[k].password)
    BY <2>1 DEF Served, ToldTrue, Opens
  <2>3. \A j \in Holders(customers[k].phone) : j = k
    BY <2>1 DEF Served, OneNumberEach, Numbered, Holders
  <2> QED  BY <2>1, <2>2, <2>3 DEF RowsOf, Holders
<1> QED  BY <1>1, <1>2, <1>3, PTL DEF PortalSpec

-----------------------------------------------------------------------------
(***************************************************************************)
(* Nothing that is one is given a second time, proved for any number of    *)
(* customers, vehicles and requests, however they overlap.  A request asks *)
(* in one query and writes in another; what the invariant keeps is that no *)
(* number or registration it goes on with has belonged to another row all  *)
(* the time since it came, and that an import repeats none of its own.     *)
(***************************************************************************)
RegistryFits(c) ==
  /\ PortalFits(c)
  /\ pc[c] \in {"vehicles.registrations", "vehicles.customers"} => req[c].list \in Seq(Vehicle)

\* Who has had a phone number, and which registrations were in use, all along.
HadNumber(c, p) == {k \in Customers : <<"customer", k, p>> \in since[c]}

HadRegistration(c, r) == \E f \in since[c] : f[1] = "vehicle" /\ f[3].reg = r

Sought(c) ==
  /\ pc[c] \in {"customer.referrer", "customer.insert"} /\ req[c].phone \notin ShortPhones =>
       HadNumber(c, req[c].phone) = {}
  /\ pc[c] \in {"update.current", "update.write"} /\ req[c].phone \notin ShortPhones =>
       HadNumber(c, req[c].phone) \subseteq {req[c].customer}
  /\ pc[c] = "customers.insert" =>
       \A i \in req[c].fresh :
         /\ HadNumber(c, req[c].list[i]) = {}
         /\ \A j \in req[c].fresh : req[c].list[i] = req[c].list[j] => i = j
  /\ pc[c] = "vehicles.customers" => \A r : HadRegistration(c, r) => r \in req[c].taken
  /\ pc[c] = "vehicles.insert" =>
       \A i \in DOMAIN req[c].rows :
         /\ ~HadRegistration(c, req[c].rows[i].reg)
         /\ \A j \in DOMAIN req[c].rows : req[c].rows[i].reg = req[c].rows[j].reg => i = j

RegistryInv ==
  /\ pc = [c \in Clients |-> pc[c]]
  /\ req = [c \in Clients |-> req[c]]
  /\ customers \in [Customers -> {Null, Gone} \cup CustomerRow]
  /\ \A c \in Clients : RegistryFits(c) /\ Sought(c)

\* What a request has seen all along only becomes less, and is so now.
LEMMA SinceShrinks ==
  ASSUME Remember, NEW c \in Clients
  PROVE  /\ since'[c] \subseteq Known'
         /\ pc[c] # "idle" => since'[c] \subseteq since[c]
BY DEF Remember

LEMMA KnownNumbers ==
  ASSUME Remember, NEW c \in Clients, UNCHANGED <<customers, vehicles>>
  PROVE  /\ \A p : HadNumber(c, p)' \subseteq Holders(p)
         /\ \A r : HadRegistration(c, r)' => \E v \in Kept : vehicles[v].reg = r
<1>1. \A f \in since'[c] : f \in Known
  BY SinceShrinks DEF Known, Registered, Kept
<1>2. ASSUME NEW p, NEW k \in HadNumber(c, p)'  PROVE k \in Holders(p)
  <2>1. <<"customer", k, p>> \in Known
    BY <1>1, <1>2 DEF HadNumber
  <2>2. \E j \in Registered : <<"customer", k, p>> = <<"customer", j, customers[j].phone>>
    BY <2>1 DEF Known
  <2> QED  BY <2>2 DEF Holders
<1>3. ASSUME NEW r, HadRegistration(c, r)'  PROVE \E v \in Kept : vehicles[v].reg = r
  <2>1. PICK f \in Known : f[1] = "vehicle" /\ f[3].reg = r
    BY <1>1, <1>3 DEF HadRegistration
  <2>2. PICK v \in Kept : f = <<"vehicle", v, vehicles[v]>>
    BY <2>1 DEF Known
  <2> QED  BY <2>1, <2>2
<1> QED  BY <1>2, <1>3

\* A request that did nothing, or that only went on with what it holds.
LEMMA SoughtStill ==
  ASSUME Remember, NEW c \in Clients, Sought(c), pc'[c] = pc[c], req'[c] = req[c]
  PROVE  Sought(c)'
<1> SUFFICES ASSUME pc[c] # "idle"  PROVE Sought(c)'
  BY DEF Sought
<1>1. \A p : HadNumber(c, p)' \subseteq HadNumber(c, p)
  BY SinceShrinks DEF HadNumber
<1>2. \A r : HadRegistration(c, r)' => HadRegistration(c, r)
  BY SinceShrinks DEF HadRegistration
<1> QED  BY <1>1, <1>2 DEF Sought

\* What remains to be shown of a step of c.
LEMMA RegistryMoves ==
  ASSUME RegistryInv, Remember, NEW c \in Clients,
         pc' = [pc EXCEPT ![c] = pc'[c]], req' = [req EXCEPT ![c] = req'[c]],
         customers' \in [Customers -> {Null, Gone} \cup CustomerRow],
         RegistryFits(c)', Sought(c)'
  PROVE  RegistryInv'
<1>1. /\ pc' = [d \in Clients |-> pc'[d]] /\ req' = [d \in Clients |-> req'[d]]
      /\ \A d \in Clients \ {c} :
           pc'[d] = pc[d] /\ req'[d] = req[d] /\ RegistryFits(d) /\ Sought(d)
  BY DEF RegistryInv
<1>2. \A d \in Clients : RegistryFits(d)'
  BY <1>1 DEF RegistryFits, PortalFits
<1>3. \A d \in Clients \ {c} : Sought(d)'
  BY <1>1, SoughtStill
<1> QED  BY <1>1, <1>2, <1>3 DEF RegistryInv

\* Labels at which nothing is said of a request.
LEMMA NothingSought ==
  ASSUME NEW c \in Clients,
         pc'[c] \notin Creating \cup Renumbering \cup
                       {"customers.read", "customers.insert", "vehicles.registrations",
                        "vehicles.customers", "vehicles.insert"}
  PROVE  RegistryFits(c)' /\ Sought(c)'
BY DEF RegistryFits, PortalFits, Sought, Creating, Renumbering

LEMMA RegistryInitSound == RegistryInit /\ RequestInit => RegistryInv
<1> SUFFICES ASSUME RegistryInit, RequestInit  PROVE RegistryInv
  OBVIOUS
<1>1. customers \in [Customers -> {Null, Gone} \cup CustomerRow]
  BY DEF RegistryInit, CustomerRow
<1>2. \A c \in Clients : pc[c] = "idle"
  BY DEF RequestInit
<1>3. \A c \in Clients : RegistryFits(c)
  BY <1>2 DEF RegistryFits, PortalFits, Creating, Renumbering
<1>4. \A c \in Clients : Sought(c)
  <2> SUFFICES ASSUME NEW c \in Clients  PROVE Sought(c)
    OBVIOUS
  <2>1. pc[c] = "idle"
    BY <1>2
  <2> QED  BY <2>1 DEF Sought
<1>5. pc = [c \in Clients |-> pc[c]] /\ req = [c \in Clients |-> req[c]]
  BY DEF RequestInit
<1> QED  BY <1>1, <1>3, <1>4, <1>5 DEF RegistryInv

\* Requests that create or change customers, up to what they write.
LEMMA CustomerAsked ==
  ASSUME RegistryInv, Remember, NEW c \in Clients,
         \/ CreateCustomer(c) \/ CustomerClash(c) \/ CustomerReferrer(c)
         \/ ImportCustomers(c) \/ CustomersRead(c)
         \/ UpdateCustomer(c) \/ UpdateClash(c) \/ UpdateCurrent(c)
  PROVE  RegistryInv'
<1> USE DEF Arrive, Goto, Answer
<1>0. /\ RegistryFits(c) /\ PortalFits(c) /\ Sought(c)
      /\ pc = [d \in Clients |-> pc[d]] /\ req = [d \in Clients |-> req[d]]
      /\ customers \in [Customers -> {Null, Gone} \cup CustomerRow]
      /\ UNCHANGED <<customers, vehicles>>
  BY DEF RegistryInv, RegistryFits, CreateCustomer, CustomerClash, CustomerReferrer,
         ImportCustomers, CustomersRead, UpdateCustomer, UpdateClash, UpdateCurrent
<1>1. pc' = [pc EXCEPT ![c] = pc'[c]] /\ req' = [req EXCEPT ![c] = req'[c]]
  BY <1>0 DEF CreateCustomer, CustomerClash, CustomerReferrer, ImportCustomers, CustomersRead,
              UpdateCustomer, UpdateClash, UpdateCurrent
<1>2. \A p : HadNumber(c, p)' \subseteq Holders(p)
  BY <1>0, KnownNumbers
<1>3. \A p : Holders(p) \subseteq Customers
  BY DEF Holders, Registered
<1> SUFFICES RegistryFits(c)' /\ Sought(c)'
  BY <1>0, <1>1, RegistryMoves
<1>4. CASE Answer(c)
  <2>1. pc'[c] = "idle"
    BY <1>0, <1>4
  <2> QED  BY <2>1, NothingSought DEF Creating, Renumbering
<1>5. CASE CreateCustomer(c)
  <2>1. pc'[c] = "customer.clash" /\ req'[c] \in CustomerRow
    BY <1>0, <1>5 DEF CreateCustomer, CustomerRow
  <2> QED  BY <2>1 DEF RegistryFits, PortalFits, Sought, Creating, Renumbering
<1>6. CASE CustomerClash(c) /\ ~Answer(c)
  <2>1. /\ pc'[c] = "customer.referrer" /\ req'[c] = req[c] /\ req[c] \in CustomerRow
        /\ ~PhoneTaken(req[c].phone, Customers)
    BY <1>0, <1>6 DEF CustomerClash, PortalFits, Creating
  <2>2. req[c].phone \notin ShortPhones => HadNumber(c, req[c].phone)' = {}
    <3>1. PICK p : p = req[c].phone
      OBVIOUS
    <3>2. p \notin ShortPhones => HadNumber(c, p)' = {}
      BY <1>2, <1>3, <2>1, <3>1 DEF PhoneTaken
    <3>3. req'[c].phone = p
      BY <2>1, <3>1
    <3> QED  BY <3>1, <3>2, <3>3
  <2> QED  BY <2>1, <2>2 DEF RegistryFits, PortalFits, Sought, Creating, Renumbering
<1>7. CASE CustomerReferrer(c) /\ ~Answer(c)
  <2>1. /\ pc'[c] = "customer.insert" /\ pc[c] = "customer.referrer"
        /\ req'[c] = req[c] /\ req[c] \in CustomerRow
    BY <1>0, <1>7 DEF CustomerReferrer, PortalFits, Creating
  <2>2. \A p : HadNumber(c, p)' \subseteq HadNumber(c, p)
    BY <2>1, SinceShrinks DEF HadNumber
  <2> QED  BY <1>0, <2>1, <2>2 DEF RegistryFits, PortalFits, Sought, Creating, Renumbering
<1>8. CASE ImportCustomers(c)
  <2>1. pc'[c] = "customers.read" /\ req'[c].list \in Seq(Phones)
    BY <1>0, <1>8, RegistryAssumption DEF ImportCustomers
  <2> QED  BY <2>1 DEF RegistryFits, PortalFits, Sought, Creating, Renumbering
<1>9. CASE CustomersRead(c) /\ ~Answer(c)
  <2> DEFINE list == req[c].list
             taken == ShortPhones \cup {customers[k].phone : k \in Registered}
  <2>1. /\ pc'[c] = "customers.insert" /\ list \in Seq(Phones)
        /\ req'[c].list = list /\ req'[c].fresh = Fresh(list, taken)
    BY <1>0, <1>9 DEF CustomersRead, PortalFits
  <2> HIDE DEF list
  <2>2. /\ Fresh(list, taken) \subseteq DOMAIN list
        /\ \A i \in Fresh(list, taken) :
             /\ list[i] \notin taken
             /\ \A j \in Fresh(list, taken) : list[i] = list[j] => i = j
    <3>1. DOMAIN list \subseteq Nat
      BY <2>1
    <3> QED  BY <3>1, FreshApart
  <2>3. \A i \in Fresh(list, taken) : Holders(list[i]) = {}
    BY <2>2 DEF Holders
  <2> HIDE DEF taken
  <2>4. \A i \in req'[c].fresh :
          /\ HadNumber(c, req[c].list[i])' = {}
          /\ \A j \in req'[c].fresh : req'[c].list[i] = req'[c].list[j] => i = j
    BY <1>2, <2>1, <2>2, <2>3
  <2> QED  BY <2>1, <2>2, <2>4 DEF RegistryFits, PortalFits, Sought, Creating, Renumbering
<1>10. CASE UpdateCustomer(c)
  <2>1. pc'[c] = "update.clash" /\ req'[c].customer \in Customers /\ req'[c].phone \in Phones
    BY <1>0, <1>10 DEF UpdateCustomer
  <2> QED  BY <2>1 DEF RegistryFits, PortalFits, Sought, Creating, Renumbering
<1>11. CASE UpdateClash(c) /\ ~Answer(c)
  <2>1. /\ pc'[c] = "update.current" /\ req'[c] = req[c]
        /\ req[c].customer \in Customers /\ req[c].phone \in Phones
        /\ ~PhoneTaken(req[c].phone, Customers \ {req[c].customer})
    BY <1>0, <1>11 DEF UpdateClash, PortalFits, Renumbering
  <2>2. req[c].phone \notin ShortPhones =>
          HadNumber(c, req[c].phone)' \subseteq {req[c].customer}
    <3>1. PICK p : p = req[c].phone
      OBVIOUS
    <3>2. p \notin ShortPhones => HadNumber(c, p)' \subseteq {req[c].customer}
      BY <1>2, <1>3, <2>1, <3>1 DEF PhoneTaken
    <3>3. req'[c].phone = p
      BY <2>1, <3>1
    <3> QED  BY <3>1, <3>2, <3>3
  <2> QED  BY <2>1, <2>2 DEF RegistryFits, PortalFits, Sought, Creating, Renumbering
<1>12. CASE UpdateCurrent(c) /\ ~Answer(c)
  <2>1. /\ pc'[c] = "update.write" /\ pc[c] = "update.current" /\ req'[c] = req[c]
        /\ req[c].customer \in Customers /\ req[c].phone \in Phones
    BY <1>0, <1>12 DEF UpdateCurrent, PortalFits, Renumbering
  <2>2. \A p : HadNumber(c, p)' \subseteq HadNumber(c, p)
    BY <2>1, SinceShrinks DEF HadNumber
  <2> QED  BY <1>0, <2>1, <2>2 DEF RegistryFits, PortalFits, Sought, Creating, Renumbering
<1> QED
  BY <1>4, <1>5, <1>6, <1>7, <1>8, <1>9, <1>10, <1>11, <1>12

\* An import of vehicles, up to what it inserts.
LEMMA VehiclesAsked ==
  ASSUME RegistryInv, Remember, NEW c \in Clients,
         ImportVehicles(c) \/ VehiclesRegistrations(c) \/ VehiclesCustomers(c)
  PROVE  RegistryInv'
<1> USE DEF Arrive, Goto, Answer
<1>0. /\ RegistryFits(c) /\ Sought(c)
      /\ pc = [d \in Clients |-> pc[d]] /\ req = [d \in Clients |-> req[d]]
      /\ customers \in [Customers -> {Null, Gone} \cup CustomerRow]
      /\ UNCHANGED <<customers, vehicles>>
  BY DEF RegistryInv, ImportVehicles, VehiclesRegistrations, VehiclesCustomers
<1>1. pc' = [pc EXCEPT ![c] = pc'[c]] /\ req' = [req EXCEPT ![c] = req'[c]]
  BY <1>0 DEF ImportVehicles, VehiclesRegistrations, VehiclesCustomers
<1> SUFFICES RegistryFits(c)' /\ Sought(c)'
  BY <1>0, <1>1, RegistryMoves
<1>2. CASE Answer(c)
  <2>1. pc'[c] = "idle"
    BY <1>0, <1>2
  <2> QED  BY <2>1, NothingSought DEF Creating, Renumbering
<1>3. CASE ImportVehicles(c)
  <2>1. pc'[c] = "vehicles.registrations" /\ req'[c].list \in Seq(Vehicle)
    BY <1>0, <1>3, RegistryAssumption DEF ImportVehicles
  <2> QED  BY <2>1 DEF RegistryFits, PortalFits, Sought, Creating, Renumbering
<1>4. CASE VehiclesRegistrations(c)
  <2>1. /\ pc'[c] = "vehicles.customers" /\ req'[c].list \in Seq(Vehicle)
        /\ req'[c].taken = {vehicles[v].reg : v \in Kept}
    BY <1>0, <1>4 DEF VehiclesRegistrations, RegistryFits
  <2>2. \A r : HadRegistration(c, r)' => r \in req'[c].taken
    BY <1>0, <2>1, KnownNumbers
  <2> QED  BY <2>1, <2>2 DEF RegistryFits, PortalFits, Sought, Creating, Renumbering
<1>5. CASE VehiclesCustomers(c) /\ ~Answer(c)
  <2> DEFINE list  == req[c].list
             owned == {i \in DOMAIN list : list[i].owner \in Registered}
             regs  == [i \in owned |-> list[i].reg]
             fresh == Fresh(regs, req[c].taken)
             batch == [i \in fresh |-> list[i]]
  <2>1. /\ pc[c] = "vehicles.customers" /\ pc'[c] = "vehicles.insert" /\ req'[c].rows = batch
        /\ list \in Seq(Vehicle)
    BY <1>0, <1>5 DEF VehiclesCustomers, RegistryFits
  <2>2. DOMAIN regs \subseteq Nat
    BY <2>1
  <2> HIDE DEF list
  <2>3. /\ fresh \subseteq owned
        /\ \A i \in fresh : /\ regs[i] \notin req[c].taken
                            /\ \A j \in fresh : regs[i] = regs[j] => i = j
    <3> HIDE DEF regs
    <3>1. DOMAIN regs = owned
      BY DEF regs
    <3> QED  BY <2>2, <3>1, FreshApart
  <2> HIDE DEF fresh
  <2>4. DOMAIN batch = fresh /\ \A i \in fresh : batch[i].reg = regs[i]
    BY <2>3
  <2> HIDE DEF batch, regs, owned
  <2>5. \A r : HadRegistration(c, r)' => r \in req[c].taken
    <3>1. \A r : HadRegistration(c, r)' => HadRegistration(c, r)
      BY <2>1, SinceShrinks DEF HadRegistration
    <3> QED  BY <1>0, <2>1, <3>1 DEF Sought
  <2>6. ASSUME NEW i \in DOMAIN req'[c].rows
        PROVE  /\ ~HadRegistration(c, req[c].rows[i].reg)'
               /\ \A j \in DOMAIN req'[c].rows : req'[c].rows[i].reg = req'[c].rows[j].reg => i = j
    <3>1. i \in fresh /\ req'[c].rows[i].reg = regs[i]
      BY <2>1, <2>4
    <3>2. PICK r : r = regs[i]
      OBVIOUS
    <3>3. ~HadRegistration(c, r)'
      BY <2>3, <2>5, <3>1, <3>2
    <3> QED  BY <2>1, <2>3, <2>4, <3>1, <3>2, <3>3
  <2> QED  BY <2>1, <2>6 DEF RegistryFits, PortalFits, Sought, Creating, Renumbering
<1> QED  BY <1>2, <1>3, <1>4, <1>5 DEF VehiclesRegistrations

\* All other steps end a request, or say nothing of numbers and registrations.
LEMMA RegistryWritten ==
  ASSUME RegistryInv, Remember, NEW c \in Clients,
         \/ CustomerInsert(c) \/ CustomersInsert(c) \/ UpdateWrite(c) \/ DeletionStep(c)
         \/ AddVehicle(c) \/ VehicleCustomer(c) \/ VehicleInsert(c)
         \/ UpdateVehicle(c) \/ VehicleWrite(c) \/ DeleteVehicle(c) \/ VehiclesInsert(c)
         \/ SendFleet(c) \/ FleetCount(c) \/ FleetReplace(c)
  PROVE  RegistryInv'
<1> USE DEF Arrive, Goto, Answer, AtOnce
<1>0. /\ PortalFits(c)
      /\ pc = [d \in Clients |-> pc[d]] /\ req = [d \in Clients |-> req[d]]
      /\ customers \in [Customers -> {Null, Gone} \cup CustomerRow]
  BY DEF RegistryInv, RegistryFits
<1>1. /\ pc' = [pc EXCEPT ![c] = pc'[c]] /\ req' = [req EXCEPT ![c] = req'[c]]
      /\ pc'[c] \in {"idle", "delete.vehicles", "delete.customer", "vehicle.customer",
                     "vehicle.insert", "vehicle.write", "fleet.count", "fleet.replace"}
  BY <1>0 DEF CustomerInsert, CustomersInsert, UpdateWrite, DeletionStep, DeleteCustomer,
              DeleteVehicles, DeleteRow, AddVehicle, VehicleCustomer, VehicleInsert, UpdateVehicle,
              VehicleWrite, DeleteVehicle, VehiclesInsert, SendFleet, FleetCount, FleetReplace
<1>2. RegistryFits(c)' /\ Sought(c)'
  BY <1>1, NothingSought DEF Creating, Renumbering
<1>3. customers' \in [Customers -> {Null, Gone} \cup CustomerRow]
  <2>1. CASE CustomerInsert(c)
    <3>1. req[c] \in CustomerRow
      BY <1>0, <2>1 DEF CustomerInsert, PortalFits, Creating
    <3> QED  BY <1>0, <2>1, <3>1 DEF CustomerInsert
  <2>2. CASE CustomersInsert(c)
    <3> DEFINE list == req[c].list  fresh == req[c].fresh
    <3>1. list \in Seq(Phones) /\ fresh \subseteq DOMAIN list
      BY <1>0, <2>2 DEF CustomersInsert, PortalFits
    <3>2. PICK f \in [fresh -> Customers] :
            customers' = [k \in Customers |->
              IF \E i \in fresh : f[i] = k
              THEN [phone |-> list[CHOOSE i \in fresh : f[i] = k], referredBy |-> Null]
              ELSE customers[k]]
      BY <2>2 DEF CustomersInsert
    <3> HIDE DEF list, fresh
    <3>3. \A i \in fresh : [phone |-> list[i], referredBy |-> Null] \in CustomerRow
      BY <3>1 DEF CustomerRow
    <3> HIDE DEF CustomerRow
    <3>4. \A k \in Customers : customers'[k] = customers[k] \/ \E i \in fresh :
            customers'[k] = [phone |-> list[i], referredBy |-> Null]
      BY <3>2
    <3>5. customers' = [k \in Customers |-> customers'[k]]
      BY <3>2
    <3> QED  BY <1>0, <3>3, <3>4, <3>5
  <2>3. CASE UpdateWrite(c)
    <3> DEFINE k == req[c].customer
    <3>1. k \in Customers /\ req[c].phone \in Phones
      BY <1>0, <2>3 DEF UpdateWrite, PortalFits, Renumbering
    <3>2. \/ customers' = customers
          \/ /\ k \in Registered
             /\ customers' = [customers EXCEPT ![k] = [customers[k] EXCEPT !.phone = req[c].phone]]
      BY <2>3 DEF UpdateWrite
    <3>3. k \in Registered => [customers[k] EXCEPT !.phone = req[c].phone] \in CustomerRow
      BY <1>0, <3>1 DEF Registered, CustomerRow
    <3> HIDE DEF k
    <3> QED  BY <1>0, <3>1, <3>2, <3>3
  <2>4. CASE ~CustomerInsert(c) /\ ~CustomersInsert(c) /\ ~UpdateWrite(c)
    <3>1. customers' = customers \/ customers' = [customers EXCEPT ![req[c].customer] = Gone]
      BY <2>4 DEF DeletionStep, DeleteCustomer, DeleteVehicles, DeleteRow, AddVehicle,
                  VehicleCustomer, VehicleInsert, UpdateVehicle, VehicleWrite, DeleteVehicle,
                  VehiclesInsert, SendFleet, FleetCount, FleetReplace
    <3> QED  BY <1>0, <3>1
  <2> QED  BY <2>1, <2>2, <2>3, <2>4
<1> QED  BY <1>1, <1>2, <1>3, RegistryMoves

RegistryStep(c) == CustomerStep(c) \/ DeletionStep(c) \/ VehicleStep(c)

\* Only its own write answers a request that is about to write.
LEMMA DoneWrites ==
  ASSUME RegistryInv, NEW c \in Clients, NEW d \in Clients, RegistryStep(c)
  PROVE  /\ Done(d, "customer.insert") => CustomerInsert(d)
         /\ Done(d, "customers.insert") => CustomersInsert(d)
         /\ Done(d, "update.write") => UpdateWrite(d)
         /\ Done(d, "vehicles.insert") => VehiclesInsert(d)
<1> USE DEF Arrive, Goto, Answer, AtOnce
<1>1. pc = [e \in Clients |-> pc[e]]
  BY DEF RegistryInv
<1>2. d # c => pc'[d] = pc[d]
  BY <1>1 DEF RegistryStep, CustomerStep, DeletionStep, VehicleStep, CreateCustomer,
     CustomerClash, CustomerReferrer, CustomerInsert, ImportCustomers, CustomersRead,
     CustomersInsert, UpdateCustomer, UpdateClash, UpdateCurrent, UpdateWrite, DeleteCustomer,
     DeleteVehicles, DeleteRow, AddVehicle, VehicleCustomer, VehicleInsert, UpdateVehicle,
     VehicleWrite, DeleteVehicle, ImportVehicles, VehiclesRegistrations, VehiclesCustomers,
     VehiclesInsert, SendFleet, FleetCount, FleetReplace
<1>3. pc[c] \in {"customer.insert", "customers.insert", "update.write", "vehicles.insert"} =>
        CustomerInsert(c) \/ CustomersInsert(c) \/ UpdateWrite(c) \/ VehiclesInsert(c)
  BY DEF RegistryStep, CustomerStep, DeletionStep, VehicleStep, CreateCustomer,
     CustomerClash, CustomerReferrer, ImportCustomers, CustomersRead,
     UpdateCustomer, UpdateClash, UpdateCurrent, DeleteCustomer,
     DeleteVehicles, DeleteRow, AddVehicle, VehicleCustomer, VehicleInsert, UpdateVehicle,
     VehicleWrite, DeleteVehicle, ImportVehicles, VehiclesRegistrations, VehiclesCustomers,
     SendFleet, FleetCount, FleetReplace
<1>4. /\ CustomerInsert(c) => pc[c] = "customer.insert"
      /\ CustomersInsert(c) => pc[c] = "customers.insert"
      /\ UpdateWrite(c) => pc[c] = "update.write"
      /\ VehiclesInsert(c) => pc[c] = "vehicles.insert"
  BY DEF CustomerInsert, CustomersInsert, UpdateWrite, VehiclesInsert
<1>5. d = c \/ pc'[d] = pc[d]
  BY <1>2
<1> HIDE DEF Arrive, Goto, Answer, AtOnce
<1> QED  BY <1>3, <1>4, <1>5 DEF Done

\* What a write of customers says of numbers that two of them have afterwards.
LEMMA NumberOnce ==
  ASSUME RegistryInv, NEW c \in Clients,
         CustomerInsert(c) \/ CustomersInsert(c) \/ UpdateWrite(c),
         NEW k \in Numbered', NEW k2 \in Numbered', k # k2,
         customers'[k].phone = customers'[k2].phone, customers[k] # customers'[k]
  PROVE  <<"customer", k2, customers'[k2].phone>> \notin since[c] /\ customers'[k2] = customers[k2]
<1>0. /\ k \in Customers /\ k2 \in Customers /\ customers'[k].phone \notin ShortPhones
      /\ PortalFits(c) /\ Sought(c) /\ customers \in [Customers -> {Null, Gone} \cup CustomerRow]
  BY DEF RegistryInv, RegistryFits, Numbered, Registered
<1>1. CASE CustomerInsert(c)
  <2>1. pc[c] = "customer.insert" /\ req[c] \in CustomerRow
    BY <1>0, <1>1 DEF CustomerInsert, PortalFits, Creating
  <2>2. PICK j \in Customers : customers' = [customers EXCEPT ![j] = req[c]]
    BY <1>1 DEF CustomerInsert
  <2>3. j = k /\ customers'[k] = req[c] /\ customers'[k2] = customers[k2]
    BY <1>0, <2>2
  <2>4. k2 \notin HadNumber(c, req[c].phone)
    BY <1>0, <2>1, <2>3 DEF Sought
  <2> QED  BY <1>0, <2>3, <2>4 DEF HadNumber
<1>2. CASE UpdateWrite(c)
  <2>1. /\ pc[c] = "update.write" /\ req[c].customer \in Customers
    BY <1>0, <1>2 DEF UpdateWrite, PortalFits, Renumbering
  <2>2. /\ req[c].customer \in Registered
        /\ customers' = [customers EXCEPT ![req[c].customer] =
                           [customers[req[c].customer] EXCEPT !.phone = req[c].phone]]
    BY <1>2 DEF UpdateWrite
  <2>3. k = req[c].customer /\ customers'[k2] = customers[k2] /\ customers[k] \in CustomerRow
    BY <1>0, <2>2 DEF Registered
  <2>4. customers'[k].phone = req[c].phone
    BY <1>0, <2>2, <2>3 DEF CustomerRow
  <2>5. k2 \notin HadNumber(c, req[c].phone)
    BY <1>0, <2>1, <2>3, <2>4 DEF Sought
  <2> QED  BY <1>0, <2>3, <2>4, <2>5 DEF HadNumber
<1>3. CASE CustomersInsert(c)
  <2> DEFINE list == req[c].list  fresh == req[c].fresh
  <2>1. \A i \in fresh : /\ HadNumber(c, list[i]) = {}
                         /\ \A j \in fresh : list[i] = list[j] => i = j
    BY <1>0, <1>3 DEF CustomersInsert, Sought
  <2>2. PICK f \in [fresh -> Customers] :
          customers' = [j \in Customers |->
            IF \E i \in fresh : f[i] = j
            THEN [phone |-> list[CHOOSE i \in fresh : f[i] = j], referredBy |-> Null]
            ELSE customers[j]]
    BY <1>3 DEF CustomersInsert
  <2> HIDE DEF list, fresh
  <2>3. \A j \in Customers : customers'[j] = customers[j] \/ \E i \in fresh :
          f[i] = j /\ customers'[j] = [phone |-> list[i], referredBy |-> Null]
    BY <2>2
  <2>4. PICK i \in fresh : f[i] = k /\ customers'[k] = [phone |-> list[i], referredBy |-> Null]
    BY <1>0, <2>3
  <2>5. customers'[k2].phone = list[i]
    BY <2>4
  <2>6. customers'[k2] = customers[k2]
    <3> SUFFICES ASSUME customers'[k2] # customers[k2]  PROVE FALSE
      OBVIOUS
    <3>1. PICK j \in fresh :
            f[j] = k2 /\ customers'[k2] = [phone |-> list[j], referredBy |-> Null]
      BY <1>0, <2>3
    <3>2. list[i] = list[j]
      BY <2>5, <3>1
    <3> QED  BY <2>1, <2>4, <3>1, <3>2
  <2> QED  BY <1>0, <2>1, <2>5, <2>6 DEF HadNumber
<1> QED  BY <1>1, <1>2, <1>3

\* What an import of vehicles says of registrations that two of them have afterwards.
LEMMA RegistrationOnce ==
  ASSUME RegistryInv, NEW c \in Clients, VehiclesInsert(c),
         NEW v \in Kept', NEW v2 \in Kept', v # v2,
         vehicles'[v].reg = vehicles'[v2].reg, vehicles[v] # vehicles'[v]
  PROVE  <<"vehicle", v2, vehicles'[v2]>> \notin since[c] /\ vehicles'[v2] = vehicles[v2]
<1> DEFINE batch == req[c].rows
<1>0. v \in Vehicles /\ v2 \in Vehicles /\ Sought(c)
  BY DEF RegistryInv, Kept
<1>1. \A i \in DOMAIN batch : /\ ~HadRegistration(c, batch[i].reg)
                             /\ \A j \in DOMAIN batch : batch[i].reg = batch[j].reg => i = j
  BY <1>0 DEF VehiclesInsert, Sought
<1>2. \/ UNCHANGED vehicles
      \/ \E f \in [DOMAIN batch -> Vehicles \ Kept] :
           vehicles' = [u \in Vehicles |->
             IF \E i \in DOMAIN batch : f[i] = u
             THEN batch[CHOOSE i \in DOMAIN batch : f[i] = u] ELSE vehicles[u]]
  BY DEF VehiclesInsert
<1>3. PICK f \in [DOMAIN batch -> Vehicles \ Kept] :
        vehicles' = [u \in Vehicles |->
          IF \E i \in DOMAIN batch : f[i] = u
          THEN batch[CHOOSE i \in DOMAIN batch : f[i] = u] ELSE vehicles[u]]
  BY <1>2
<1> HIDE DEF batch
<1>4. \A u \in Vehicles : vehicles'[u] = vehicles[u] \/ \E i \in DOMAIN batch :
        f[i] = u /\ vehicles'[u] = batch[i]
  BY <1>3
<1>5. PICK i \in DOMAIN batch : f[i] = v /\ vehicles'[v] = batch[i]
  BY <1>0, <1>4
<1>6. vehicles'[v2] = vehicles[v2]
  BY <1>0, <1>1, <1>4, <1>5
<1>7. <<"vehicle", v2, vehicles'[v2]>> \notin since[c]
  <2> SUFFICES ASSUME <<"vehicle", v2, vehicles'[v2]>> \in since[c]  PROVE FALSE
    OBVIOUS
  <2>1. PICK x : x = vehicles'[v2]
    OBVIOUS
  <2>2. PICK g \in since[c] : g = <<"vehicle", v2, x>>
    BY <2>1
  <2>3. g[1] = "vehicle" /\ g[3] = x
    BY <2>2
  <2>4. HadRegistration(c, batch[i].reg)
    BY <1>5, <2>1, <2>3 DEF HadRegistration
  <2> QED  BY <1>1, <2>4
<1> QED  BY <1>6, <1>7

\* However requests overlap, a number or a registration that another row has had
\* since a request came is not given to a second one by that request, nor one
\* to two of its own rows (createCustomer, createCustomersBulk, updateCustomer,
\* createVehiclesBulk).
THEOREM OneOfEach == RegistrySpec => NoSecondOfOne
<1> DEFINE Next == (\E c \in Clients : CustomerStep(c) \/ DeletionStep(c) \/ VehicleStep(c))
                     /\ Remember
<1>1. RegistryInit /\ RequestInit => RegistryInv
  BY RegistryInitSound
<1>2. RegistryInv /\ [Next]_<<registryVars, requestVars>> => RegistryInv'
  <2> SUFFICES ASSUME RegistryInv, [Next]_<<registryVars, requestVars>>  PROVE RegistryInv'
    OBVIOUS
  <2>1. CASE Next
    BY <2>1, CustomerAsked, VehiclesAsked, RegistryWritten DEF CustomerStep, VehicleStep
  <2>2. CASE UNCHANGED <<registryVars, requestVars>>
    <3>1. UNCHANGED <<pc, req, customers, since>>
      BY <2>2 DEF registryVars, requestVars
    <3> QED
      BY <3>1 DEF RegistryInv, RegistryFits, PortalFits, Sought, HadNumber, HadRegistration
  <2> QED  BY <2>1, <2>2
<1>3. RegistryInv /\ [Next]_<<registryVars, requestVars>> =>
        [\A c \in Clients :
           /\ Done(c, "customer.insert") \/ Done(c, "customers.insert") \/ Done(c, "update.write") =>
                \A k \in Numbered', k2 \in Numbered' :
                  /\ k # k2 /\ customers'[k].phone = customers'[k2].phone
                  /\ customers[k] # customers'[k]
                  => <<"customer", k2, customers'[k2].phone>> \notin since[c]
                     /\ customers'[k2] = customers[k2]
           /\ Done(c, "vehicles.insert") =>
                \A v \in Kept', v2 \in Kept' :
                  /\ v # v2 /\ vehicles'[v].reg = vehicles'[v2].reg
                  /\ vehicles[v] # vehicles'[v]
                  => <<"vehicle", v2, vehicles'[v2]>> \notin since[c] /\ vehicles'[v2] = vehicles[v2]
        ]_<<registryVars, requestVars>>
  <2> SUFFICES ASSUME RegistryInv, Next, NEW c \in Clients
               PROVE
           /\ Done(c, "customer.insert") \/ Done(c, "customers.insert") \/ Done(c, "update.write") =>
                \A k \in Numbered', k2 \in Numbered' :
                  /\ k # k2 /\ customers'[k].phone = customers'[k2].phone
                  /\ customers[k] # customers'[k]
                  => <<"customer", k2, customers'[k2].phone>> \notin since[c]
                     /\ customers'[k2] = customers[k2]
           /\ Done(c, "vehicles.insert") =>
                \A v \in Kept', v2 \in Kept' :
                  /\ v # v2 /\ vehicles'[v].reg = vehicles'[v2].reg
                  /\ vehicles[v] # vehicles'[v]
                  => <<"vehicle", v2, vehicles'[v2]>> \notin since[c] /\ vehicles'[v2] = vehicles[v2]
    OBVIOUS
  <2>1. PICK d \in Clients : RegistryStep(d)
    BY DEF RegistryStep
  <2>2. /\ Done(c, "customer.insert") \/ Done(c, "customers.insert") \/ Done(c, "update.write") =>
             CustomerInsert(c) \/ CustomersInsert(c) \/ UpdateWrite(c)
        /\ Done(c, "vehicles.insert") => VehiclesInsert(c)
    BY <2>1, DoneWrites
  <2> QED  BY <2>2, NumberOnce, RegistrationOnce
<1> QED  BY <1>1, <1>2, <1>3, PTL DEF RegistrySpec, NoSecondOfOne

-----------------------------------------------------------------------------
(***************************************************************************)
(* Readers of a settings document are answered what it was, and the shell  *)
(* lags behind by a lifetime at most, proved for any number of workshops,  *)
(* texts, requests and any lifetime.  A reader that finds no row of the    *)
(* workshop's own asks for the old one in a second query.  What it is then *)
(* told was so at some moment since it came, because a workshop never has  *)
(* both rows, nor a row about to be written beside the old one: a document *)
(* moves from one to the other by way of nothing at all.                   *)
(***************************************************************************)
Settling == {"one.find", "one.legacy", "one.drop", "one.write"}

SingletonTyped ==
  /\ pc = [c \in Clients |-> pc[c]]
  /\ req = [c \in Clients |-> req[c]]
  /\ legacy \in {Null} \cup [org : Workshops, doc : Texts]
  /\ ownRow \in [Workshops -> Texts \cup {Null}]
  /\ shell = [s \in Workshops |-> shell[s]]
  /\ now \in Nat

ShopHeld(c) ==
  /\ pc[c] # "idle" => req[c].shop \in Workshops
  /\ pc[c] \in Settling => req[c].doc \in Texts

\* The old row and one of the workshop's own exclude each other.
OneRowEach ==
  \A s \in Workshops : OfLegacy(s) # Null =>
    /\ ownRow[s] = Null
    /\ \A c \in Clients : pc[c] = "one.write" => req[c].shop # s

\* What a reader may answer with has been so since it came.
Witnessed(c) ==
  LET s == req[c].shop IN
  /\ pc[c] # "idle" => \A t \in Workshops : <<t, TheirDoc(t)>> \in during[c]
  /\ pc[c] = "item.legacy" /\ OfLegacy(s) = Null => <<s, Null>> \in during[c]
  /\ pc[c] \in {"list.own", "shell.store"} => <<s, req[c].found>> \in during[c]

\* When each document was last a workshop's own.
Dated ==
  /\ \A s \in Workshops :
       /\ TheirDoc(s) \in DOMAIN lastHeld[s] /\ lastHeld[s][TheirDoc(s)] = now
       /\ \A d \in DOMAIN lastHeld[s] : lastHeld[s][d] \in Nat /\ lastHeld[s][d] <= now
       /\ shell[s] # Null =>
            /\ shell[s].doc \in DOMAIN lastHeld[s] /\ shell[s].until \in Nat
            /\ shell[s].until <= lastHeld[s][shell[s].doc] + Lifetime
  /\ \A c \in Clients : pc[c] = "shell.store" =>
       LET was == lastHeld[req[c].shop] IN
       req[c].found \in DOMAIN was /\ was[req[c].found] = now

SingletonInv ==
  /\ SingletonTyped
  /\ OneRowEach
  /\ Dated
  /\ \A c \in Clients : ShopHeld(c) /\ Witnessed(c)

\* What the ghosts keep of a step.
HeldOn ==
  /\ lastHeld' = [s \in Workshops |->
       [d \in DOMAIN lastHeld[s] \cup {TheirDoc(s)'} |->
          IF d = TheirDoc(s)' THEN now' ELSE lastHeld[s][d]]]
  /\ during' = [c \in Clients |->
       IF pc'[c] = "idle" THEN {}
       ELSE {<<s, TheirDoc(s)'>> : s \in Workshops} \cup
            (IF pc[c] = "idle" THEN {<<s, TheirDoc(s)>> : s \in Workshops} ELSE during[c])]

LEMMA DuringGrows ==
  ASSUME HeldOn, NEW c \in Clients, pc'[c] # "idle"
  PROVE  /\ \A s \in Workshops : <<s, TheirDoc(s)'>> \in during'[c]
         /\ pc[c] # "idle" => during[c] \subseteq during'[c]
<1>1. during'[c] = {<<s, TheirDoc(s)'>> : s \in Workshops} \cup
        (IF pc[c] = "idle" THEN {<<s, TheirDoc(s)>> : s \in Workshops} ELSE during[c])
  BY DEF HeldOn
<1> QED  BY <1>1

\* Dates are never taken back.
LEMMA DatesKept ==
  ASSUME SingletonInv, HeldOn, now' \in Nat, now' >= now, NEW s \in Workshops
  PROVE  /\ TheirDoc(s)' \in DOMAIN lastHeld'[s] /\ lastHeld'[s][TheirDoc(s)'] = now'
         /\ \A d \in DOMAIN lastHeld'[s] : lastHeld'[s][d] \in Nat /\ lastHeld'[s][d] <= now'
         /\ \A d \in DOMAIN lastHeld[s] :
              d \in DOMAIN lastHeld'[s] /\ lastHeld'[s][d] >= lastHeld[s][d]
<1>1. PICK x : x = TheirDoc(s)'
  OBVIOUS
<1>2. lastHeld'[s] = [d \in DOMAIN lastHeld[s] \cup {x} |-> IF d = x THEN now' ELSE lastHeld[s][d]]
  BY <1>1 DEF HeldOn
<1>3. /\ now \in Nat
      /\ \A d \in DOMAIN lastHeld[s] : lastHeld[s][d] \in Nat /\ lastHeld[s][d] <= now
  BY DEF SingletonInv, SingletonTyped, Dated
<1>4. DOMAIN lastHeld'[s] = DOMAIN lastHeld[s] \cup {x}
  BY <1>2
<1>5. \A d \in DOMAIN lastHeld[s] \cup {x} :
        lastHeld'[s][d] = IF d = x THEN now' ELSE lastHeld[s][d]
  BY <1>2
<1> QED  BY <1>1, <1>3, <1>4, <1>5

LEMMA SingletonInitSound == SingletonInit /\ RequestInit => SingletonInv
<1> SUFFICES ASSUME SingletonInit, RequestInit  PROVE SingletonInv
  OBVIOUS
<1>1. SingletonTyped
  BY DEF SingletonInit, RequestInit, SingletonTyped
<1>2. \A c \in Clients : pc[c] = "idle"
  BY DEF RequestInit
<1>3. OneRowEach
  BY <1>2 DEF OneRowEach, SingletonInit
<1>4. Dated
  <2>1. ASSUME NEW s \in Workshops
        PROVE  /\ TheirDoc(s) \in DOMAIN lastHeld[s] /\ lastHeld[s][TheirDoc(s)] = now
               /\ \A d \in DOMAIN lastHeld[s] : lastHeld[s][d] \in Nat /\ lastHeld[s][d] <= now
               /\ shell[s] = Null
    <3>1. PICK x : x = TheirDoc(s)
      OBVIOUS
    <3>2. lastHeld[s] = [d \in {x} |-> 0] /\ now = 0 /\ shell[s] = Null
      BY <3>1 DEF SingletonInit
    <3> QED  BY <3>1, <3>2
  <2> QED  BY <1>2, <2>1 DEF Dated
<1>5. \A c \in Clients : ShopHeld(c) /\ Witnessed(c)
  BY <1>2 DEF ShopHeld, Witnessed, Settling
<1> QED  BY <1>1, <1>3, <1>4, <1>5 DEF SingletonInv

\* What remains to be shown of a step of c, in which no time passes.
LEMMA SingletonMoves ==
  ASSUME SingletonInv, HeldOn, NEW c \in Clients, now' = now,
         pc' = [pc EXCEPT ![c] = pc'[c]], req' = [req EXCEPT ![c] = req'[c]],
         ownRow' \in [Workshops -> Texts \cup {Null}],
         legacy' = legacy \/ (legacy' = Null /\ ownRow' = ownRow),
         shell' = [s \in Workshops |-> shell'[s]],
         \A s \in Workshops : shell'[s] = shell[s] \/
           /\ shell'[s].doc \in DOMAIN lastHeld[s] /\ shell'[s].until \in Nat
           /\ shell'[s].until <= lastHeld[s][shell'[s].doc] + Lifetime,
         ShopHeld(c)', OneRowEach', Witnessed(c)',
         pc'[c] = "shell.store" => req'[c].found = TheirDoc(req[c].shop)'
  PROVE  SingletonInv'
<1>0. /\ SingletonTyped /\ Dated /\ OneRowEach
      /\ pc' = [d \in Clients |-> pc'[d]] /\ req' = [d \in Clients |-> req'[d]]
      /\ \A d \in Clients \ {c} :
           pc'[d] = pc[d] /\ req'[d] = req[d] /\ ShopHeld(d) /\ Witnessed(d)
  BY DEF SingletonInv, SingletonTyped
<1>1. SingletonTyped'
  BY <1>0 DEF SingletonTyped
<1>2. \A d \in Clients \ {c} : ShopHeld(d)'
  BY <1>0 DEF ShopHeld
<1>3. ASSUME NEW d \in Clients \ {c}  PROVE Witnessed(d)'
  <2>1. CASE pc[d] = "idle"
    BY <1>0, <1>3, <2>1 DEF Witnessed
  <2>2. CASE pc[d] # "idle"
    <3>1. /\ pc'[d] = pc[d] /\ req'[d] = req[d] /\ Witnessed(d) /\ req[d].shop \in Workshops
      BY <1>0, <1>3, <2>2 DEF ShopHeld
    <3>2. /\ \A t \in Workshops : <<t, TheirDoc(t)'>> \in during'[d]
          /\ during[d] \subseteq during'[d]
      BY <2>2, <3>1, DuringGrows
    <3>3. PICK s \in Workshops : s = req[d].shop /\ s = req'[d].shop
      BY <3>1
    <3>4. ASSUME OfLegacy(s)' = Null, OfLegacy(s) # Null  PROVE TheirDoc(s)' = Null
      <4>1. ownRow[s] = Null /\ legacy' # legacy
        BY <1>0, <3>4 DEF OneRowEach, OfLegacy
      <4> QED  BY <3>4, <4>1 DEF TheirDoc
    <3>5. pc'[d] = "item.legacy" /\ OfLegacy(s)' = Null => <<s, Null>> \in during'[d]
      BY <3>1, <3>2, <3>3, <3>4 DEF Witnessed
    <3>6. pc'[d] \in {"list.own", "shell.store"} => <<s, req'[d].found>> \in during'[d]
      BY <3>1, <3>2, <3>3 DEF Witnessed
    <3> QED  BY <3>2, <3>3, <3>5, <3>6 DEF Witnessed
  <2> QED  BY <2>1, <2>2
<1>4. Dated'
  <2>1. now' \in Nat /\ now' >= now /\ Lifetime \in Nat
    BY <1>0, SingletonAssumption DEF SingletonTyped
  <2>2. ASSUME NEW s \in Workshops, shell'[s] # Null
        PROVE  /\ shell'[s].doc \in DOMAIN lastHeld'[s] /\ shell'[s].until \in Nat
               /\ shell'[s].until <= lastHeld'[s][shell'[s].doc] + Lifetime
    <3>1. PICK e : e = shell'[s]
      OBVIOUS
    <3>2. /\ e.doc \in DOMAIN lastHeld[s] /\ e.until \in Nat
          /\ e.until <= lastHeld[s][e.doc] + Lifetime /\ lastHeld[s][e.doc] \in Nat
      BY <1>0, <2>2, <3>1 DEF Dated
    <3>3. /\ e.doc \in DOMAIN lastHeld'[s] /\ lastHeld'[s][e.doc] >= lastHeld[s][e.doc]
          /\ lastHeld'[s][e.doc] \in Nat
      BY <2>1, <3>2, DatesKept
    <3> QED  BY <2>1, <3>1, <3>2, <3>3
  <2>3. ASSUME NEW d \in Clients, pc'[d] = "shell.store"
        PROVE  /\ req'[d].found \in DOMAIN lastHeld'[req'[d].shop]
               /\ lastHeld'[req'[d].shop][req'[d].found] = now'
    <3>1. PICK s \in Workshops : s = req'[d].shop
      BY <1>0, <1>2, <2>3 DEF ShopHeld
    <3>2. PICK x : x = req'[d].found
      OBVIOUS
    <3>3. CASE d = c
      <4>1. x = TheirDoc(s)'
        BY <2>3, <3>1, <3>2, <3>3
      <4> QED  BY <2>1, <3>1, <3>2, <4>1, DatesKept
    <3>4. CASE d # c
      <4>1. x \in DOMAIN lastHeld[s] /\ lastHeld[s][x] = now
        BY <1>0, <2>3, <3>1, <3>2, <3>4 DEF Dated
      <4>2. x \in DOMAIN lastHeld'[s] /\ lastHeld'[s][x] >= now
        BY <2>1, <4>1, DatesKept
      <4>3. lastHeld'[s][x] \in Nat /\ lastHeld'[s][x] <= now'
        BY <2>1, <4>2, DatesKept
      <4>4. lastHeld'[s][x] = now'
        BY <2>1, <4>2, <4>3
      <4> QED  BY <3>1, <3>2, <4>2, <4>4
    <3> QED  BY <3>3, <3>4
  <2>4. \A s \in Workshops :
          /\ TheirDoc(s)' \in DOMAIN lastHeld'[s] /\ lastHeld'[s][TheirDoc(s)'] = now'
          /\ \A d \in DOMAIN lastHeld'[s] : lastHeld'[s][d] \in Nat /\ lastHeld'[s][d] <= now'
    BY <2>1, DatesKept
  <2> QED  BY <2>2, <2>3, <2>4 DEF Dated
<1> QED  BY <1>0, <1>1, <1>2, <1>3, <1>4 DEF SingletonInv

\* What remains to be shown of a step of c that writes nothing.
LEMMA SingletonReads ==
  ASSUME SingletonInv, HeldOn, NEW c \in Clients, UNCHANGED <<legacy, ownRow, shell, now>>,
         pc' = [pc EXCEPT ![c] = pc'[c]], req' = [req EXCEPT ![c] = req'[c]], ShopHeld(c)',
         pc'[c] = "one.write" => OfLegacy(req'[c].shop) = Null,
         pc'[c] = "item.legacy" => ownRow[req'[c].shop] = Null,
         pc'[c] \in {"list.own", "shell.store"} => req'[c].found = TheirDoc(req'[c].shop)
  PROVE  SingletonInv'
<1>0. /\ SingletonTyped /\ OneRowEach
      /\ \A s \in Workshops : TheirDoc(s)' = TheirDoc(s) /\ OfLegacy(s)' = OfLegacy(s)
  BY DEF SingletonInv, TheirDoc, OfLegacy, OfOwn
<1>1. OneRowEach'
  <2> SUFFICES ASSUME NEW s \in Workshops, OfLegacy(s) # Null
               PROVE  ownRow[s] = Null /\ \A d \in Clients : pc'[d] = "one.write" => req'[d].shop # s
    BY <1>0 DEF OneRowEach
  <2>1. /\ ownRow[s] = Null
        /\ \A d \in Clients \ {c} : pc'[d] = "one.write" => req'[d].shop # s
    BY <1>0 DEF OneRowEach, SingletonTyped
  <2> QED  BY <2>1
<1>2. Witnessed(c)'
  <2> SUFFICES ASSUME pc'[c] # "idle"  PROVE Witnessed(c)'
    BY DEF Witnessed
  <2>1. PICK s \in Workshops : s = req'[c].shop
    BY DEF ShopHeld
  <2>2. \A t \in Workshops : <<t, TheirDoc(t)'>> \in during'[c]
    BY DuringGrows
  <2>3. pc'[c] = "item.legacy" /\ OfLegacy(s)' = Null => <<s, Null>> \in during'[c]
    BY <1>0, <2>1, <2>2 DEF TheirDoc
  <2>4. pc'[c] \in {"list.own", "shell.store"} => <<s, req'[c].found>> \in during'[c]
    BY <1>0, <2>1, <2>2
  <2> QED  BY <2>1, <2>2, <2>3, <2>4 DEF Witnessed
<1>3. pc'[c] = "shell.store" => req'[c].found = TheirDoc(req[c].shop)'
  <2>1. ASSUME pc'[c] = "shell.store"  PROVE req'[c].found = TheirDoc(req[c].shop)'
    <3>1. PICK s \in Workshops : s = req'[c].shop
      BY <2>1 DEF ShopHeld
    <3> QED  BY <1>0, <2>1, <3>1
  <2> QED  BY <2>1
<1> QED  BY <1>0, <1>1, <1>2, <1>3, SingletonMoves DEF SingletonTyped

\* The requests that save or delete the document.
LEMMA SettingsWriteSound ==
  ASSUME SingletonInv, HeldOn, NEW c \in Clients, SettingsWrite(c)
  PROVE  SingletonInv'
<1> USE DEF Arrive, Goto, Answer, AtOnce
<1>0. /\ ShopHeld(c) /\ OneRowEach /\ shell' = shell /\ now' = now
      /\ pc = [d \in Clients |-> pc[d]] /\ req = [d \in Clients |-> req[d]]
      /\ shell = [s \in Workshops |-> shell[s]] /\ ownRow \in [Workshops -> Texts \cup {Null}]
  BY DEF SingletonInv, SingletonTyped, SettingsWrite
<1>1. pc' = [pc EXCEPT ![c] = pc'[c]] /\ req' = [req EXCEPT ![c] = req'[c]]
  BY <1>0 DEF SettingsWrite, SaveOne, FindOne, FindLegacy, DropLegacy, WriteOne, RemoveLegacy,
              RemoveOwn
<1>2. CASE SaveOne(c)
  <2>1. /\ pc'[c] = "one.find" /\ req'[c].shop \in Workshops /\ req'[c].doc \in Texts
        /\ UNCHANGED <<legacy, ownRow>>
    BY <1>0, <1>2 DEF SaveOne
  <2>2. ShopHeld(c)'
    BY <2>1 DEF ShopHeld
  <2> QED  BY <1>0, <1>1, <2>1, <2>2, SingletonReads
<1>3. CASE FindOne(c) \/ FindLegacy(c)
  <2>1. /\ pc'[c] \in {"one.legacy", "one.write", "one.drop"} /\ req'[c] = req[c]
        /\ req[c].shop \in Workshops /\ req[c].doc \in Texts
        /\ UNCHANGED <<legacy, ownRow>>
    BY <1>0, <1>3 DEF FindOne, FindLegacy, ShopHeld, Settling
  <2>2. ShopHeld(c)'
    BY <2>1 DEF ShopHeld
  <2>3. pc'[c] = "one.write" => ownRow[req[c].shop] # Null \/ OfLegacy(req[c].shop) = Null
    BY <1>0, <1>3 DEF FindOne, FindLegacy
  <2>4. pc'[c] = "one.write" => OfLegacy(req[c].shop) = Null
    BY <1>0, <2>1, <2>3 DEF OneRowEach
  <2> QED  BY <1>0, <1>1, <2>1, <2>2, <2>4, SingletonReads
<1>4. CASE DropLegacy(c) \/ RemoveLegacy(c)
  <2>1. legacy' = Null /\ ownRow' = ownRow
    BY <1>4 DEF DropLegacy, RemoveLegacy
  <2>2. OneRowEach'
    BY <2>1 DEF OneRowEach, OfLegacy
  <2>3. /\ pc'[c] \in {"idle", "one.write"}
        /\ pc'[c] = "one.write" =>
             req'[c].shop \in Workshops /\ req'[c].doc \in Texts
    BY <1>0, <1>4 DEF DropLegacy, RemoveLegacy, ShopHeld, Settling
  <2>4. ShopHeld(c)'
    BY <2>3 DEF ShopHeld, Settling
  <2>5. Witnessed(c)'
    BY <2>3, DuringGrows DEF Witnessed
  <2> QED  BY <1>0, <1>1, <2>1, <2>2, <2>3, <2>4, <2>5, SingletonMoves
<1>5. CASE WriteOne(c)
  <2>1. /\ pc[c] = "one.write" /\ pc'[c] = "idle" /\ legacy' = legacy
        /\ req[c].shop \in Workshops /\ req[c].doc \in Texts
        /\ ownRow' = [ownRow EXCEPT ![req[c].shop] = req[c].doc]
    BY <1>0, <1>5 DEF WriteOne, ShopHeld, Settling
  <2>2. ASSUME NEW s \in Workshops, OfLegacy(s)' # Null
        PROVE  ownRow'[s] = Null /\ \A d \in Clients : pc'[d] = "one.write" => req'[d].shop # s
    <3>1. OfLegacy(s) # Null
      BY <2>1, <2>2 DEF OfLegacy
    <3>2. ownRow[s] = Null /\ \A d \in Clients : pc[d] = "one.write" => req[d].shop # s
      BY <1>0, <3>1 DEF OneRowEach
    <3> QED  BY <1>0, <1>1, <2>1, <3>2
  <2>3. OneRowEach'
    BY <2>2 DEF OneRowEach
  <2>4. ShopHeld(c)' /\ Witnessed(c)'
    BY <2>1 DEF ShopHeld, Witnessed, Settling
  <2>5. ownRow' \in [Workshops -> Texts \cup {Null}]
    BY <1>0, <2>1
  <2> QED  BY <1>0, <1>1, <2>1, <2>3, <2>4, <2>5, SingletonMoves
<1>6. CASE RemoveOwn(c)
  <2>1. /\ pc'[c] = "idle" /\ pc' = pc /\ req' = req /\ legacy' = legacy
        /\ \E s \in Workshops : ownRow' = [ownRow EXCEPT ![s] = Null]
    BY <1>6 DEF RemoveOwn
  <2>2. ownRow' \in [Workshops -> Texts \cup {Null}]
        /\ \A s \in Workshops : ownRow[s] = Null => ownRow'[s] = Null
    BY <1>0, <2>1
  <2>3. OneRowEach'
    BY <1>0, <2>1, <2>2 DEF OneRowEach, OfLegacy
  <2>4. ShopHeld(c)' /\ Witnessed(c)'
    BY <2>1 DEF ShopHeld, Witnessed, Settling
  <2> QED  BY <1>0, <1>1, <2>1, <2>2, <2>3, <2>4, SingletonMoves
<1> QED  BY <1>2, <1>3, <1>4, <1>5, <1>6 DEF SettingsWrite

\* What an answer may be.
Current == reply' # Null /\ reply'.reader \in {"item", "list", "login", "message", "loaded"} =>
             Had(reply'.client, reply'.shop, reply'.doc)
Lagging == reply' # Null /\ reply'.reader = "shell" =>
             LET was == lastHeld[reply'.shop] IN
             reply'.doc \in DOMAIN was /\ now <= was[reply'.doc] + Lifetime

LEMMA ReadingSound ==
  ASSUME SingletonInv, HeldOn, NEW c \in Clients, Reading(c)
  PROVE  SingletonInv' /\ Current /\ Lagging
<1> USE DEF Arrive, Goto, Answer, AtOnce, Show
<1>0. /\ ShopHeld(c) /\ Witnessed(c) /\ OneRowEach /\ UNCHANGED <<legacy, ownRow, shell, now>>
      /\ pc = [d \in Clients |-> pc[d]] /\ req = [d \in Clients |-> req[d]]
  BY DEF SingletonInv, SingletonTyped, Reading
<1>1. ASSUME pc' = [pc EXCEPT ![c] = "idle"], req' = [req EXCEPT ![c] = req'[c]]
      PROVE  SingletonInv'
  <2>1. pc'[c] = "idle" /\ pc' = [pc EXCEPT ![c] = pc'[c]]
    BY <1>0, <1>1
  <2>2. ShopHeld(c)'
    BY <2>1 DEF ShopHeld, Settling
  <2> QED  BY <1>0, <1>1, <2>1, <2>2, SingletonReads
<1>2. CASE AskItem(c) \/ AskList(c)
  <2>1. /\ pc' = [pc EXCEPT ![c] = pc'[c]] /\ req' = [req EXCEPT ![c] = req'[c]]
        /\ pc'[c] \in {"item.own", "list.newest"} /\ req'[c].shop \in Workshops /\ reply' = Null
    BY <1>0, <1>2 DEF AskItem, AskList
  <2>2. ShopHeld(c)'
    BY <2>1 DEF ShopHeld, Settling
  <2>3. SingletonInv'
    BY <1>0, <2>1, <2>2, SingletonReads
  <2> QED  BY <2>1, <2>3 DEF Current, Lagging
<1>3. CASE ItemOwn(c)
  <2>1. pc[c] = "item.own" /\ req[c].shop \in Workshops
    BY <1>0, <1>3 DEF ItemOwn, ShopHeld
  <2>2. CASE ownRow[req[c].shop] # Null
    <3>1. SingletonInv'
      BY <1>0, <1>1, <1>3, <2>2 DEF ItemOwn
    <3>2. reply' = [client |-> c, reader |-> "item", shop |-> req[c].shop,
                    doc |-> TheirDoc(req[c].shop)]
      BY <1>3, <2>2 DEF ItemOwn, TheirDoc
    <3> QED  BY <3>1, <3>2 DEF Current, Lagging, Had
  <2>3. CASE ownRow[req[c].shop] = Null
    <3>1. /\ pc' = [pc EXCEPT ![c] = pc'[c]] /\ req' = [req EXCEPT ![c] = req'[c]]
          /\ pc'[c] = "item.legacy" /\ req'[c] = req[c] /\ reply' = Null
      BY <1>0, <1>3, <2>3 DEF ItemOwn
    <3>2. ShopHeld(c)'
      BY <2>1, <3>1 DEF ShopHeld, Settling
    <3>3. SingletonInv'
      BY <1>0, <2>3, <3>1, <3>2, SingletonReads
    <3> QED  BY <3>1, <3>3 DEF Current, Lagging
  <2> QED  BY <2>2, <2>3
<1>4. CASE ItemLegacy(c)
  <2>1. /\ pc[c] = "item.legacy" /\ req[c].shop \in Workshops
        /\ reply' = [client |-> c, reader |-> "item", shop |-> req[c].shop,
                     doc |-> OfLegacy(req[c].shop)]
    BY <1>0, <1>4 DEF ItemLegacy, ShopHeld, LegacyRead
  <2>2. SingletonInv'
    BY <1>0, <1>1, <1>4 DEF ItemLegacy
  <2>3. OfLegacy(req[c].shop) # Null => OfLegacy(req[c].shop) = TheirDoc(req[c].shop)
    BY <1>0, <2>1 DEF OneRowEach, TheirDoc
  <2>4. OfLegacy(req[c].shop) = Null => <<req[c].shop, OfLegacy(req[c].shop)>> \in during[c]
    BY <1>0, <2>1 DEF Witnessed
  <2>5. Had(c, req[c].shop, OfLegacy(req[c].shop))
    BY <2>3, <2>4 DEF Had
  <2> QED  BY <2>1, <2>2, <2>5 DEF Current, Lagging
<1>5. CASE ListNewest(c)
  <2>1. pc[c] = "list.newest" /\ req[c].shop \in Workshops
    BY <1>0, <1>5 DEF ListNewest, ShopHeld
  <2>2. CASE ownRow[req[c].shop] = Null /\ OfLegacy(req[c].shop) # Null
    <3>1. /\ pc' = [pc EXCEPT ![c] = pc'[c]] /\ req' = [req EXCEPT ![c] = req'[c]]
          /\ pc'[c] = "list.own" /\ reply' = Null
          /\ req'[c].shop = req[c].shop /\ req'[c].found = OfLegacy(req[c].shop)
      BY <1>0, <1>5, <2>2 DEF ListNewest
    <3>2. ShopHeld(c)'
      BY <2>1, <3>1 DEF ShopHeld, Settling
    <3>3. req'[c].found = TheirDoc(req'[c].shop)
      BY <2>2, <3>1 DEF TheirDoc
    <3>4. SingletonInv'
      BY <1>0, <3>1, <3>2, <3>3, SingletonReads
    <3> QED  BY <3>1, <3>4 DEF Current, Lagging
  <2>3. CASE ~(ownRow[req[c].shop] = Null /\ OfLegacy(req[c].shop) # Null)
    <3>1. SingletonInv'
      BY <1>0, <1>1, <1>5, <2>3 DEF ListNewest
    <3>2. reply' = [client |-> c, reader |-> "list", shop |-> req[c].shop,
                    doc |-> TheirDoc(req[c].shop)]
      BY <1>5, <2>3 DEF ListNewest
    <3> QED  BY <3>1, <3>2 DEF Current, Lagging, Had
  <2> QED  BY <2>2, <2>3
<1>6. CASE ListOwn(c)
  <2>1. pc[c] = "list.own" /\ req[c].shop \in Workshops
    BY <1>0, <1>6 DEF ListOwn, ShopHeld
  <2>2. SingletonInv'
    BY <1>0, <1>1, <1>6 DEF ListOwn
  <2>3. PICK x : x = IF ownRow[req[c].shop] # Null THEN OfOwn(req[c].shop) ELSE req[c].found
    OBVIOUS
  <2>4. reply' = [client |-> c, reader |-> "list", shop |-> req[c].shop, doc |-> x]
    BY <1>6, <2>3 DEF ListOwn
  <2>5. Had(c, req[c].shop, x)
    BY <1>0, <2>1, <2>3 DEF Had, Witnessed, TheirDoc
  <2> QED  BY <2>2, <2>4, <2>5 DEF Current, Lagging
<1>7. ASSUME AtOnce(c), \/ MessageName(c) \/ Portal(c) \/ PublicInvoice(c) \/ PublicLedger(c)
                        \/ PublicPhotos(c) \/ PublicBranding(c)
      PROVE  SingletonInv' /\ Current /\ Lagging
  <2>1. pc' = [pc EXCEPT ![c] = "idle"] /\ req' = [req EXCEPT ![c] = req'[c]]
    BY <1>0, <1>7
  <2>2. SingletonInv'
    BY <1>1, <2>1
  <2>3. \/ reply'.reader \in {"portal", "invoice", "ledger", "photos", "splash"}
        \/ \E s \in Workshops : reply'.shop = s /\ reply'.doc = TheirDoc(s) /\ reply'.reader # "shell"
    BY <1>7 DEF MessageName, Portal, PublicInvoice, PublicLedger, PublicPhotos, PublicBranding,
                LoginPage
  <2> QED  BY <2>2, <2>3 DEF Current, Lagging, Had
<1>8. \/ AskItem(c) \/ AskList(c) \/ ItemOwn(c) \/ ItemLegacy(c) \/ ListNewest(c) \/ ListOwn(c)
      \/ /\ AtOnce(c)
         /\ \/ MessageName(c) \/ Portal(c) \/ PublicInvoice(c) \/ PublicLedger(c)
            \/ PublicPhotos(c) \/ PublicBranding(c)
  BY DEF Reading, MessageName, Portal, PublicInvoice, PublicLedger, PublicPhotos, PublicBranding,
         LoginPage
<1> QED  BY <1>2, <1>3, <1>4, <1>5, <1>6, <1>7, <1>8

LEMMA ShellSound ==
  ASSUME SingletonInv, HeldOn, NEW c \in Clients, ShellStep(c)
  PROVE  SingletonInv' /\ Current /\ Lagging
<1> USE DEF Arrive, Goto, Answer, AtOnce, Show
<1>0. /\ ShopHeld(c) /\ Witnessed(c) /\ OneRowEach /\ UNCHANGED <<legacy, ownRow, now>>
      /\ pc = [d \in Clients |-> pc[d]] /\ req = [d \in Clients |-> req[d]]
      /\ shell = [s \in Workshops |-> shell[s]] /\ ownRow \in [Workshops -> Texts \cup {Null}]
      /\ now \in Nat /\ Lifetime \in Nat /\ Dated
  BY SingletonAssumption DEF SingletonInv, SingletonTyped, ShellStep
<1>1. CASE Shell(c) /\ UNCHANGED shell
  <2>1. PICK s \in Workshops :
          IF Cached(s) THEN AtOnce(c) /\ Show(c, "shell", s, shell[s].doc)
          ELSE Arrive(c, "shell.load", [shop |-> s]) /\ reply' = Null
    BY <1>1 DEF Shell
  <2>2. /\ pc' = [pc EXCEPT ![c] = pc'[c]] /\ req' = [req EXCEPT ![c] = req'[c]]
        /\ pc'[c] \in {"idle", "shell.load"}
        /\ pc'[c] # "idle" => req'[c].shop \in Workshops
    BY <1>0, <2>1
  <2>3. ShopHeld(c)'
    BY <2>2 DEF ShopHeld, Settling
  <2>4. SingletonInv'
    BY <1>0, <1>1, <2>2, <2>3, SingletonReads
  <2>5. CASE Cached(s)
    <3>1. PICK e : e = shell[s]
      OBVIOUS
    <3>2. /\ e.doc \in DOMAIN lastHeld[s] /\ now <= e.until /\ e.until \in Nat
          /\ e.until <= lastHeld[s][e.doc] + Lifetime /\ lastHeld[s][e.doc] \in Nat
      BY <1>0, <2>5, <3>1 DEF Cached, Dated
    <3>3. now <= lastHeld[s][e.doc] + Lifetime
      BY <1>0, <3>2
    <3>4. reply' = [client |-> c, reader |-> "shell", shop |-> s, doc |-> e.doc]
      BY <2>1, <2>5, <3>1
    <3> QED  BY <2>4, <3>2, <3>3, <3>4 DEF Current, Lagging
  <2>6. CASE ~Cached(s)
    BY <2>1, <2>4, <2>6 DEF Current, Lagging
  <2> QED  BY <2>5, <2>6
<1>2. CASE ShellLoad(c)
  <2>1. /\ pc' = [pc EXCEPT ![c] = pc'[c]] /\ req' = [req EXCEPT ![c] = req'[c]]
        /\ pc'[c] = "shell.store" /\ req'[c].shop = req[c].shop /\ req[c].shop \in Workshops
        /\ req'[c].found = TheirDoc(req[c].shop) /\ reply' = Null /\ shell' = shell
    BY <1>0, <1>2 DEF ShellLoad, ShopHeld
  <2>2. ShopHeld(c)'
    BY <2>1 DEF ShopHeld, Settling
  <2>3. SingletonInv'
    BY <1>0, <2>1, <2>2, SingletonReads
  <2> QED  BY <2>1, <2>3 DEF Current, Lagging
<1>3. CASE ShellStore(c)
  <2>1. PICK s \in Workshops : s = req[c].shop
    BY <1>0, <1>3 DEF ShellStore, ShopHeld
  <2>2. PICK x : x = req[c].found
    OBVIOUS
  <2>3. /\ pc[c] = "shell.store" /\ pc' = [pc EXCEPT ![c] = "idle"]
        /\ req' = [req EXCEPT ![c] = req'[c]]
        /\ shell' = [shell EXCEPT ![s] = [doc |-> x, until |-> now + Lifetime]]
        /\ reply' = [client |-> c, reader |-> "loaded", shop |-> s, doc |-> x]
    BY <1>0, <1>3, <2>1, <2>2 DEF ShellStore
  <2>4. x \in DOMAIN lastHeld[s] /\ lastHeld[s][x] = now
    BY <1>0, <2>1, <2>2, <2>3 DEF Dated
  <2>5. /\ shell'[s].doc \in DOMAIN lastHeld[s] /\ shell'[s].until \in Nat
        /\ shell'[s].until <= lastHeld[s][shell'[s].doc] + Lifetime
    <3>1. shell'[s] = [doc |-> x, until |-> now + Lifetime]
      BY <1>0, <2>3
    <3> QED  BY <1>0, <2>4, <3>1
  <2>6. /\ shell' = [t \in Workshops |-> shell'[t]]
        /\ \A t \in Workshops \ {s} : shell'[t] = shell[t]
    BY <1>0, <2>3
  <2>7. pc'[c] = "idle" /\ pc' = [pc EXCEPT ![c] = pc'[c]]
    BY <1>0, <2>3
  <2>8. ShopHeld(c)' /\ Witnessed(c)'
    BY <2>7 DEF ShopHeld, Witnessed, Settling
  <2>9. OneRowEach'
    <3>1. \A t \in Workshops : OfLegacy(t)' = OfLegacy(t)
      BY <1>0 DEF OfLegacy
    <3> QED  BY <1>0, <2>3, <2>7, <3>1 DEF OneRowEach
  <2>10. SingletonInv'
    <3>1. \A t \in Workshops : shell'[t] = shell[t] \/
            /\ shell'[t].doc \in DOMAIN lastHeld[t] /\ shell'[t].until \in Nat
            /\ shell'[t].until <= lastHeld[t][shell'[t].doc] + Lifetime
      BY <2>5, <2>6
    <3> QED  BY <1>0, <2>3, <2>6, <2>7, <2>8, <2>9, <3>1, SingletonMoves
  <2>11. Had(c, s, x)
    BY <1>0, <2>1, <2>2, <2>3 DEF Had, Witnessed
  <2> QED  BY <2>3, <2>10, <2>11 DEF Current, Lagging
<1> QED  BY <1>1, <1>2, <1>3 DEF ShellStep

LEMMA TickSound ==
  ASSUME SingletonInv, HeldOn, Tick
  PROVE  SingletonInv'
<1>1. /\ \A c \in Clients : pc[c] = "idle" /\ pc'[c] = "idle"
      /\ UNCHANGED <<pc, req, legacy, ownRow, shell>> /\ now' = now + 1
      /\ SingletonTyped /\ OneRowEach /\ Dated /\ now \in Nat /\ now' \in Nat /\ Lifetime \in Nat
  BY SingletonAssumption DEF Tick, Quiet, requestVars, SingletonInv, SingletonTyped
<1>2. SingletonTyped'
  BY <1>1 DEF SingletonTyped
<1>3. OneRowEach'
  <2>1. \A s \in Workshops : OfLegacy(s)' = OfLegacy(s)
    BY <1>1 DEF OfLegacy
  <2> QED  BY <1>1, <2>1 DEF OneRowEach
<1>4. Dated'
  <2>1. now' >= now
    BY <1>1
  <2>2. \A s \in Workshops :
          /\ TheirDoc(s)' \in DOMAIN lastHeld'[s] /\ lastHeld'[s][TheirDoc(s)'] = now'
          /\ \A d \in DOMAIN lastHeld'[s] : lastHeld'[s][d] \in Nat /\ lastHeld'[s][d] <= now'
    BY <1>1, <2>1, DatesKept
  <2>3. ASSUME NEW s \in Workshops, shell'[s] # Null
        PROVE  /\ shell'[s].doc \in DOMAIN lastHeld'[s] /\ shell'[s].until \in Nat
               /\ shell'[s].until <= lastHeld'[s][shell'[s].doc] + Lifetime
    <3>1. PICK e : e = shell[s] /\ e = shell'[s]
      BY <1>1
    <3>2. /\ e.doc \in DOMAIN lastHeld[s] /\ e.until \in Nat
          /\ e.until <= lastHeld[s][e.doc] + Lifetime /\ lastHeld[s][e.doc] \in Nat
      BY <1>1, <2>3, <3>1 DEF Dated
    <3>3. /\ e.doc \in DOMAIN lastHeld'[s] /\ lastHeld'[s][e.doc] >= lastHeld[s][e.doc]
      BY <1>1, <2>1, <3>2, DatesKept
    <3>4. lastHeld'[s][e.doc] \in Nat
      BY <2>2, <3>3
    <3> QED  BY <1>1, <3>1, <3>2, <3>3, <3>4
  <2> QED  BY <1>1, <2>2, <2>3 DEF Dated
<1>5. \A c \in Clients : ShopHeld(c)' /\ Witnessed(c)'
  BY <1>1 DEF ShopHeld, Witnessed, Settling
<1> QED  BY <1>2, <1>3, <1>4, <1>5 DEF SingletonInv

LEMMA SingletonStepSound ==
  ASSUME SingletonInv, SingletonStep
  PROVE  SingletonInv' /\ Current /\ Lagging
<1>1. HeldOn
  BY DEF SingletonStep, HeldOn
<1>2. CASE Tick
  BY <1>1, <1>2, TickSound DEF Tick, Current, Lagging
<1>3. ASSUME NEW c \in Clients, SettingsWrite(c)
      PROVE  SingletonInv' /\ Current /\ Lagging
  BY <1>1, <1>3, SettingsWriteSound DEF SettingsWrite, Current, Lagging
<1> QED  BY <1>1, <1>2, <1>3, ReadingSound, ShellSound DEF SingletonStep

LEMMA SingletonInvHolds == SingletonSpec => []SingletonInv
<1>1. ASSUME SingletonInv, UNCHANGED <<singletonVars, requestVars>>  PROVE SingletonInv'
  BY <1>1 DEF SingletonInv, SingletonTyped, ShopHeld, OneRowEach, Witnessed, Dated, OfLegacy,
              OfOwn, TheirDoc, singletonVars, requestVars
<1>2. SingletonInv /\ [SingletonStep]_<<singletonVars, requestVars>> => SingletonInv'
  BY <1>1, SingletonStepSound
<1> QED  BY <1>2, SingletonInitSound, PTL DEF SingletonSpec

(* Who reads the settings of a workshop by its id is answered what they were *)
(* at some moment of the request, however its two queries fall between the   *)
(* three of a save that moves the row (getCollectionItem, listCollectionItems *)
(* and upsertOrgSingletonCollectionItem).                                     *)
THEOREM SettingsReadCurrent == SingletonSpec => ReadsCurrent
<1>1. SingletonInv /\ [SingletonStep]_<<singletonVars, requestVars>> =>
        [Current]_<<singletonVars, requestVars>>
  BY SingletonStepSound
<1>2. SingletonSpec => [][Current]_<<singletonVars, requestVars>>
  BY <1>1, SingletonInvHolds, PTL DEF SingletonSpec
<1> QED  BY <1>2, PTL DEF ReadsCurrent, Current

(* What the studio's shell shows was the workshop's within the lifetime of   *)
(* its cache, also when two loads overlap a save (loadBranding).             *)
THEOREM ShellLags == SingletonSpec => ShellLagsALifetime
<1>1. SingletonInv /\ [SingletonStep]_<<singletonVars, requestVars>> =>
        [Lagging]_<<singletonVars, requestVars>>
  BY SingletonStepSound
<1>2. SingletonSpec => [][Lagging]_<<singletonVars, requestVars>>
  BY <1>1, SingletonInvHolds, PTL DEF SingletonSpec
<1> QED  BY <1>2, PTL DEF ShellLagsALifetime, Lagging

(***************************************************************************)
(* What is saved of the plans, and nothing else, changes what is sold,     *)
(* proved for any catalog, prices, bodies and row of either version.  A    *)
(* request works on the row it read.  What it has seen all the while was   *)
(* in that row too (Observed), so it is enough to compare the row it read  *)
(* with the one it writes.                                                 *)
(***************************************************************************)
Drafting == {"plans.count", "plans.write"}
Sending == Drafting \cup {"plans.read", "plans.update"}

Formed(r) ==
  /\ r.form # Null => r.code \in PlanCodes
  /\ r.kind = "POST" => r.form # Null

KnownCodes(s) == DOMAIN Plans(s) # {} /\ DOMAIN Plans(s) \subseteq PlanCodes

Observed(c) ==
  /\ pc[c] \in Sending => Formed(req[c])
  /\ pc[c] \in Drafting => KnownCodes(req[c].read) /\ held[c] \subseteq FactsOf(req[c].read)
  /\ pc[c] = "plans.update" => req[c].kind # "DELETE"
  /\ pc[c] = "plans.write" /\ req[c].kind = "DELETE" => DOMAIN Plans(req[c].read) # {req[c].code}

PlatformInv ==
  /\ pc = [c \in Clients |-> pc[c]]
  /\ req = [c \in Clients |-> req[c]]
  /\ KnownCodes(settings)
  /\ \A c \in Clients : Observed(c)

\* The plans of a row that was written are those of its catalog.
LEMMA PlansOfSaved ==
  ASSUME NEW s, NEW r, DOMAIN NewCatalog(Plans(s), r) # {}
  PROVE  Plans(Saved(s, r)) = NewCatalog(Plans(s), r)
<1>1. PICK k : k = NewCatalog(Plans(s), r)
  OBVIOUS
<1>2. k = [p \in DOMAIN k |-> k[p]]
  <2>1. PICK q : q = Plans(s) /\ q = [p \in DOMAIN q |-> q[p]]
    BY DEF Plans
  <2> QED  BY <1>1, <2>1 DEF NewCatalog, With, Left
<1>3. PICK t : t = Saved(s, r)
  OBVIOUS
<1>4. t.catalog = k /\ t.overrides = Nothing
  BY <1>1, <1>3 DEF Saved
<1>5. DOMAIN Nothing = {}
  BY DEF Nothing
<1>6. Plans(t) = [p \in DOMAIN k |-> k[p]]
  BY <1>1, <1>4, <1>5 DEF Plans
<1> QED  BY <1>1, <1>2, <1>3, <1>6

\* Some plan is left, and all are known ones.
LEMMA SomePlanLeft ==
  ASSUME NEW s, NEW r, KnownCodes(s), Formed(r),
         r.kind = "DELETE" => DOMAIN Plans(s) # {r.code}
  PROVE  /\ DOMAIN NewCatalog(Plans(s), r) # {}
         /\ DOMAIN NewCatalog(Plans(s), r) \subseteq PlanCodes
<1>1. PICK q : q = Plans(s)
  OBVIOUS
<1>2. DOMAIN q # {} /\ DOMAIN q \subseteq PlanCodes
  BY <1>1 DEF KnownCodes
<1>3. CASE r.kind = "DELETE"
  <2>1. DOMAIN NewCatalog(q, r) = DOMAIN q \ {r.code}
    BY <1>3 DEF NewCatalog, Left
  <2> QED  BY <1>1, <1>2, <1>3, <2>1
<1>4. CASE r.kind # "DELETE"
  <2>1. \/ NewCatalog(q, r) = q
        \/ DOMAIN NewCatalog(q, r) = DOMAIN q \cup {r.code} /\ r.code \in PlanCodes
    BY <1>4 DEF NewCatalog, With, Formed
  <2> QED  BY <1>1, <1>2, <2>1
<1> QED  BY <1>3, <1>4

\* A price that is not named stays.
LEMMA PriceStays ==
  ASSUME NEW s, NEW r, NEW p \in PlanCodes, <<"price", p>> \notin Names(r)
  PROVE  Price(Saved(s, r), p) = Price(s, p)
<1>1. PICK t : t = Saved(s, r)
  OBVIOUS
<1>2. PICK old : old = s.pricing
  OBVIOUS
<1>3. PICK new : new = t.pricing
  OBVIOUS
<1>4. new = NewPricing(s, r)
  BY <1>1, <1>3 DEF Saved
<1>5. /\ r.base = Null
      /\ p = r.code => r.mult = Null /\ r.kind \notin {"POST", "DELETE"}
  BY DEF Names
<1>6. new.base = old.base
  BY <1>2, <1>4, <1>5 DEF NewPricing, Given
<1>7. /\ p \in DOMAIN new.mult <=> p \in DOMAIN old.mult
      /\ p \in DOMAIN old.mult => new.mult[p] = old.mult[p]
  <2>1. CASE new.mult = old.mult
    BY <2>1
  <2>2. CASE new.mult = Multipliers(old.mult, r)
    <3>1. PICK m : m = old.mult
      OBVIOUS
    <3>2. PICK n : n = Multipliers(m, r)
      OBVIOUS
    <3>3. (p \in DOMAIN n <=> p \in DOMAIN m) /\ (p \in DOMAIN m => n[p] = m[p])
      <4>1. CASE r.kind = "DELETE"
        BY <1>5, <3>2, <4>1 DEF Multipliers, Left
      <4>2. CASE r.kind = "POST"
        BY <1>5, <3>2, <4>2 DEF Multipliers, With
      <4>3. CASE r.kind \notin {"POST", "DELETE"}
        <5>1. n = m \/ (p # r.code /\ n = With(m, r.code, r.mult))
          BY <1>5, <3>2, <4>3 DEF Multipliers
        <5> QED  BY <5>1 DEF With
      <4> QED  BY <4>1, <4>2, <4>3
    <3> QED  BY <2>2, <3>1, <3>2, <3>3
  <2>3. new.mult = old.mult \/ new.mult = Multipliers(old.mult, r)
    BY <1>2, <1>4 DEF NewPricing
  <2> QED  BY <2>1, <2>2, <2>3
<1>8. PICK mo : mo = Over(old.mult, EnvMultiplier)
  OBVIOUS
<1>9. PICK mn : mn = Over(new.mult, EnvMultiplier)
  OBVIOUS
<1>10. (p \in DOMAIN mn <=> p \in DOMAIN mo) /\ (p \in DOMAIN mo => mn[p] = mo[p])
  BY <1>7, <1>8, <1>9 DEF Over
<1>11. /\ Price(s, p) = Given(old.base, EnvBase) * (IF p \in DOMAIN mo THEN mo[p] ELSE 1)
       /\ Price(t, p) = Given(new.base, EnvBase) * (IF p \in DOMAIN mn THEN mn[p] ELSE 1)
  BY <1>2, <1>3, <1>8, <1>9 DEF Price
<1>12. (IF p \in DOMAIN mo THEN mo[p] ELSE 1) = (IF p \in DOMAIN mn THEN mn[p] ELSE 1)
  BY <1>10
<1> QED  BY <1>1, <1>6, <1>11, <1>12

\* What is so of a row is so of the one that a request works it into, unless
\* the request names it.
LEMMA UnnamedStays ==
  ASSUME NEW s, NEW r, KnownCodes(s), Formed(r),
         r.kind = "DELETE" => DOMAIN Plans(s) # {r.code},
         NEW f \in FactsOf(s), <<f[1], f[2]>> \notin Names(r)
  PROVE  f \in FactsOf(Saved(s, r))
<1>1. PICK q : q = Plans(s)
  OBVIOUS
<1>2. PICK t : t = Saved(s, r)
  OBVIOUS
<1>3. PICK k : k = NewCatalog(q, r)
  OBVIOUS
<1>4. Plans(t) = k
  BY <1>1, <1>2, <1>3, SomePlanLeft, PlansOfSaved
<1>5. ASSUME NEW p \in DOMAIN q
      PROVE  /\ p \in PlanCodes
             /\ p # r.code => p \in DOMAIN k /\ k[p] = q[p]
             /\ r.kind # "DELETE" => p \in DOMAIN k
             /\ r.kind # "DELETE" /\ r.form = Null => k = q
  <2>1. p \in PlanCodes
    BY <1>1, <1>5 DEF KnownCodes
  <2>2. CASE r.kind = "DELETE"
    BY <1>3, <1>5, <2>1, <2>2 DEF NewCatalog, Left
  <2>3. CASE r.kind # "DELETE"
    <3>1. \/ k = q
          \/ r.form # Null /\ \E v : k = With(q, r.code, v)
      BY <1>3, <2>3 DEF NewCatalog, Formed
    <3> QED  BY <1>5, <2>1, <2>3, <3>1 DEF With
  <2> QED  BY <2>2, <2>3
<1>6. CASE \E p \in DOMAIN q : f = <<"plan", p, q[p]>>
  <2>1. PICK p \in DOMAIN q : f = <<"plan", p, q[p]>>
    BY <1>6
  <2>2. p # r.code \/ (r.form = Null /\ r.kind # "DELETE")
    BY <2>1 DEF Names
  <2>3. p \in DOMAIN k /\ k[p] = q[p]
    BY <1>5, <2>2
  <2> QED  BY <1>2, <1>4, <2>1, <2>3 DEF FactsOf
<1>7. CASE \E p \in DOMAIN q : f = <<"price", p, Price(s, p)>>
  <2>1. PICK p \in DOMAIN q : f = <<"price", p, Price(s, p)>>
    BY <1>7
  <2>2. p \in PlanCodes /\ <<"price", p>> \notin Names(r)
    BY <1>5, <2>1
  <2>3. Price(t, p) = Price(s, p)
    BY <1>2, <2>2, PriceStays
  <2>4. p # r.code \/ r.kind # "DELETE"
    BY <2>2 DEF Names
  <2>5. p \in DOMAIN k
    BY <1>5, <2>4
  <2> QED  BY <1>2, <1>4, <2>1, <2>3, <2>5 DEF FactsOf
<1>8. CASE f = <<"trial", Null, TrialDays(s)>>
  <2>1. r.trial = Null
    BY <1>8 DEF Names
  <2>2. t.trial = s.trial
    BY <1>2, <2>1 DEF Saved, Given
  <2>3. TrialDays(t) = TrialDays(s)
    BY <2>2 DEF TrialDays
  <2> QED  BY <1>2, <1>8, <2>3 DEF FactsOf
<1>9. CASE f = <<"gst", Null, Gst(s)>>
  <2>1. r.gst = Null
    BY <1>9 DEF Names
  <2>2. t.gst = s.gst /\ t.pricing = NewPricing(s, r)
    BY <1>2, <2>1 DEF Saved, Given
  <2>3. NewPricing(s, r).gst = s.pricing.gst
    BY <2>1 DEF NewPricing, Given
  <2>4. Gst(t) = Gst(s)
    BY <2>2, <2>3 DEF Gst
  <2> QED  BY <1>2, <1>9, <2>4 DEF FactsOf
<1> QED  BY <1>1, <1>6, <1>7, <1>8, <1>9 DEF FactsOf

\* What a request has seen all the while is so in the row it has just read.
LEMMA ObservedWhenRead ==
  ASSUME PlatformInv, Hold, NEW c \in Clients, pc'[c] # "idle", settings' = settings
  PROVE  held'[c] \subseteq FactsOf(settings)
<1>1. PICK h : h = IF pc[c] = "idle" THEN Facts ELSE held[c]
  OBVIOUS
<1>2. held'[c] = Facts' \cap h
  BY <1>1 DEF Hold
<1>3. Facts' = FactsOf(settings)
  BY DEF Facts
<1> QED  BY <1>2, <1>3

LEMMA HeldShrinks ==
  ASSUME Hold, NEW c \in Clients, pc[c] # "idle"
  PROVE  held'[c] \subseteq held[c]
<1>1. held'[c] = IF pc'[c] = "idle" THEN {}
                 ELSE Facts' \cap (IF pc[c] = "idle" THEN Facts ELSE held[c])
  BY DEF Hold
<1> QED  BY <1>1

LEMMA PlatformInitSound == PlatformInit /\ RequestInit => PlatformInv
<1> SUFFICES ASSUME PlatformInit, RequestInit  PROVE PlatformInv
  OBVIOUS
<1>1. KnownCodes(settings)
  <2>1. /\ DOMAIN DefaultCatalog \subseteq PlanCodes /\ DOMAIN DefaultCatalog # {}
        /\ DOMAIN settings.catalog \cup DOMAIN settings.overrides \subseteq PlanCodes
    BY PlanAssumption DEF PlanAssumption, PlatformInit
  <2>2. PICK base : base = IF DOMAIN settings.catalog = {} THEN DefaultCatalog ELSE settings.catalog
    OBVIOUS
  <2>3. DOMAIN Plans(settings) = DOMAIN base \cup DOMAIN settings.overrides
    BY <2>2 DEF Plans
  <2>4. DOMAIN base # {} /\ DOMAIN base \subseteq PlanCodes
    BY <2>1, <2>2
  <2> QED  BY <2>1, <2>3, <2>4 DEF KnownCodes
<1>2. \A c \in Clients : pc[c] = "idle"
  BY DEF RequestInit
<1> QED  BY <1>1, <1>2 DEF PlatformInv, RequestInit, Observed, Sending, Drafting

\* What remains to be shown of a step of c.
LEMMA PlatformMoves ==
  ASSUME PlatformInv, Hold, NEW c \in Clients, Observed(c)', KnownCodes(settings'),
         pc' = [pc EXCEPT ![c] = pc'[c]], req' = [req EXCEPT ![c] = req'[c]]
  PROVE  PlatformInv'
<1>1. /\ pc' = [d \in Clients |-> pc'[d]] /\ req' = [d \in Clients |-> req'[d]]
      /\ \A d \in Clients \ {c} : pc'[d] = pc[d] /\ req'[d] = req[d] /\ Observed(d)
  BY DEF PlatformInv
<1>2. ASSUME NEW d \in Clients \ {c}  PROVE Observed(d)'
  <2>1. pc[d] \in Drafting => held'[d] \subseteq held[d]
    BY HeldShrinks DEF Drafting
  <2> QED  BY <1>1, <2>1 DEF Observed, KnownCodes
<1> QED  BY <1>1, <1>2 DEF PlatformInv, KnownCodes

\* The row that a request is about to write.
LEMMA RowToWrite ==
  ASSUME PlatformInv, NEW c \in Clients, WritePlans(c)
  PROVE  /\ Formed(req[c]) /\ KnownCodes(req[c].read)
         /\ req[c].kind = "DELETE" => DOMAIN Plans(req[c].read) # {req[c].code}
         /\ held[c] \subseteq FactsOf(req[c].read)
         /\ settings' = Saved(req[c].read, req[c])
         /\ Plans(settings') = NewCatalog(Plans(req[c].read), req[c])
         /\ KnownCodes(settings')
<1>1. PICK r : r = req[c]
  OBVIOUS
<1>2. /\ Formed(r) /\ KnownCodes(r.read)
      /\ r.kind = "DELETE" => DOMAIN Plans(r.read) # {r.code}
      /\ held[c] \subseteq FactsOf(r.read)
      /\ settings' = Saved(r.read, r)
  BY <1>1 DEF PlatformInv, WritePlans, Observed, Sending, Drafting
<1>3. PICK s : s = r.read
  OBVIOUS
<1>4. /\ DOMAIN NewCatalog(Plans(s), r) # {} /\ DOMAIN NewCatalog(Plans(s), r) \subseteq PlanCodes
  BY <1>2, <1>3, SomePlanLeft
<1>5. Plans(Saved(s, r)) = NewCatalog(Plans(s), r)
  BY <1>4, PlansOfSaved
<1>6. Plans(settings') = NewCatalog(Plans(s), r)
  BY <1>2, <1>3, <1>5
<1>7. KnownCodes(settings')
  BY <1>4, <1>6 DEF KnownCodes
<1> QED  BY <1>1, <1>2, <1>3, <1>6, <1>7

LEMMA PlatformStepSound ==
  ASSUME PlatformInv, PlatformStep
  PROVE  PlatformInv'
<1> USE DEF Arrive, Goto, Answer
<1>0. /\ Hold /\ KnownCodes(settings) /\ \A c \in Clients : Observed(c)
      /\ pc = [d \in Clients |-> pc[d]] /\ req = [d \in Clients |-> req[d]]
  BY DEF PlatformInv, PlatformStep
<1> PICK c \in Clients :
       \/ SendPlans(c) \/ SendSettings(c) \/ ReadPlans(c)
       \/ UpdatePlans(c) \/ CountPlans(c) \/ WritePlans(c)
       \/ Provision(c) \/ ProvisionPlan(c) \/ ProvisionInsert(c)
       \/ MoveStudio(c) \/ MovePlan(c) \/ MoveWrite(c)
  BY DEF PlatformStep
<1>1. pc' = [pc EXCEPT ![c] = pc'[c]] /\ req' = [req EXCEPT ![c] = req'[c]]
  BY <1>0 DEF SendPlans, SendSettings, ReadPlans, UpdatePlans, CountPlans, WritePlans, Provision,
              ProvisionPlan, ProvisionInsert, MoveStudio, MovePlan, MoveWrite
<1>2. ASSUME pc'[c] \notin Sending, settings' = settings  PROVE PlatformInv'
  <2>1. Observed(c)'
    BY <1>2 DEF Observed, Sending, Drafting
  <2> QED  BY <1>0, <1>1, <1>2, <2>1, PlatformMoves
<1>3. CASE SendPlans(c) \/ SendSettings(c)
  <2>1. PICK r \in PlanRequests :
          /\ req'[c] = Body(r, r.form, Null) /\ pc'[c] \in {"plans.read", "plans.update"}
          /\ pc'[c] = "plans.update" => r.kind = "SETTINGS"
          /\ settings' = settings
    BY <1>0, <1>3 DEF SendPlans, SendSettings
  <2>2. Formed(req'[c]) /\ req'[c].kind = r.kind
    BY <2>1, PlanAssumption DEF PlanAssumption, Formed, Body
  <2>3. Observed(c)'
    BY <2>1, <2>2 DEF Observed, Sending, Drafting
  <2> QED  BY <1>0, <1>1, <2>1, <2>3, PlatformMoves
<1>4. CASE ReadPlans(c) \/ UpdatePlans(c)
  <2>1. /\ Formed(req[c]) /\ settings' = settings
        /\ UpdatePlans(c) => req[c].kind # "DELETE"
    BY <1>0, <1>4 DEF ReadPlans, UpdatePlans, Observed, Sending
  <2>2. CASE pc'[c] = "idle"
    BY <1>2, <2>1, <2>2 DEF Sending, Drafting
  <2>3. CASE pc'[c] = "plans.update"
    <3>1. /\ req'[c] = Body(req[c], req[c].form, Null) \/ req'[c] = Body(req[c], Null, Null)
          /\ req[c].kind = "PUT"
      BY <1>0, <1>4, <2>3 DEF ReadPlans, UpdatePlans
    <3>2. Formed(req'[c]) /\ req'[c].kind = "PUT"
      BY <2>1, <3>1 DEF Formed, Body
    <3>3. Observed(c)'
      BY <2>3, <3>2 DEF Observed, Sending, Drafting
    <3> QED  BY <1>0, <1>1, <2>1, <3>3, PlatformMoves
  <2>4. CASE pc'[c] \in Drafting
    <3>1. /\ req'[c] = Body(req[c], req[c].form, settings)
          /\ pc'[c] = "plans.write" => req[c].kind # "DELETE"
      BY <1>0, <1>4, <2>1, <2>4 DEF ReadPlans, UpdatePlans, Drafting
    <3>2. Formed(req'[c]) /\ req'[c].read = settings /\ req'[c].kind = req[c].kind
      BY <2>1, <3>1 DEF Formed, Body
    <3>3. held'[c] \subseteq FactsOf(settings)
      BY <1>0, <2>1, <2>4, ObservedWhenRead DEF Drafting
    <3>4. Observed(c)'
      BY <1>0, <2>4, <3>1, <3>2, <3>3 DEF Observed, Sending, Drafting, KnownCodes
    <3> QED  BY <1>0, <1>1, <2>1, <3>4, PlatformMoves
  <2>5. pc'[c] \in {"idle", "plans.update"} \cup Drafting
    BY <1>0, <1>4 DEF ReadPlans, UpdatePlans, Drafting
  <2> QED  BY <2>2, <2>3, <2>4, <2>5
<1>5. CASE CountPlans(c)
  <2>1. CASE pc'[c] = "idle"
    BY <1>2, <1>5, <2>1 DEF CountPlans, Sending, Drafting
  <2>2. CASE pc'[c] # "idle"
    <3>1. /\ pc[c] = "plans.count" /\ pc'[c] = "plans.write" /\ req'[c] = req[c]
          /\ DOMAIN Plans(req[c].read) # {req[c].code} /\ settings' = settings
      BY <1>0, <1>5, <2>2 DEF CountPlans
    <3>2. held'[c] \subseteq held[c]
      BY <1>0, <3>1, HeldShrinks
    <3>3. Observed(c)'
      BY <1>0, <3>1, <3>2 DEF Observed, Sending, Drafting, KnownCodes
    <3> QED  BY <1>0, <1>1, <3>1, <3>3, PlatformMoves
  <2> QED  BY <2>1, <2>2
<1>6. CASE WritePlans(c)
  <2>1. pc'[c] = "idle"
    BY <1>0, <1>6 DEF WritePlans
  <2>2. Observed(c)'
    BY <2>1 DEF Observed, Sending, Drafting
  <2>3. KnownCodes(settings')
    BY <1>6, RowToWrite
  <2> QED  BY <1>0, <1>1, <2>2, <2>3, PlatformMoves
<1>7. CASE \/ Provision(c) \/ ProvisionPlan(c) \/ ProvisionInsert(c)
           \/ MoveStudio(c) \/ MovePlan(c) \/ MoveWrite(c)
  <2>1. pc'[c] \notin Sending /\ settings' = settings
    BY <1>0, <1>7 DEF Provision, ProvisionPlan, ProvisionInsert, MoveStudio, MovePlan, MoveWrite,
                      Sending, Drafting
  <2> QED  BY <1>2, <2>1
<1> QED  BY <1>3, <1>4, <1>5, <1>6, <1>7

LEMMA PlatformInvHolds == PlatformSpec => []PlatformInv
<1>1. ASSUME PlatformInv, UNCHANGED <<platformVars, requestVars>>  PROVE PlatformInv'
  BY <1>1 DEF PlatformInv, Observed, platformVars, requestVars, KnownCodes
<1>2. PlatformInv /\ [PlatformStep]_<<platformVars, requestVars>> => PlatformInv'
  BY <1>1, PlatformStepSound
<1> QED  BY <1>2, PlatformInitSound, PTL DEF PlatformSpec

\* Who ends a request about the plans with a write has made that write.
LEMMA OneWriter ==
  ASSUME PlatformInv, PlatformStep, NEW c \in Clients, Writes(c)
  PROVE  WritePlans(c)
<1> USE DEF Arrive, Goto, Answer
<1>1. PICK d \in Clients :
       \/ SendPlans(d) \/ SendSettings(d) \/ ReadPlans(d)
       \/ UpdatePlans(d) \/ CountPlans(d) \/ WritePlans(d)
       \/ Provision(d) \/ ProvisionPlan(d) \/ ProvisionInsert(d)
       \/ MoveStudio(d) \/ MovePlan(d) \/ MoveWrite(d)
  BY DEF PlatformStep
<1>2. pc = [e \in Clients |-> pc[e]] /\ pc[c] = "plans.write" /\ pc'[c] = "idle"
  BY DEF PlatformInv, Writes
<1>3. pc' = [pc EXCEPT ![d] = pc'[d]]
  BY <1>1, <1>2 DEF SendPlans, SendSettings, ReadPlans, UpdatePlans, CountPlans, WritePlans,
                    Provision, ProvisionPlan, ProvisionInsert, MoveStudio, MovePlan, MoveWrite
<1>4. d = c
  BY <1>2, <1>3
<1> QED
  BY <1>1, <1>2, <1>4 DEF SendPlans, SendSettings, ReadPlans, UpdatePlans, CountPlans,
     Provision, ProvisionPlan, ProvisionInsert, MoveStudio, MovePlan, MoveWrite

(* A request about plans, prices or defaults that writes the whole row leaves *)
(* what it does not name and nobody changed meanwhile as it was, whichever    *)
(* version the row had (updatePlatformSettings, updatePlatformPlan).          *)
THEOREM OnlyNamed == PlatformSpec => OnlyNamedChanges
<1> DEFINE A == \A c \in Clients : Writes(c) =>
                  \A f \in held[c] : f \in Facts' \/ <<f[1], f[2]>> \in Names(req[c])
<1>1. ASSUME PlatformInv, PlatformStep  PROVE A
  <2> SUFFICES ASSUME NEW c \in Clients, Writes(c), NEW f \in held[c],
                      <<f[1], f[2]>> \notin Names(req[c])
               PROVE  f \in Facts'
    OBVIOUS
  <2>1. PICK r : r = req[c]
    OBVIOUS
  <2>2. PICK s : s = r.read
    OBVIOUS
  <2>3. /\ Formed(r) /\ KnownCodes(s) /\ (r.kind = "DELETE" => DOMAIN Plans(s) # {r.code})
        /\ f \in FactsOf(s) /\ settings' = Saved(s, r)
    BY <1>1, <2>1, <2>2, OneWriter, RowToWrite
  <2>4. f \in FactsOf(Saved(s, r))
    BY <2>1, <2>3, UnnamedStays
  <2>5. Facts' = FactsOf(settings')
    BY DEF Facts
  <2> QED  BY <2>3, <2>4, <2>5
<1>2. ASSUME UNCHANGED <<platformVars, requestVars>>  PROVE UNCHANGED <<pc, settings, planOf>>
  BY <1>2 DEF platformVars, requestVars
<1>3. PlatformInv /\ [PlatformStep]_<<platformVars, requestVars>> => [A]_<<pc, settings, planOf>>
  BY <1>1, <1>2
<1>4. PlatformSpec => [][A]_<<pc, settings, planOf>>
  BY <1>3, PlatformInvHolds, PTL DEF PlatformSpec
<1> QED  BY <1>4, PTL DEF OnlyNamedChanges

(* What was saved of a plan is what is read of it from then on, and a deleted *)
(* plan is gone, whatever a row of the older version had overridden           *)
(* (createPlatformPlan, updatePlatformPlan, deletePlatformPlan).              *)
THEOREM SavedIsRead == PlatformSpec => SavedPlanIsRead
<1> DEFINE A == \A c \in Clients : Writes(c) =>
                  LET r == req[c]  plans == Plans(settings') IN
                  IF r.kind = "DELETE" THEN r.code \notin DOMAIN plans
                  ELSE r.form # Null =>
                         /\ r.code \in DOMAIN plans
                         /\ \A f \in DOMAIN r.form : plans[r.code][f] = r.form[f]
<1>1. ASSUME PlatformInv, PlatformStep  PROVE A
  <2> SUFFICES ASSUME NEW c \in Clients, Writes(c)
               PROVE  LET r == req[c]  plans == Plans(settings') IN
                      IF r.kind = "DELETE" THEN r.code \notin DOMAIN plans
                      ELSE r.form # Null =>
                             /\ r.code \in DOMAIN plans
                             /\ \A f \in DOMAIN r.form : plans[r.code][f] = r.form[f]
    OBVIOUS
  <2>1. PICK r : r = req[c]
    OBVIOUS
  <2>2. PICK q : q = Plans(r.read)
    OBVIOUS
  <2>3. PICK k : k = Plans(settings')
    OBVIOUS
  <2>4. k = NewCatalog(q, r)
    BY <1>1, <2>1, <2>2, <2>3, OneWriter, RowToWrite
  <2>5. CASE r.kind = "DELETE"
    BY <2>1, <2>3, <2>4, <2>5 DEF NewCatalog, Left
  <2>6. CASE r.kind # "DELETE"
    <3>1. ASSUME r.form # Null
          PROVE  r.code \in DOMAIN k /\ \A f \in DOMAIN r.form : k[r.code][f] = r.form[f]
      <4>1. PICK old : k = With(q, r.code, Over(r.form, old))
        BY <2>4, <2>6, <3>1 DEF NewCatalog
      <4>2. r.code \in DOMAIN k /\ k[r.code] = Over(r.form, old)
        BY <4>1 DEF With
      <4>3. \A f \in DOMAIN r.form : Over(r.form, old)[f] = r.form[f]
        BY DEF Over
      <4> QED  BY <4>2, <4>3
    <3> QED  BY <2>1, <2>3, <2>6, <3>1
  <2> QED  BY <2>5, <2>6
<1>2. ASSUME UNCHANGED <<platformVars, requestVars>>  PROVE UNCHANGED <<pc, settings>>
  BY <1>2 DEF platformVars, requestVars
<1>3. PlatformInv /\ [PlatformStep]_<<platformVars, requestVars>> => [A]_<<pc, settings>>
  BY <1>1, <1>2
<1>4. PlatformSpec => [][A]_<<pc, settings>>
  BY <1>3, PlatformInvHolds, PTL DEF PlatformSpec
<1> QED  BY <1>4, PTL DEF SavedPlanIsRead

-----------------------------------------------------------------------------
(***************************************************************************)
(* A party's statements reach its balance, proved for any customers,       *)
(* vendors, amounts and days.  The two halves of a year add up because     *)
(* every document and every payment falls into one of them and nothing is  *)
(* paid beyond its amount (Sound), which paying keeps.  The statement      *)
(* handed to the public starts from the same row as the list's, since only *)
(* the list's entry C(k) is a customer's named k (ListedCustomers): what   *)
(* completes a party was read from the list under the same id (RowFits).   *)
(***************************************************************************)
LEMMA AboveZero == \A x \in Int : Max({0, x}) = IF x < 0 THEN 0 ELSE x
<1> SUFFICES ASSUME NEW x \in Int  PROVE Max({0, x}) = IF x < 0 THEN 0 ELSE x
  OBVIOUS
<1>1. PICK m : m = IF x < 0 THEN 0 ELSE x
  OBVIOUS
<1>2. m \in {0, x} /\ \A y \in {0, x} : m >= y
  BY <1>1
<1>3. Max({0, x}) \in {0, x} /\ \A y \in {0, x} : Max({0, x}) >= y
  BY <1>2 DEF Max
<1> QED  BY <1>1, <1>3

\* What is paid of a document, and what is left of it.
LEMMA Payable ==
  ASSUME NEW invs, NEW exps, Sound(invs, exps), NEW i \in invs
  PROVE  /\ Paid(i.payments) \in Nat /\ i.wallet \in Nat /\ i.total \in Nat /\ i.day \in LedgerDays
         /\ Collected(i) = Paid(i.payments) + i.wallet
         /\ Outstanding(i) \in Nat /\ Outstanding(i) = i.total - Paid(i.payments) - i.wallet
         /\ i.payments \subseteq Payment /\ IsFiniteSet(i.payments)
         /\ i.customer \in PartyCustomers
<1>1. /\ i \in Invoice /\ IsFiniteSet(i.payments) /\ Collected(i) <= i.total
  BY DEF Sound
<1>2. /\ i.wallet \in Nat /\ i.total \in Nat /\ i.day \in LedgerDays
      /\ i.payments \subseteq Payment /\ i.customer \in PartyCustomers
  BY <1>1 DEF Invoice
<1> DEFINE f == [x \in i.payments |-> x.amount]
<1>3. \A x \in i.payments : f[x] \in Nat
  BY <1>2 DEF Payment
<1>4. SumFunctionOnSet(f, i.payments) \in Nat
  <2> HIDE DEF f
  <2> QED  BY <1>1, <1>3, SumIsNat
<1>5. Paid(i.payments) \in Nat
  BY <1>4 DEF Paid, SumFunction
<1>6. Collected(i) = Paid(i.payments) + i.wallet
  BY DEF Collected
<1>7. PICK rest \in Int : rest = i.total - Collected(i)
  BY <1>2, <1>5, <1>6
<1>8. Outstanding(i) = rest /\ rest >= 0
  BY <1>1, <1>2, <1>5, <1>6, <1>7, AboveZero DEF Outstanding
<1> QED  BY <1>1, <1>2, <1>5, <1>6, <1>7, <1>8

LEMMA Spent ==
  ASSUME NEW invs, NEW exps, Sound(invs, exps), NEW e \in exps
  PROVE  /\ e.amount \in Nat /\ e.day \in LedgerDays
         /\ PaidOut(e) \in Nat /\ Unpaid(e) = e.amount - PaidOut(e)
         /\ e.status = "UNPAID" => PaidOut(e) = 0
<1>1. e \in Expense /\ e.paid <= e.amount /\ (e.status = "UNPAID" => e.paid = 0)
  BY DEF Sound
<1>2. e.amount \in Nat /\ e.paid \in Nat /\ e.day \in LedgerDays
  BY <1>1 DEF Expense
<1>3. e.amount - e.paid \in Int /\ ~(e.amount - e.paid < 0)
  BY <1>1, <1>2
<1>4. Max({0, e.amount - e.paid}) = e.amount - e.paid
  BY <1>3, AboveZero
<1> QED  BY <1>1, <1>2, <1>4 DEF PaidOut, Unpaid

\* Paying what an invoice lacks pays no more than its amount.
LEMMA PaymentSound ==
  ASSUME NEW invs, NEW exps, Sound(invs, exps), NEW i \in invs, NEW day \in LedgerDays,
         NEW j, j = [i EXCEPT !.payments = @ \cup {[day |-> day, amount |-> Outstanding(i)]}]
  PROVE  Sound((invs \ {i}) \cup {j}, exps)
<1>1. /\ Paid(i.payments) \in Nat /\ i.wallet \in Nat /\ i.total \in Nat
      /\ Outstanding(i) \in Nat /\ Outstanding(i) = i.total - Paid(i.payments) - i.wallet
      /\ i.payments \subseteq Payment /\ IsFiniteSet(i.payments)
  BY Payable
<1>2. PICK x \in Payment : x = [day |-> day, amount |-> Outstanding(i)]
  BY <1>1 DEF Payment
<1>3. PICK all : all = i.payments \cup {x}
  OBVIOUS
<1>4. i \in Invoice
  BY DEF Sound
<1>5. /\ j \in Invoice /\ j.payments = all /\ j.wallet = i.wallet /\ j.total = i.total
  BY <1>1, <1>2, <1>3, <1>4 DEF Invoice
<1>6. IsFiniteSet(all) /\ all \subseteq Payment
  BY <1>1, <1>2, <1>3, FS_AddElement
<1>7. Paid(all) \in Nat /\ Paid(all) <= Paid(i.payments) + x.amount
  <2> DEFINE f == [y \in all |-> y.amount]
             g == [y \in i.payments |-> y.amount]
  <2>1. \A y \in all : f[y] \in Nat
    BY <1>6 DEF Payment
  <2>2. Paid(all) = SumFunctionOnSet(f, all) /\ Paid(i.payments) = SumFunctionOnSet(g, i.payments)
    BY DEF Paid, SumFunction
  <2>3. \A y \in i.payments : f[y] = g[y]
    BY <1>3
  <2>4. f[x] = x.amount
    BY <1>3
  <2> HIDE DEF f, g
  <2>5. SumFunctionOnSet(f, i.payments) = SumFunctionOnSet(g, i.payments)
    BY <1>1, <2>3, SumSame
  <2>6. SumFunctionOnSet(f, all) \in Nat
    BY <1>6, <2>1, SumIsNat
  <2>a. PICK a \in Nat, b \in Nat, n \in Nat :
          /\ a = Paid(all) /\ a = SumFunctionOnSet(f, all)
          /\ b = Paid(i.payments) /\ b = SumFunctionOnSet(f, i.payments)
          /\ n = x.amount
    BY <1>1, <1>2, <2>2, <2>5, <2>6 DEF Payment
  <2>7. CASE x \in i.payments
    <3>1. all = i.payments
      BY <1>3, <2>7
    <3>2. a = b
      BY <2>a, <3>1
    <3> QED  BY <2>a, <3>2
  <2>8. CASE x \notin i.payments
    <3>1. SumFunctionOnSet(f, all) = f[x] + SumFunctionOnSet(f, all \ {x})
      BY <1>3, <1>6, <2>1, SumRemove
    <3>2. all \ {x} = i.payments
      BY <1>3, <2>8
    <3>3. a = n + b
      BY <2>a, <2>4, <3>1, <3>2
    <3> QED  BY <2>a, <3>3
  <2> QED  BY <2>7, <2>8
<1>8. x.amount = Outstanding(i)
  BY <1>2
<1>9. Collected(j) <= j.total
  <2>1. PICK a \in Nat, b \in Nat, n \in Nat, w \in Nat, m \in Nat :
          /\ a = Paid(all) /\ b = Paid(i.payments) /\ n = x.amount /\ w = j.wallet /\ m = j.total
    BY <1>1, <1>5, <1>7, <1>8
  <2>2. a <= b + n /\ n = m - b - w
    BY <1>1, <1>5, <1>7, <1>8, <2>1
  <2>3. Collected(j) = a + w
    BY <1>5, <2>1 DEF Collected
  <2> QED  BY <2>1, <2>2, <2>3
<1>10. IsFiniteSet((invs \ {i}) \cup {j})
  <2>1. IsFiniteSet(invs \ {i})
    BY FS_Subset DEF Sound
  <2> QED  BY <2>1, FS_AddElement
<1> QED  BY <1>5, <1>6, <1>9, <1>10 DEF Sound

\* Paying an expense off does not either.
LEMMA ExpenseSound ==
  ASSUME NEW invs, NEW exps, Sound(invs, exps), NEW e \in exps
  PROVE  Sound(invs, (exps \ {e}) \cup {[e EXCEPT !.status = "PAID"]})
<1>1. PICK g : g = [e EXCEPT !.status = "PAID"]
  OBVIOUS
<1>2. e \in Expense /\ e.paid <= e.amount
  BY DEF Sound
<1>3. g \in Expense /\ g.paid = e.paid /\ g.amount = e.amount /\ g.status = "PAID"
  BY <1>1, <1>2 DEF Expense
<1>4. IsFiniteSet((exps \ {e}) \cup {g})
  <2>1. IsFiniteSet(exps \ {e})
    BY FS_Subset DEF Sound
  <2> QED  BY <2>1, FS_AddElement
<1> QED  BY <1>1, <1>2, <1>3, <1>4 DEF Sound

\* The wallet's part of an invoice is dated by one of its days.
LEMMA WalletDated ==
  ASSUME NEW invs, NEW exps, Sound(invs, exps), NEW i \in invs
  PROVE  WalletDay(i) \in LedgerDays
<1>1. i.day \in LedgerDays /\ i.payments \subseteq Payment /\ IsFiniteSet(i.payments)
  BY Payable
<1>2. PICK days : days = {x.day : x \in i.payments}
  OBVIOUS
<1>3. days \subseteq LedgerDays /\ days \subseteq Nat
  BY <1>1, <1>2, PartyAssumption DEF Payment, PartyAssumption
<1>4. IsFiniteSet(days)
  <2> DEFINE f == [x \in i.payments |-> x.day]
  <2>1. f \in Surjection(i.payments, days)
    BY <1>2 DEF Surjection
  <2> HIDE DEF f
  <2> QED  BY <1>1, <2>1, FS_Surjection
<1>5. CASE i.payments # {}
  <2>1. days # {}
    BY <1>2, <1>5
  <2>2. PICK x \in days : \A y \in days : x >= y
    BY <1>3, <1>4, <2>1, Greatest
  <2>3. Max(days) \in days
    BY <2>2 DEF Max
  <2> QED  BY <1>2, <1>3, <1>5, <2>3 DEF WalletDay
<1> QED  BY <1>1, <1>5 DEF WalletDay

Upto(d) == {x \in LedgerDays : x <= d}
After(d) == LedgerDays \ Upto(d)

\* What a function of a party's documents adds up to.
Sum(f) == SumFunctionOnSet(f, DOMAIN f)

Totals(docs) == [i \in docs |-> i.total]
Payments(docs) == [i \in docs |-> Paid(i.payments)]
Wallets(docs) == [i \in docs |-> i.wallet]
Owings(docs) == [e \in docs |-> e.amount - PaidOut(e)]

LEMMA SumsAreInts ==
  ASSUME NEW f, IsFiniteSet(DOMAIN f), \A x \in DOMAIN f : f[x] \in Int
  PROVE  Sum(f) \in Int
<1>1. PICK S : S = DOMAIN f
  OBVIOUS
<1>2. SumFunctionOnSet(f, S) \in Int
  BY <1>1, SumIsInt
<1> QED  BY <1>1, <1>2 DEF Sum

\* The documents of a party and their sums.
LEMMA PartySums ==
  ASSUME NEW invs, NEW exps, Sound(invs, exps), NEW I \in SUBSET invs, NEW E \in SUBSET exps
  PROVE  /\ IsFiniteSet(I) /\ IsFiniteSet(E)
         /\ \A i \in I : Totals(I)[i] \in Int /\ Payments(I)[i] \in Int /\ Wallets(I)[i] \in Int
         /\ \A e \in E : Owings(E)[e] \in Int
         /\ Sum(Totals(I)) \in Int /\ Sum(Payments(I)) \in Int /\ Sum(Wallets(I)) \in Int
         /\ Sum(Owings(E)) \in Int
<1>1. IsFiniteSet(I) /\ IsFiniteSet(E)
  BY FS_Subset DEF Sound
<1>2. \A i \in I : Totals(I)[i] \in Int /\ Payments(I)[i] \in Int /\ Wallets(I)[i] \in Int
  <2> TAKE i \in I
  <2>1. Paid(i.payments) \in Nat /\ i.wallet \in Nat /\ i.total \in Nat
    BY Payable
  <2> QED  BY <2>1 DEF Totals, Payments, Wallets
<1>3. \A e \in E : Owings(E)[e] \in Int
  <2> TAKE e \in E
  <2>1. e.amount \in Nat /\ PaidOut(e) \in Nat
    BY Spent
  <2> QED  BY <2>1 DEF Owings
<1>4. /\ DOMAIN Totals(I) = I /\ DOMAIN Payments(I) = I /\ DOMAIN Wallets(I) = I
      /\ DOMAIN Owings(E) = E
  BY DEF Totals, Payments, Wallets, Owings
<1>5. Sum(Totals(I)) \in Int /\ Sum(Payments(I)) \in Int /\ Sum(Wallets(I)) \in Int
  BY <1>1, <1>2, <1>4, SumsAreInts
<1>6. Sum(Owings(E)) \in Int
  BY <1>1, <1>3, <1>4, SumsAreInts
<1> QED  BY <1>1, <1>2, <1>3, <1>5, <1>6

\* What a part of the documents and what the others add up to.
LEMMA SumsOfCut ==
  ASSUME NEW I, IsFiniteSet(I), NEW f, DOMAIN f = I, \A i \in I : f[i] \in Int,
         NEW A \in SUBSET I, NEW F, NEW G, DOMAIN F = A, \A i \in A : F[i] = f[i],
         DOMAIN G = I \ A, \A i \in I \ A : G[i] = f[i]
  PROVE  /\ SumFunction(F) \in Int /\ SumFunction(G) \in Int
         /\ SumFunction(F) + SumFunction(G) = Sum(f)
<1>1. SumFunction(F) + SumFunction(G) = SumFunctionOnSet(f, I)
  BY SumCut
<1>2. IsFiniteSet(A) /\ IsFiniteSet(I \ A)
  BY FS_Subset
<1>3. (\A i \in A : F[i] \in Int) /\ (\A i \in I \ A : G[i] \in Int)
  OBVIOUS
<1>4. Sum(F) \in Int /\ Sum(G) \in Int
  BY <1>2, <1>3, SumsAreInts
<1> QED  BY <1>1, <1>4 DEF Sum, SumFunction

\* The documents of a year fall on a day up to d or after it.
LEMMA YearCut ==
  ASSUME NEW docs, \A x \in docs : x.day \in LedgerDays, NEW d
  PROVE  Within(docs, Upto(d)) \in SUBSET docs /\ Within(docs, After(d)) = docs \ Within(docs, Upto(d))
BY DEF Within, Upto, After

\* What is sold by a day and after it.
LEMMA SoldCut ==
  ASSUME NEW invs, NEW exps, Sound(invs, exps), NEW I \in SUBSET invs, NEW d
  PROVE  LET F == [i \in Within(I, Upto(d)) |-> i.total]
             G == [i \in Within(I, After(d)) |-> i.total] IN
         /\ SumFunction(F) \in Int /\ SumFunction(G) \in Int
         /\ SumFunction(F) + SumFunction(G) = Sum(Totals(I))
<1>1. IsFiniteSet(I) /\ \A i \in I : Totals(I)[i] \in Int
  <2>1. {} \in SUBSET exps
    OBVIOUS
  <2> QED  BY <2>1, PartySums
<1>2. \A i \in I : i.day \in LedgerDays
  BY Payable
<1>3. PICK A \in SUBSET I : A = Within(I, Upto(d)) /\ Within(I, After(d)) = I \ A
  BY <1>2, YearCut
<1>4. PICK F, G : F = [i \in A |-> i.total] /\ G = [i \in I \ A |-> i.total]
  OBVIOUS
<1>5. PICK f : f = Totals(I)
  OBVIOUS
<1>6. /\ DOMAIN f = I /\ DOMAIN F = A /\ \A i \in A : F[i] = f[i]
      /\ DOMAIN G = I \ A /\ \A i \in I \ A : G[i] = f[i]
  BY <1>4, <1>5 DEF Totals
<1>7. \A i \in I : f[i] \in Int
  BY <1>1, <1>5
<1>8. /\ SumFunction(F) \in Int /\ SumFunction(G) \in Int
      /\ SumFunction(F) + SumFunction(G) = Sum(f)
  <2>1. IsFiniteSet(I) /\ A \in SUBSET I
    BY <1>1
  <2> QED  BY <1>6, <1>7, <2>1, SumsOfCut
<1> QED  BY <1>3, <1>4, <1>5, <1>8

\* What remains of expenses of those days.
LEMMA OwingCut ==
  ASSUME NEW invs, NEW exps, Sound(invs, exps), NEW E \in SUBSET exps, NEW d
  PROVE  LET F == [e \in Within(E, Upto(d)) |-> e.amount - PaidOut(e)]
             G == [e \in Within(E, After(d)) |-> e.amount - PaidOut(e)] IN
         /\ SumFunction(F) \in Int /\ SumFunction(G) \in Int
         /\ SumFunction(F) + SumFunction(G) = Sum(Owings(E))
<1>1. IsFiniteSet(E) /\ \A e \in E : Owings(E)[e] \in Int
  <2>1. {} \in SUBSET invs
    OBVIOUS
  <2> QED  BY <2>1, PartySums
<1>2. \A e \in E : e.day \in LedgerDays
  BY Spent
<1>3. PICK A \in SUBSET E : A = Within(E, Upto(d)) /\ Within(E, After(d)) = E \ A
  BY <1>2, YearCut
<1>4. PICK F, G : F = [e \in A |-> e.amount - PaidOut(e)] /\ G = [e \in E \ A |-> e.amount - PaidOut(e)]
  OBVIOUS
<1>5. PICK f : f = Owings(E)
  OBVIOUS
<1>6. /\ DOMAIN f = E /\ DOMAIN F = A /\ \A i \in A : F[i] = f[i]
      /\ DOMAIN G = E \ A /\ \A i \in E \ A : G[i] = f[i]
  BY <1>4, <1>5 DEF Owings
<1>7. \A i \in E : f[i] \in Int
  BY <1>1, <1>5
<1>8. /\ SumFunction(F) \in Int /\ SumFunction(G) \in Int
      /\ SumFunction(F) + SumFunction(G) = Sum(f)
  <2>1. IsFiniteSet(E) /\ A \in SUBSET E
    BY <1>1
  <2> QED  BY <1>6, <1>7, <2>1, SumsOfCut
<1> QED  BY <1>3, <1>4, <1>5, <1>8

\* What the wallet paid, by the day it is dated with.
LEMMA WalletCut ==
  ASSUME NEW invs, NEW exps, Sound(invs, exps), NEW I \in SUBSET invs, NEW d
  PROVE  LET F == [i \in {j \in I : WalletDay(j) \in Upto(d)} |-> i.wallet]
             G == [i \in {j \in I : WalletDay(j) \in After(d)} |-> i.wallet] IN
         /\ SumFunction(F) \in Int /\ SumFunction(G) \in Int
         /\ SumFunction(F) + SumFunction(G) = Sum(Wallets(I))
<1>1. IsFiniteSet(I) /\ \A i \in I : Wallets(I)[i] \in Int
  <2>1. {} \in SUBSET exps
    OBVIOUS
  <2> QED  BY <2>1, PartySums
<1>2. \A i \in I : WalletDay(i) \in LedgerDays
  BY WalletDated
<1>3. PICK A \in SUBSET I : /\ A = {j \in I : WalletDay(j) \in Upto(d)}
                            /\ {j \in I : WalletDay(j) \in After(d)} = I \ A
  BY <1>2 DEF Upto, After
<1>4. PICK F, G : F = [i \in A |-> i.wallet] /\ G = [i \in I \ A |-> i.wallet]
  OBVIOUS
<1>5. PICK f : f = Wallets(I)
  OBVIOUS
<1>6. /\ DOMAIN f = I /\ DOMAIN F = A /\ \A i \in A : F[i] = f[i]
      /\ DOMAIN G = I \ A /\ \A i \in I \ A : G[i] = f[i]
  BY <1>4, <1>5 DEF Wallets
<1>7. \A i \in I : f[i] \in Int
  BY <1>1, <1>5
<1>8. /\ SumFunction(F) \in Int /\ SumFunction(G) \in Int
      /\ SumFunction(F) + SumFunction(G) = Sum(f)
  <2>1. IsFiniteSet(I) /\ A \in SUBSET I
    BY <1>1
  <2> QED  BY <1>6, <1>7, <2>1, SumsOfCut
<1> QED  BY <1>3, <1>4, <1>5, <1>8

\* What is paid of an invoice by a day and after it.
LEMMA PaidCut ==
  ASSUME NEW invs, NEW exps, Sound(invs, exps), NEW i \in invs, NEW d
  PROVE  /\ Paid(PaymentsIn(i, Upto(d))) \in Int /\ Paid(PaymentsIn(i, After(d))) \in Int
         /\ Paid(PaymentsIn(i, Upto(d))) + Paid(PaymentsIn(i, After(d))) = Paid(i.payments)
<1>1. IsFiniteSet(i.payments) /\ i.payments \subseteq Payment
  BY Payable
<1>2. \A x \in i.payments : x.day \in LedgerDays /\ x.amount \in Int
  BY <1>1 DEF Payment
<1>3. PICK S : S = i.payments
  OBVIOUS
<1>4. PICK A \in SUBSET S : A = PaymentsIn(i, Upto(d)) /\ PaymentsIn(i, After(d)) = S \ A
  <2>1. PaymentsIn(i, Upto(d)) \subseteq S
    BY <1>3 DEF PaymentsIn
  <2>2. PaymentsIn(i, After(d)) = S \ PaymentsIn(i, Upto(d))
    BY <1>2, <1>3 DEF PaymentsIn, Upto, After
  <2> QED  BY <2>1, <2>2
<1>5. PICK f, F, G : /\ f = [x \in S |-> x.amount]
                     /\ F = [x \in A |-> x.amount] /\ G = [x \in S \ A |-> x.amount]
  OBVIOUS
<1>6. /\ DOMAIN f = S /\ DOMAIN F = A /\ \A x \in A : F[x] = f[x]
      /\ DOMAIN G = S \ A /\ \A x \in S \ A : G[x] = f[x]
  BY <1>5
<1>7. \A x \in S : f[x] \in Int
  BY <1>2, <1>3, <1>5
<1>8. /\ SumFunction(F) \in Int /\ SumFunction(G) \in Int
      /\ SumFunction(F) + SumFunction(G) = Sum(f)
  <2>1. IsFiniteSet(S) /\ A \in SUBSET S
    BY <1>1, <1>3
  <2> QED  BY <1>6, <1>7, <2>1, SumsOfCut
<1>9. Paid(i.payments) = Sum(f)
  BY <1>3, <1>5, <1>6 DEF Paid, Sum, SumFunction
<1>10. Paid(PaymentsIn(i, Upto(d))) = SumFunction(F) /\ Paid(PaymentsIn(i, After(d))) = SumFunction(G)
  BY <1>4, <1>5 DEF Paid
<1> QED  BY <1>8, <1>9, <1>10

\* What is received by a day and after it.
LEMMA ReceivedCut ==
  ASSUME NEW invs, NEW exps, Sound(invs, exps), NEW I \in SUBSET invs, NEW d
  PROVE  LET F == [i \in I |-> Paid(PaymentsIn(i, Upto(d)))]
             G == [i \in I |-> Paid(PaymentsIn(i, After(d)))] IN
         /\ SumFunction(F) \in Int /\ SumFunction(G) \in Int
         /\ SumFunction(F) + SumFunction(G) = Sum(Payments(I))
<1>1. IsFiniteSet(I)
  BY FS_Subset DEF Sound
<1>2. PICK f, F, G : /\ f = Payments(I)
                     /\ F = [i \in I |-> Paid(PaymentsIn(i, Upto(d)))]
                     /\ G = [i \in I |-> Paid(PaymentsIn(i, After(d)))]
  OBVIOUS
<1>3. /\ DOMAIN f = I /\ DOMAIN F = I /\ DOMAIN G = I
      /\ \A i \in I : f[i] \in Int /\ F[i] \in Int /\ G[i] = f[i] - F[i]
  <2>1. DOMAIN f = I /\ DOMAIN F = I /\ DOMAIN G = I
    BY <1>2 DEF Payments
  <2>2. ASSUME NEW i \in I  PROVE f[i] \in Int /\ F[i] \in Int /\ G[i] = f[i] - F[i]
    <3>1. PICK p, q, r : /\ p = Paid(i.payments) /\ q = Paid(PaymentsIn(i, Upto(d)))
                         /\ r = Paid(PaymentsIn(i, After(d)))
      OBVIOUS
    <3>2. q \in Int /\ r \in Int /\ q + r = p
      BY <3>1, PaidCut
    <3>3. f[i] = p /\ F[i] = q /\ G[i] = r
      BY <1>2, <3>1 DEF Payments
    <3> QED  BY <3>2, <3>3
  <2> QED  BY <2>1, <2>2
<1>4. SumFunctionOnSet(f, I) \in Int /\ SumFunctionOnSet(F, I) \in Int
  BY <1>1, <1>3, SumIsInt
<1>5. SumFunctionOnSet(G, I) = SumFunctionOnSet(f, I) - SumFunctionOnSet(F, I)
  BY <1>1, <1>3, SumDifference
<1>6. /\ SumFunction(F) = SumFunctionOnSet(F, I) /\ SumFunction(G) = SumFunctionOnSet(G, I)
      /\ Sum(f) = SumFunctionOnSet(f, I)
  BY <1>3 DEF Sum, SumFunction
<1>7. /\ SumFunction(F) \in Int /\ SumFunction(G) \in Int
      /\ SumFunction(F) + SumFunction(G) = Sum(f)
  BY <1>4, <1>5, <1>6
<1> QED  BY <1>2, <1>7

\* What is outstanding of invoices, and of expenses.
LEMMA OutstandingSum ==
  ASSUME NEW invs, NEW exps, Sound(invs, exps), NEW I \in SUBSET invs, NEW E \in SUBSET exps
  PROVE  /\ SumFunction([i \in I |-> Outstanding(i)])
              = Sum(Totals(I)) - Sum(Payments(I)) - Sum(Wallets(I))
         /\ SumFunction([e \in E |-> Unpaid(e)]) = Sum(Owings(E))
<1>0. IsFiniteSet(I) /\ IsFiniteSet(E)
  BY FS_Subset DEF Sound
<1>1. PICK t, p, w, o, h : /\ t = Totals(I) /\ p = Payments(I) /\ w = Wallets(I)
                           /\ o = [i \in I |-> Outstanding(i)] /\ h = [i \in I |-> t[i] - p[i]]
  OBVIOUS
<1>2. DOMAIN t = I /\ DOMAIN p = I /\ DOMAIN w = I /\ DOMAIN o = I /\ DOMAIN h = I
  BY <1>1 DEF Totals, Payments, Wallets
<1>3. ASSUME NEW i \in I
      PROVE  /\ t[i] \in Int /\ p[i] \in Int /\ w[i] \in Int /\ h[i] \in Int
             /\ h[i] = t[i] - p[i] /\ o[i] = h[i] - w[i]
  <2>1. /\ Paid(i.payments) \in Nat /\ i.wallet \in Nat /\ i.total \in Nat
        /\ Outstanding(i) = i.total - Paid(i.payments) - i.wallet
    BY Payable
  <2>2. t[i] = i.total /\ p[i] = Paid(i.payments) /\ w[i] = i.wallet /\ o[i] = Outstanding(i)
    BY <1>1 DEF Totals, Payments, Wallets
  <2>3. h[i] = t[i] - p[i]
    BY <1>1
  <2> QED  BY <2>1, <2>2, <2>3
<1>4. SumFunctionOnSet(h, I) = SumFunctionOnSet(t, I) - SumFunctionOnSet(p, I)
  BY <1>0, <1>3, SumDifference
<1>5. SumFunctionOnSet(o, I) = SumFunctionOnSet(h, I) - SumFunctionOnSet(w, I)
  BY <1>0, <1>3, SumDifference
<1>6. SumFunction(o) = Sum(t) - Sum(p) - Sum(w)
  BY <1>2, <1>4, <1>5 DEF Sum, SumFunction
<1>7. [e \in E |-> Unpaid(e)] = Owings(E)
  <2>1. \A e \in E : Unpaid(e) = e.amount - PaidOut(e)
    BY Spent
  <2> QED  BY <2>1 DEF Owings
<1> QED  BY <1>1, <1>6, <1>7 DEF Sum, SumFunction

LEMMA OwnDocuments ==
  \A p : InvoicesOf(p) \in SUBSET invoices /\ ExpensesOf(p) \in SUBSET expenses
BY DEF InvoicesOf, ExpensesOf

\* The two halves of a year.
LEMMA MovementHalves ==
  ASSUME Sound(invoices, expenses), NEW p, NEW d, NEW I, NEW E,
         I = InvoicesOf(p), E = ExpensesOf(p)
  PROVE  /\ Movement(p, Upto(d)) \in Int /\ Movement(p, After(d)) \in Int
         /\ Movement(p, Upto(d)) + Movement(p, After(d))
              = Sum(Totals(I)) - Sum(Payments(I)) + Sum(Owings(E))
         /\ \A days \in {Upto(d), After(d)} : Sold(p, days) \in Int /\ Received(p, days) \in Int
<1>0. I \in SUBSET invoices /\ E \in SUBSET expenses
  BY OwnDocuments
<1>1. PICK t, s, u : t = Sum(Totals(I)) /\ s = Sold(p, Upto(d)) /\ u = Sold(p, After(d))
  OBVIOUS
<1>2. s \in Int /\ u \in Int /\ s + u = t
  BY <1>0, <1>1, SoldCut DEF Sold
<1>3. PICK q, r, v : q = Sum(Payments(I)) /\ r = Received(p, Upto(d)) /\ v = Received(p, After(d))
  OBVIOUS
<1>4. r \in Int /\ v \in Int /\ r + v = q
  BY <1>0, <1>3, ReceivedCut DEF Received
<1>5. PICK o, x, y : /\ o = Sum(Owings(E))
                     /\ x = SumFunction([e \in Within(E, Upto(d)) |-> e.amount - PaidOut(e)])
                     /\ y = SumFunction([e \in Within(E, After(d)) |-> e.amount - PaidOut(e)])
  OBVIOUS
<1>6. x \in Int /\ y \in Int /\ x + y = o
  BY <1>0, <1>5, OwingCut
<1>7. Movement(p, Upto(d)) = s - r + x /\ Movement(p, After(d)) = u - v + y
  BY <1>1, <1>3, <1>5 DEF Movement
<1>8. s - r + x \in Int /\ u - v + y \in Int /\ (s - r + x) + (u - v + y) = t - q + o
  BY <1>2, <1>4, <1>6
<1> QED  BY <1>1, <1>2, <1>3, <1>4, <1>5, <1>7, <1>8

\* The summary of a half.
LEMMA SummaryMoves ==
  ASSUME Sound(invoices, expenses), NEW p, NEW d, NEW days \in {Upto(d), After(d)}
  PROVE  Summary(p, days).sales - Summary(p, days).received = Movement(p, days)
<1>1. PICK E : E = Within(ExpensesOf(p), days)
  OBVIOUS
<1>2. E \in SUBSET expenses /\ IsFiniteSet(E)
  <2>1. E \subseteq expenses
    BY <1>1 DEF Within, ExpensesOf
  <2> QED  BY <2>1, FS_Subset DEF Sound
<1>3. PICK a, b, g : /\ a = [e \in E |-> e.amount]
                     /\ b = [e \in E |-> IF e.status = "UNPAID" THEN 0 ELSE PaidOut(e)]
                     /\ g = [e \in E |-> e.amount - PaidOut(e)]
  OBVIOUS
<1>4. ASSUME NEW e \in E  PROVE a[e] \in Int /\ b[e] \in Int /\ g[e] = a[e] - b[e]
  <2>1. /\ e.amount \in Nat /\ PaidOut(e) \in Nat
        /\ e.status = "UNPAID" => PaidOut(e) = 0
    BY <1>2, Spent
  <2>2. a[e] = e.amount /\ b[e] = PaidOut(e) /\ g[e] = e.amount - PaidOut(e)
    BY <1>3, <2>1
  <2> QED  BY <2>1, <2>2
<1>5. PICK x, y, z : x = SumFunction(a) /\ y = SumFunction(b) /\ z = SumFunction(g)
  OBVIOUS
<1>6. x \in Int /\ y \in Int /\ z = x - y
  <2>1. DOMAIN a = E /\ DOMAIN b = E /\ DOMAIN g = E
    BY <1>3
  <2>2. SumFunctionOnSet(a, E) \in Int /\ SumFunctionOnSet(b, E) \in Int
    BY <1>2, <1>4, SumIsInt
  <2>3. SumFunctionOnSet(g, E) = SumFunctionOnSet(a, E) - SumFunctionOnSet(b, E)
    BY <1>2, <1>4, SumDifference
  <2> QED  BY <1>5, <2>1, <2>2, <2>3 DEF SumFunction
<1>7. PICK s \in Int, r \in Int : s = Sold(p, days) /\ r = Received(p, days)
  BY MovementHalves
<1>8. Movement(p, days) = s - r + z
  BY <1>1, <1>3, <1>5, <1>7 DEF Movement
<1>9. Summary(p, days).sales = s + x /\ Summary(p, days).received = r + y
  BY <1>1, <1>3, <1>5, <1>7 DEF Summary
<1> QED  BY <1>6, <1>7, <1>8, <1>9

LEMMA OpeningIsInt ==
  ASSUME NEW p, p.opening \in Nat
  PROVE  SignedOpening(p) \in Int
BY DEF SignedOpening

\* The balance that a party is listed with.
LEMMA BalanceIs ==
  ASSUME Sound(invoices, expenses), NEW p, p.opening \in Nat, NEW I, NEW E,
         I = InvoicesOf(p), E = ExpensesOf(p)
  PROVE  CurrentBalance(p) = SignedOpening(p) + (Sum(Totals(I)) - Sum(Payments(I)) - Sum(Wallets(I)))
                               + Sum(Owings(E))
<1>0. I \in SUBSET invoices /\ E \in SUBSET expenses
  BY OwnDocuments
<1>1. /\ SumFunction([i \in I |-> Outstanding(i)])
           = Sum(Totals(I)) - Sum(Payments(I)) - Sum(Wallets(I))
      /\ SumFunction([e \in E |-> Unpaid(e)]) = Sum(Owings(E))
  BY <1>0, OutstandingSum
<1> QED  BY <1>1 DEF CurrentBalance

\* The statement of one year, cut anywhere, where no wallet has paid.
LEMMA StatementReaches ==
  ASSUME Sound(invoices, expenses), NEW p, p.opening \in Nat, NEW d,
         \A i \in InvoicesOf(p) : i.wallet = 0
  PROVE  SignedOpening(p) + Movement(p, Upto(d)) + Movement(p, After(d)) = CurrentBalance(p)
<1>1. PICK I, E : I = InvoicesOf(p) /\ E = ExpensesOf(p)
  OBVIOUS
<1>2. I \in SUBSET invoices /\ E \in SUBSET expenses
  BY <1>1, OwnDocuments
<1>3. Sum(Wallets(I)) = 0
  <2>1. IsFiniteSet(I)
    BY <1>2, PartySums
  <2>2. PICK w : w = Wallets(I)
    OBVIOUS
  <2>3. DOMAIN w = I /\ \A i \in I : w[i] = 0
    BY <1>1, <2>2 DEF Wallets
  <2>4. SumFunctionOnSet(w, I) = 0
    BY <2>1, <2>3, SumOfZeros
  <2> QED  BY <2>2, <2>3, <2>4 DEF Sum
<1>4. PICK t \in Int, q \in Int, o \in Int, b \in Int :
        t = Sum(Totals(I)) /\ q = Sum(Payments(I)) /\ o = Sum(Owings(E)) /\ b = SignedOpening(p)
  BY <1>2, PartySums, OpeningIsInt
<1>5. PICK m \in Int, n \in Int : /\ m = Movement(p, Upto(d)) /\ n = Movement(p, After(d))
                                  /\ m + n = t - q + o
  BY <1>1, <1>4, MovementHalves
<1>6. CurrentBalance(p) = b + (t - q - 0) + o
  BY <1>1, <1>3, <1>4, BalanceIs
<1>7. b + m + n = b + (t - q - 0) + o
  BY <1>5
<1>8. b + m + n = CurrentBalance(p)
  BY <1>6, <1>7
<1> QED  BY <1>4, <1>5, <1>8

\* The statement handed to the public, cut anywhere.
LEMMA PublicReaches ==
  ASSUME Sound(invoices, expenses), NEW q, q.opening \in Nat, NEW d
  PROVE  SignedOpening(q) + PublicMovement(q, Upto(d)) + PublicMovement(q, After(d)) = CurrentBalance(q)
<1>1. PICK I, E : I = InvoicesOf(q) /\ E = ExpensesOf(q)
  OBVIOUS
<1>2. I \in SUBSET invoices /\ E \in SUBSET expenses
  BY <1>1, OwnDocuments
<1>3. PICK t \in Int, r \in Int, w \in Int, o \in Int, b \in Int :
        /\ t = Sum(Totals(I)) /\ r = Sum(Payments(I)) /\ w = Sum(Wallets(I))
        /\ o = Sum(Owings(E)) /\ b = SignedOpening(q)
  BY <1>2, PartySums, OpeningIsInt
<1>4. PICK m \in Int, n \in Int : /\ m = Movement(q, Upto(d)) /\ n = Movement(q, After(d))
                                  /\ m + n = t - r + o
  <2>1. /\ Movement(q, Upto(d)) \in Int /\ Movement(q, After(d)) \in Int
        /\ Movement(q, Upto(d)) + Movement(q, After(d))
             = Sum(Totals(I)) - Sum(Payments(I)) + Sum(Owings(E))
    BY <1>1, MovementHalves
  <2> QED  BY <1>3, <2>1
<1>5. CurrentBalance(q) = b + (t - r - w) + o
  BY <1>1, <1>3, BalanceIs
<1>6. PICK x, y : /\ x = SumFunction([i \in {j \in I : WalletDay(j) \in Upto(d)} |-> i.wallet])
                  /\ y = SumFunction([i \in {j \in I : WalletDay(j) \in After(d)} |-> i.wallet])
  OBVIOUS
<1>7. x \in Int /\ y \in Int /\ x + y = w
  BY <1>2, <1>3, <1>6, WalletCut
<1>8. PublicMovement(q, Upto(d)) = m - x /\ PublicMovement(q, After(d)) = n - y
  BY <1>1, <1>4, <1>6 DEF PublicMovement
<1>9. b + (m - x) + (n - y) = b + (t - r - w) + o
  BY <1>4, <1>7
<1>10. b + (m - x) + (n - y) = CurrentBalance(q)
  BY <1>5, <1>9
<1> QED  BY <1>3, <1>8, <1>10

-----------------------------------------------------------------------------
\* A row of its own completes no customer that is there and is not a customer's.
RowFits(i, row) ==
  /\ row.kind \in {"customer", "supplier"} /\ row.opening \in Nat
  /\ row.customer \in PartyCustomers \cup {None}
  /\ i[1] = "c" => row.kind = "customer" /\ row.customer \in {i[2], None}
  /\ i[1] \in {"v", "m"} => row.kind = "supplier"
  /\ row.kind = "supplier" => row.customer \notin clientele

FormFits(i, f) ==
  /\ f.kind \in {"customer", "supplier"} /\ f.opening \in Nat \cup {None}
  /\ f.customer \in PartyCustomers \cup {None}
  /\ i[1] = "c" => f.kind = "customer" /\ f.customer \in {i[2], None}
  /\ i[1] \in {"v", "m"} => f.kind = "supplier"
  /\ f.kind = "supplier" => f.customer = None

PartyRequested(c) ==
  /\ pc[c] = "party.read" => FormFits(req[c].id, req[c].form)
  /\ pc[c] = "party.write" => RowFits(req[c].id, req[c].row)

RowsFit ==
  /\ clientele \subseteq PartyCustomers
  /\ \A i \in Rows : RowFits(i, rows[i])

PartyInv ==
  /\ RowsFit
  /\ Sound(invoices, expenses)
  /\ rows = [i \in PartyIds |-> rows[i]]
  /\ pc = [c \in Clients |-> pc[c]]
  /\ req = [c \in Clients |-> req[c]]
  /\ \A c \in Clients : PartyRequested(c)

LEMMA NobodyIsNone == RowsFit => None \notin clientele
BY PartyAssumption DEF RowsFit, PartyAssumption

LEMMA FirstIsOne == \A ids : ids # {} => First(ids) \in ids
BY DEF First

\* Only a customer's key finds a row of another id.
LEMMA RowsOfKey ==
  ASSUME NEW key, key[1] # "c", NEW i \in RowsAt(key)
  PROVE  i = key
BY DEF RowsAt, C

\* The entry of a customer that is there.
LEMMA CustomerEntry ==
  ASSUME RowsFit, NEW k \in clientele
  PROVE  /\ FromCustomer(k).kind = "customer" /\ FromCustomer(k).customer = k
         /\ FromCustomer(k).opening \in Nat /\ FromCustomer(k).id = C(k)
<1>1. PICK ids : ids = RowsAt(C(k))
  OBVIOUS
<1>2. PICK base : base = [Blank("customer") EXCEPT !.customer = k]
  OBVIOUS
<1>3. FromCustomer(k) = Merged(C(k), base, ids)
  BY <1>1, <1>2 DEF FromCustomer
<1>4. base = [id |-> None, kind |-> "customer", customer |-> k, vendor |-> None, opening |-> 0,
              side |-> None]
  BY <1>2 DEF Blank
<1>5. CASE ids = {}
  BY <1>3, <1>4, <1>5 DEF Merged
<1>6. CASE ids # {}
  <2>1. PICK i : i = First(ids)
    OBVIOUS
  <2>2. PICK row : row = rows[i]
    OBVIOUS
  <2>3. i \in RowsAt(C(k))
    BY <1>1, <1>6, <2>1, FirstIsOne
  <2>4. RowFits(i, row) /\ (i = C(k) \/ row.customer = k)
    BY <2>2, <2>3 DEF RowsAt, RowsFit, C
  <2>5. C(k)[1] = "c" /\ C(k)[2] = k
    BY DEF C
  <2>6. row.kind = "customer" /\ row.customer \in {k, None} /\ row.opening \in Nat
    BY <2>4, <2>5 DEF RowFits
  <2>7. Merged(C(k), base, ids) =
          [id |-> C(k), kind |-> row.kind, opening |-> row.opening, side |-> row.side,
           customer |-> IF row.customer = None THEN base.customer ELSE row.customer,
           vendor   |-> IF row.vendor = None THEN base.vendor ELSE row.vendor]
    BY <1>6, <2>1, <2>2 DEF Merged
  <2> QED  BY <1>3, <1>4, <2>6, <2>7
<1> QED  BY <1>5, <1>6

\* The entry of a vendor is a supplier's.
LEMMA VendorEntry ==
  ASSUME RowsFit, NEW n
  PROVE  /\ FromVendor(n).customer \notin clientele /\ FromVendor(n).opening \in Nat
         /\ FromVendor(n).customer \in PartyCustomers \cup {None}
         /\ FromVendor(n).id[1] = "v"
<1>1. PICK key : key = VendorId(n)
  OBVIOUS
<1>2. key[1] = "v"
  BY <1>1 DEF VendorId, V
<1>3. PICK base : base = [Blank("supplier") EXCEPT !.vendor = n]
  OBVIOUS
<1>4. PICK ids : ids = IF RowsAt(key) # {} THEN RowsAt(key) ELSE Suppliers(Normalized[n])
  OBVIOUS
<1>5. FromVendor(n) = Merged(key, base, ids)
  BY <1>1, <1>3, <1>4 DEF FromVendor
<1>6. base = [id |-> None, kind |-> "supplier", customer |-> None, vendor |-> n, opening |-> 0,
              side |-> None]
  BY <1>3 DEF Blank
<1>7. CASE ids = {}
  BY <1>2, <1>5, <1>6, <1>7, NobodyIsNone DEF Merged
<1>8. CASE ids # {}
  <2>1. PICK i : i = First(ids)
    OBVIOUS
  <2>2. PICK row : row = rows[i]
    OBVIOUS
  <2>3. i \in RowsAt(key) \/ i \in Suppliers(Normalized[n])
    BY <1>4, <1>8, <2>1, FirstIsOne
  <2>4. RowFits(i, row) /\ row.kind = "supplier"
    <3>1. CASE i \in RowsAt(key)
      <4>1. i = key /\ i \in Rows
        BY <1>2, <3>1, RowsOfKey DEF RowsAt
      <4> QED  BY <1>2, <2>2, <4>1 DEF RowsFit, RowFits
    <3>2. CASE i \in Suppliers(Normalized[n])
      BY <2>2, <3>2 DEF Suppliers, RowsFit
    <3> QED  BY <2>3, <3>1, <3>2
  <2>5. /\ row.opening \in Nat /\ row.customer \notin clientele
        /\ row.customer \in PartyCustomers \cup {None}
    BY <2>4 DEF RowFits
  <2>6. Merged(key, base, ids) =
          [id |-> key, kind |-> row.kind, opening |-> row.opening, side |-> row.side,
           customer |-> IF row.customer = None THEN base.customer ELSE row.customer,
           vendor   |-> IF row.vendor = None THEN base.vendor ELSE row.vendor]
    BY <1>8, <2>1, <2>2 DEF Merged
  <2> QED  BY <1>2, <1>5, <1>6, <2>5, <2>6
<1> QED  BY <1>7, <1>8

\* What may complete the party of an id.
EntryFits(p) ==
  /\ p.opening \in Nat /\ p.customer \in PartyCustomers \cup {None}
  /\ p.id[1] = "c" => p.customer \in {p.id[2], None}
  /\ p.id[1] # "c" => p.customer \notin clientele

\* A row that the list keeps under its own id names no customer that is there.
LEMMA OwnEntry ==
  ASSUME RowsFit, NEW i \in Rows, ~Shown(i, Canonical),
         NEW p, p = Merged(i, Blank("supplier"), {i})
  PROVE  /\ EntryFits(p) /\ p.customer \notin clientele
         /\ p.kind = rows[i].kind
         /\ p.vendor = IF rows[i].vendor = None THEN None ELSE rows[i].vendor
<1>1. PICK row : row = rows[i]
  OBVIOUS
<1>2. RowFits(i, row)
  BY <1>1 DEF RowsFit
<1>3. First({i}) = i /\ Blank("supplier").customer = None /\ Blank("supplier").vendor = None
  BY FirstIsOne DEF Blank
<1>4. p = [id |-> i, kind |-> row.kind, opening |-> row.opening, side |-> row.side,
           customer |-> IF row.customer = None THEN None ELSE row.customer,
           vendor   |-> IF row.vendor = None THEN None ELSE row.vendor]
  BY <1>1, <1>3 DEF Merged
<1>5. row.customer \notin clientele
  <2> SUFFICES ASSUME row.customer \in clientele  PROVE FALSE
    OBVIOUS
  <2>1. row.customer # None /\ C(row.customer) \in Canonical
    BY NobodyIsNone DEF Canonical
  <2> QED  BY <1>1, <2>1 DEF Shown
<1> QED  BY <1>1, <1>2, <1>4, <1>5 DEF RowFits, EntryFits

\* Of the customers that are there each has one entry, that of its key.
LEMMA ListedCustomers ==
  ASSUME RowsFit
  PROVE  /\ \A k \in clientele : C(k) \in DOMAIN Listing /\ Listing[C(k)] = FromCustomer(k)
         /\ \A key \in DOMAIN Listing :
              /\ EntryFits(Listing[key])
              /\ (\E k \in clientele : key = C(k)) \/ Listing[key].customer \notin clientele
<1>1. PICK known : known = Canonical
  OBVIOUS
<1>3. PICK owned : owned = {key \in PartyIds \ known : /\ RowsAt(key) # {}
                                                     /\ ~Shown(First(RowsAt(key)), known)}
  OBVIOUS
<1>4. Listing =
        [key \in known \cup owned |->
           IF key \in owned THEN LET i == First(RowsAt(key)) IN Merged(i, Blank("supplier"), {i})
           ELSE IF key[1] = "c" THEN FromCustomer(key[2])
           ELSE FromVendor(CHOOSE n \in Heads : VendorId(n) = key)]
  BY <1>1, <1>3 DEF Listing
<1>5. ASSUME NEW k \in clientele
      PROVE  C(k) \in DOMAIN Listing /\ Listing[C(k)] = FromCustomer(k)
  <2>1. C(k) \in known /\ C(k) \notin owned /\ C(k)[1] = "c" /\ C(k)[2] = k
    BY <1>1, <1>3 DEF Canonical, C
  <2> QED  BY <1>4, <2>1
<1>6. ASSUME NEW key \in DOMAIN Listing
      PROVE  /\ EntryFits(Listing[key])
             /\ (\E k \in clientele : key = C(k)) \/ Listing[key].customer \notin clientele
  <2>1. key \in known \cup owned
    BY <1>4
  <2>2. CASE key \in owned
    <3>1. PICK i : i = First(RowsAt(key))
      OBVIOUS
    <3>2. i \in Rows /\ ~Shown(i, known)
      BY <1>3, <2>2, <3>1, FirstIsOne DEF RowsAt
    <3>3. Listing[key] = Merged(i, Blank("supplier"), {i})
      BY <1>4, <2>1, <2>2, <3>1
    <3> QED  BY <1>1, <3>2, <3>3, OwnEntry
  <2>3. CASE key \in known /\ \E k \in clientele : key = C(k)
    <3>1. PICK k \in clientele : key = C(k)
      BY <2>3
    <3>2. Listing[key] = FromCustomer(k)
      BY <1>5, <3>1
    <3>3. C(k)[1] = "c" /\ C(k)[2] = k /\ k \in PartyCustomers
      BY DEF C, RowsFit
    <3> QED  BY <3>1, <3>2, <3>3, CustomerEntry DEF EntryFits
  <2>4. CASE key \in known \ owned /\ ~\E k \in clientele : key = C(k)
    <3>1. PICK m \in Heads : key = VendorId(m)
      BY <1>1, <2>4 DEF Canonical
    <3>2. key[1] = "v"
      BY <3>1 DEF VendorId, V
    <3>3. PICK n : n = CHOOSE v \in Heads : VendorId(v) = key
      OBVIOUS
    <3>4. Listing[key] = FromVendor(n)
      BY <1>4, <2>1, <2>4, <3>2, <3>3
    <3> QED  BY <3>4, VendorEntry DEF EntryFits
  <2> QED  BY <2>1, <2>2, <2>3, <2>4
<1> QED  BY <1>5, <1>6

\* What an upsert completes the form of id with.
LEMMA OldFits ==
  ASSUME RowsFit, NEW id, NEW kind, NEW old,
         old = IF PartyById(id) = Null THEN Blank(kind) ELSE PartyById(id)
  PROVE  /\ old.opening \in Nat /\ old.customer \in PartyCustomers \cup {None}
         /\ id[1] = "c" => old.customer \in {id[2], None}
         /\ id[1] # "c" => old.customer \notin clientele
<1>1. CASE PartyById(id) = Null
  <2>1. old.opening = 0 /\ old.customer = None
    BY <1>1 DEF Blank
  <2> QED  BY <2>1, NobodyIsNone
<1>2. CASE PartyById(id) # Null
  <2>1. PICK at : at = {key \in DOMAIN Listing : Listing[key].id = id}
    OBVIOUS
  <2>2. PartyById(id) = IF id \in hidden \/ at = {} THEN Null ELSE Listing[First(at)]
    BY <2>1 DEF PartyById
  <2>3. at # {} /\ old = Listing[First(at)]
    BY <1>2, <2>2
  <2>4. First(at) \in DOMAIN Listing /\ Listing[First(at)].id = id
    BY <2>1, <2>3, FirstIsOne
  <2>5. EntryFits(old) /\ old.id = id
    BY <2>3, <2>4, ListedCustomers
  <2> QED  BY <2>5 DEF EntryFits
<1> QED  BY <1>1, <1>2

\* The row that an upsert is about to write fits its id.
LEMMA UpsertFits ==
  ASSUME RowsFit, NEW id, NEW f, FormFits(id, f), NEW old, NEW row,
         old = IF PartyById(id) = Null THEN Blank(f.kind) ELSE PartyById(id),
         row = [kind |-> f.kind, customer |-> Or(f.customer, old.customer),
                vendor |-> Or(f.vendor, old.vendor), opening |-> Or(f.opening, old.opening),
                side |-> Or(f.side, old.side)]
  PROVE  RowFits(id, row)
<1>1. /\ old.opening \in Nat /\ old.customer \in PartyCustomers \cup {None}
      /\ id[1] = "c" => old.customer \in {id[2], None}
      /\ id[1] # "c" => old.customer \notin clientele
  BY OldFits
<1>2. /\ row.kind = f.kind /\ row.customer = Or(f.customer, old.customer)
      /\ row.opening = Or(f.opening, old.opening)
  OBVIOUS
<1> QED  BY <1>1, <1>2 DEF FormFits, RowFits, Or

LEMMA PartyInitSound == PartyInit /\ RequestInit => PartyInv
<1> SUFFICES ASSUME PartyInit, RequestInit  PROVE PartyInv
  OBVIOUS
<1>1. Rows = {}
  BY DEF PartyInit, Rows
<1>2. Sound(invoices, expenses)
  BY LedgersAssumption DEF PartyInit
<1> QED  BY <1>1, <1>2 DEF PartyInit, RequestInit, PartyInv, RowsFit, PartyRequested

\* What remains to be shown of a step of c that leaves the books alone.
LEMMA PartyMoves ==
  ASSUME PartyInv, NEW c \in Clients, PartyRequested(c)',
         UNCHANGED <<rows, clientele, invoices, expenses>>,
         pc' = [pc EXCEPT ![c] = pc'[c]], req' = [req EXCEPT ![c] = req'[c]]
  PROVE  PartyInv'
<1>1. /\ pc' = [d \in Clients |-> pc'[d]] /\ req' = [d \in Clients |-> req'[d]]
      /\ \A d \in Clients \ {c} : pc'[d] = pc[d] /\ req'[d] = req[d] /\ PartyRequested(d)
  BY DEF PartyInv
<1>2. ASSUME NEW d \in Clients \ {c}  PROVE PartyRequested(d)'
  BY <1>1 DEF PartyRequested, RowFits, FormFits
<1>3. RowsFit'
  BY DEF PartyInv, RowsFit, Rows, RowFits
<1> QED  BY <1>1, <1>2, <1>3 DEF PartyInv

\* A row that fits is written.
LEMMA RowWritten ==
  ASSUME PartyInv, NEW id, NEW row, RowFits(id, row), rows' = [rows EXCEPT ![id] = row],
         UNCHANGED clientele
  PROVE  RowsFit' /\ rows' = [i \in PartyIds |-> rows'[i]]
<1>1. rows' = [i \in PartyIds |-> rows'[i]] /\ \A i \in PartyIds : rows'[i] = IF i = id THEN row ELSE rows[i]
  BY DEF PartyInv
<1>2. ASSUME NEW i \in Rows'  PROVE RowFits(i, rows[i])'
  <2>1. i \in PartyIds /\ rows'[i] # Null
    BY <1>2 DEF Rows
  <2>2. PICK r : r = rows'[i]
    OBVIOUS
  <2>3. RowFits(i, r)
    BY <1>1, <2>1, <2>2 DEF PartyInv, RowsFit, Rows
  <2> QED  BY <2>2, <2>3 DEF RowFits
<1> QED  BY <1>1, <1>2 DEF PartyInv, RowsFit

\* What is asked, and what becomes of it when the customer is gone.
LEMMA PartyAsked ==
  ASSUME PartyInv, NEW c \in Clients, PostParty(c) \/ PutParty(c)
  PROVE  PartyInv'
<1> USE DEF Arrive
<1>1. \E f, id :
        /\ FormFits(id, f) /\ pc'[c] = "party.read" /\ req'[c] = [id |-> id, form |-> f]
  <2>1. CASE PostParty(c)
    <3>1. PICK f \in Forms : \E id \in NewPartyId(f) :
            pc' = [pc EXCEPT ![c] = "party.read"] /\ req' = [req EXCEPT ![c] = [id |-> id, form |-> f]]
      BY <2>1 DEF PostParty
    <3>2. PICK id \in NewPartyId(f) :
            pc' = [pc EXCEPT ![c] = "party.read"] /\ req' = [req EXCEPT ![c] = [id |-> id, form |-> f]]
      BY <3>1
    <3>3. /\ f.kind \in {"customer", "supplier"} /\ f.opening \in Nat \cup {None}
          /\ f.customer \in PartyCustomers \cup {None}
          /\ IF f.kind = "customer" THEN f.vendor = None ELSE f.customer = None
      BY PartyAssumption DEF Forms, PartyAssumption
    <3>4. CASE f.customer # None
      <4>1. id = C(f.customer) /\ f.kind = "customer"
        BY <3>2, <3>3, <3>4 DEF NewPartyId
      <4>2. id[1] = "c" /\ id[2] = f.customer
        BY <4>1 DEF C
      <4>3. FormFits(id, f)
        BY <3>3, <4>1, <4>2 DEF FormFits
      <4> QED  BY <3>2, <4>3 DEF PartyInv
    <3>5. CASE f.customer = None /\ f.vendor # None
      <4>1. id = V(f.vendor) /\ f.kind = "supplier"
        BY <3>2, <3>3, <3>5 DEF NewPartyId
      <4>2. id[1] = "v"
        BY <4>1 DEF V
      <4>3. FormFits(id, f)
        BY <3>3, <3>5, <4>1, <4>2 DEF FormFits
      <4> QED  BY <3>2, <4>3 DEF PartyInv
    <3>6. CASE f.customer = None /\ f.vendor = None
      <4>1. id[1] \notin {"c", "v", "m"}
        BY <3>2, <3>6, PartyAssumption DEF NewPartyId, PartyAssumption
      <4> QED  BY <3>2, <3>3, <3>6, <4>1 DEF FormFits, PartyInv
    <3> QED  BY <3>4, <3>5, <3>6
  <2>2. CASE PutParty(c)
    <3>1. PICK id \in ShownIds, f \in Forms :
            /\ id \notin NewIds => /\ f.kind = IF id[1] = "c" THEN "customer" ELSE "supplier"
                                  /\ f.customer = None /\ f.vendor = None
            /\ pc' = [pc EXCEPT ![c] = "party.read"] /\ req' = [req EXCEPT ![c] = [id |-> id, form |-> f]]
      BY <2>2 DEF PutParty
    <3>2. /\ f.kind \in {"customer", "supplier"} /\ f.opening \in Nat \cup {None}
          /\ f.customer \in PartyCustomers \cup {None}
          /\ IF f.kind = "customer" THEN f.vendor = None ELSE f.customer = None
      BY PartyAssumption DEF Forms, PartyAssumption
    <3>3. CASE id \in NewIds
      <4>1. id[1] \notin {"c", "v", "m"}
        BY <3>3, PartyAssumption DEF PartyAssumption
      <4> QED  BY <3>1, <3>2, <4>1 DEF FormFits, PartyInv
    <3>4. CASE id \notin NewIds
      BY <3>1, <3>2, <3>4 DEF FormFits, PartyInv
    <3> QED  BY <3>3, <3>4
  <2> QED  BY <2>1, <2>2
<1>2. PartyRequested(c)'
  BY <1>1 DEF PartyRequested, FormFits
<1>3. /\ pc' = [pc EXCEPT ![c] = pc'[c]] /\ req' = [req EXCEPT ![c] = req'[c]]
      /\ UNCHANGED <<rows, clientele, invoices, expenses>>
  BY DEF PostParty, PutParty, partyVars, PartyInv
<1> QED  BY <1>2, <1>3, PartyMoves

LEMMA PartyStepSound ==
  ASSUME PartyInv, PartyStep
  PROVE  PartyInv'
<1> USE DEF Arrive, Goto, Answer, AtOnce
<1>0. /\ RowsFit /\ Sound(invoices, expenses) /\ rows = [i \in PartyIds |-> rows[i]]
      /\ pc = [d \in Clients |-> pc[d]] /\ req = [d \in Clients |-> req[d]]
      /\ \A d \in Clients : PartyRequested(d)
  BY DEF PartyInv
<1> PICK c \in Clients :
       \/ PostParty(c) \/ PutParty(c) \/ PartyRead(c) \/ PartyWrite(c) \/ HideParty(c) \/ PartyHide(c)
       \/ SaveMeta(c) \/ MetaKeep(c) \/ MetaWrite(c) \/ MirrorFind(c) \/ MirrorWrite(c)
       \/ PayInvoice(c) \/ PayExpense(c) \/ CustomerGone(c)
  BY DEF PartyStep
<1>1. CASE PostParty(c) \/ PutParty(c)
  BY <1>1, PartyAsked
<1>2. CASE PartyRead(c)
  <2>1. PICK f, id : f = req[c].form /\ id = req[c].id
    OBVIOUS
  <2>2. PICK old : old = IF PartyById(id) = Null THEN Blank(f.kind) ELSE PartyById(id)
    OBVIOUS
  <2>3. PICK row : row = [kind |-> f.kind, customer |-> Or(f.customer, old.customer),
                          vendor |-> Or(f.vendor, old.vendor), opening |-> Or(f.opening, old.opening),
                          side |-> Or(f.side, old.side)]
    OBVIOUS
  <2>4. /\ pc[c] = "party.read"
        /\ pc' = [pc EXCEPT ![c] = "party.write"]
        /\ req' = [req EXCEPT ![c] = [id |-> id, row |-> row]]
        /\ UNCHANGED <<rows, clientele, invoices, expenses>>
    BY <1>2, <2>1, <2>2, <2>3 DEF PartyRead, partyVars
  <2>5. FormFits(id, f)
    BY <1>0, <2>1, <2>4 DEF PartyRequested
  <2>6. RowFits(id, row)
    BY <1>0, <2>2, <2>3, <2>5, UpsertFits
  <2>7. pc'[c] = "party.write" /\ req'[c].id = id /\ req'[c].row = row
    BY <1>0, <2>4
  <2>8. PartyRequested(c)'
    BY <2>4, <2>6, <2>7 DEF PartyRequested, RowFits
  <2> QED  BY <1>0, <2>4, <2>8, PartyMoves
<1>3. CASE PartyWrite(c)
  <2>1. PICK id, row : id = req[c].id /\ row = req[c].row
    OBVIOUS
  <2>2. /\ pc[c] = "party.write" /\ (rows' = rows \/ rows' = [rows EXCEPT ![id] = row])
        /\ pc' = [pc EXCEPT ![c] = "idle"] /\ req' = [req EXCEPT ![c] = Null]
        /\ UNCHANGED <<clientele, invoices, expenses>>
    BY <1>3, <2>1 DEF PartyWrite
  <2>3. RowFits(id, row)
    BY <1>0, <2>1, <2>2 DEF PartyRequested
  <2>4. RowsFit' /\ rows' = [i \in PartyIds |-> rows'[i]]
    <3>1. CASE rows' = rows
      BY <1>0, <2>2, <3>1 DEF RowsFit, Rows, RowFits
    <3>2. CASE rows' = [rows EXCEPT ![id] = row]
      BY <2>2, <2>3, <3>2, RowWritten
    <3> QED  BY <2>2, <3>1, <3>2
  <2>5. \A d \in Clients : PartyRequested(d)'
    <3> TAKE d \in Clients
    <3>1. pc'[d] = "idle" \/ (pc'[d] = pc[d] /\ req'[d] = req[d])
      BY <1>0, <2>2
    <3> QED  BY <1>0, <2>2, <3>1 DEF PartyRequested, RowFits, FormFits
  <2>6. pc' = [d \in Clients |-> pc'[d]] /\ req' = [d \in Clients |-> req'[d]]
    BY <1>0, <2>2
  <2> QED  BY <1>0, <2>2, <2>4, <2>5, <2>6 DEF PartyInv
<1>4. CASE HideParty(c) \/ PartyHide(c) \/ SaveMeta(c) \/ MetaKeep(c) \/ MetaWrite(c)
  <2>1. /\ pc' = [pc EXCEPT ![c] = pc'[c]] /\ req' = [req EXCEPT ![c] = req'[c]]
        /\ pc'[c] \notin {"party.read", "party.write"}
        /\ UNCHANGED <<rows, clientele, invoices, expenses>>
    BY <1>0, <1>4 DEF HideParty, PartyHide, SaveMeta, MetaKeep, MetaWrite, partyVars
  <2>2. PartyRequested(c)'
    BY <2>1 DEF PartyRequested
  <2> QED  BY <2>1, <2>2, PartyMoves
<1>5. CASE MirrorFind(c)
  <2>1. UNCHANGED <<pc, req, rows, clientele, invoices, expenses>>
    BY <1>5 DEF MirrorFind, requestVars
  <2>2. PartyRequested(c)'
    BY <1>0, <2>1 DEF PartyRequested, RowFits, FormFits
  <2> QED  BY <1>0, <2>1, <2>2, PartyMoves
<1>6. CASE MirrorWrite(c)
  <2>1. /\ UNCHANGED <<pc, req, clientele, invoices, expenses>>
        /\ \/ rows' = rows
           \/ rows' = [rows EXCEPT ![M(Head(mirror[c].left).id)] =
                         [kind |-> "supplier", customer |-> None,
                          vendor |-> MirrorKey[Head(mirror[c].left).name],
                          opening |-> 0, side |-> None]]
    BY <1>6 DEF MirrorWrite, requestVars
  <2>2. CASE rows' = rows
    <3>1. PartyRequested(c)'
      BY <1>0, <2>1 DEF PartyRequested, RowFits, FormFits
    <3> QED  BY <1>0, <2>1, <2>2, <3>1, PartyMoves
  <2>3. CASE rows' # rows
    <3>1. PICK id, row : /\ id = M(Head(mirror[c].left).id)
                         /\ row = [kind |-> "supplier", customer |-> None,
                                   vendor |-> MirrorKey[Head(mirror[c].left).name],
                                   opening |-> 0, side |-> None]
      OBVIOUS
    <3>2. id[1] = "m"
      BY <3>1 DEF M
    <3>3. row.kind = "supplier" /\ row.customer = None /\ row.opening = 0
      BY <3>1
    <3>4. RowFits(id, row)
      BY <1>0, <3>2, <3>3, NobodyIsNone DEF RowFits
    <3>5. rows' = [rows EXCEPT ![id] = row]
      BY <2>1, <2>3, <3>1
    <3>6. RowsFit' /\ rows' = [i \in PartyIds |-> rows'[i]]
      BY <2>1, <3>4, <3>5, RowWritten
    <3>7. \A d \in Clients : PartyRequested(d)'
      BY <1>0, <2>1 DEF PartyRequested, RowFits, FormFits
    <3> QED  BY <1>0, <2>1, <3>6, <3>7 DEF PartyInv
  <2> QED  BY <2>2, <2>3
<1>7. CASE PayInvoice(c) \/ PayExpense(c)
  <2>1. UNCHANGED <<pc, req, rows, clientele>>
    BY <1>7 DEF PayInvoice, PayExpense
  <2>2. Sound(invoices, expenses)'
    <3>1. CASE PayInvoice(c)
      <4>1. PICK i \in invoices, day \in LedgerDays :
              invoices' = (invoices \ {i}) \cup
                {[i EXCEPT !.payments = @ \cup {[day |-> day, amount |-> Outstanding(i)]}]}
        BY <3>1 DEF PayInvoice
      <4>2. PICK j : j = [i EXCEPT !.payments = @ \cup {[day |-> day, amount |-> Outstanding(i)]}]
        OBVIOUS
      <4>3. Sound((invoices \ {i}) \cup {j}, expenses)
        BY <1>0, <4>2, PaymentSound
      <4>4. invoices' = (invoices \ {i}) \cup {j} /\ expenses' = expenses
        BY <3>1, <4>1, <4>2 DEF PayInvoice
      <4> QED  BY <4>3, <4>4
    <3>2. CASE PayExpense(c)
      <4>1. PICK e \in expenses :
              expenses' = (expenses \ {e}) \cup {[e EXCEPT !.status = "PAID"]}
        BY <3>2 DEF PayExpense
      <4>2. Sound(invoices, (expenses \ {e}) \cup {[e EXCEPT !.status = "PAID"]})
        BY <1>0, ExpenseSound
      <4>3. invoices' = invoices
        BY <3>2 DEF PayExpense
      <4> QED  BY <4>1, <4>2, <4>3
    <3> QED  BY <1>7, <3>1, <3>2
  <2>3. RowsFit' /\ \A d \in Clients : PartyRequested(d)'
    BY <1>0, <2>1 DEF RowsFit, Rows, PartyRequested, RowFits, FormFits
  <2> QED  BY <1>0, <2>1, <2>2, <2>3 DEF PartyInv
<1>8. CASE CustomerGone(c)
  <2>1. UNCHANGED <<pc, req, rows, invoices, expenses>> /\ clientele' \subseteq clientele
    BY <1>8 DEF CustomerGone
  <2>2. RowsFit' /\ \A d \in Clients : PartyRequested(d)'
    BY <1>0, <2>1 DEF RowsFit, Rows, PartyRequested, RowFits, FormFits
  <2> QED  BY <1>0, <2>1, <2>2 DEF PartyInv
<1> QED  BY <1>1, <1>2, <1>3, <1>4, <1>5, <1>6, <1>7, <1>8

LEMMA PartyInvHolds == PartySpec => []PartyInv
<1>1. ASSUME PartyInv, UNCHANGED <<partyVars, requestVars>>  PROVE PartyInv'
  <2>1. UNCHANGED <<pc, req, rows, clientele, invoices, expenses>>
    BY <1>1 DEF partyVars, requestVars
  <2>2. RowsFit' /\ \A d \in Clients : PartyRequested(d)'
    BY <1>1, <2>1 DEF PartyInv, RowsFit, Rows, PartyRequested, RowFits, FormFits
  <2> QED  BY <1>1, <2>1, <2>2 DEF PartyInv
<1>2. PartyInv /\ [PartyStep]_<<partyVars, requestVars>> => PartyInv'
  BY <1>1, PartyStepSound
<1> QED  BY <1>2, PartyInitSound, PTL DEF PartySpec

\* The party that a public statement is made up for, and the one that is listed.
LEMMA PublicOpens ==
  ASSUME RowsFit, NEW k \in clientele, NEW p, p = FromCustomer(k), NEW q, q = PublicParty(k)
  PROVE  q.opening \in Nat /\ CurrentBalance(q) = CurrentBalance(p)
<1>1. PICK ids : ids = RowsAt(C(k))
  OBVIOUS
<1>2. /\ p.kind = "customer" /\ p.customer = k /\ p.opening \in Nat
  BY CustomerEntry
<1>3. PICK base : base = [Blank("customer") EXCEPT !.customer = k]
  OBVIOUS
<1>4. p = Merged(C(k), base, ids)
  BY <1>1, <1>3 DEF FromCustomer
<1>5. base = [id |-> None, kind |-> "customer", customer |-> k, vendor |-> None, opening |-> 0,
              side |-> None]
  BY <1>3 DEF Blank
<1>6. q = [id |-> C(k), kind |-> "customer", customer |-> k, vendor |-> None,
           opening |-> IF ids = {} THEN 0 ELSE rows[First(ids)].opening,
           side |-> IF ids = {} \/ rows[First(ids)].side = None THEN "toCollect"
                    ELSE rows[First(ids)].side]
  BY <1>1 DEF PublicParty, Blank
<1>7. q.kind = "customer" /\ q.customer = k
  BY <1>6
<1>8. q.opening = p.opening /\ SignedOpening(q) = SignedOpening(p)
  <2>1. CASE ids = {}
    <3>1. p.opening = 0 /\ p.side = None /\ q.opening = 0 /\ q.side = "toCollect"
      BY <1>4, <1>5, <1>6, <2>1 DEF Merged
    <3> QED  BY <1>2, <1>7, <3>1 DEF SignedOpening
  <2>2. CASE ids # {}
    <3>1. PICK row : row = rows[First(ids)]
      OBVIOUS
    <3>2. p = [id |-> C(k), kind |-> row.kind, opening |-> row.opening, side |-> row.side,
               customer |-> IF row.customer = None THEN base.customer ELSE row.customer,
               vendor   |-> IF row.vendor = None THEN base.vendor ELSE row.vendor]
      BY <1>4, <2>2, <3>1 DEF Merged
    <3>3. /\ p.opening = row.opening /\ p.side = row.side /\ q.opening = row.opening
          /\ q.side = IF row.side = None THEN "toCollect" ELSE row.side
      BY <1>6, <2>2, <3>1, <3>2
    <3> QED  BY <1>2, <1>7, <3>3 DEF SignedOpening
  <2> QED  BY <2>1, <2>2
<1>9. InvoicesOf(q) = InvoicesOf(p) /\ ExpensesOf(q) = ExpensesOf(p)
  BY <1>2, <1>7 DEF InvoicesOf, ExpensesOf
<1> QED  BY <1>2, <1>8, <1>9 DEF CurrentBalance

(* Wherever a year is cut, what moved before and after takes a party from its *)
(* opening balance to the balance it is listed with, in the summary and on    *)
(* the statement handed to the public too, for any documents, any days and    *)
(* any rows (buildPartyStatement, buildPartySummary,                          *)
(* buildPublicCustomerStatement).                                             *)
THEOREM StatementsReach == PartySpec => []StatementsReachBalance
<1>1. ASSUME PartyInv  PROVE StatementsReachBalance
  <2>0. RowsFit /\ Sound(invoices, expenses)
    BY <1>1 DEF PartyInv
  <2> SUFFICES ASSUME NEW key \in DOMAIN Listing, NEW p, p = Listing[key], NEW d \in LedgerDays
      PROVE  /\ (\A i \in InvoicesOf(p) : i.wallet = 0) =>
                  /\ SignedOpening(p) + Movement(p, Upto(d)) + Movement(p, After(d)) = CurrentBalance(p)
                  /\ \A part \in {Upto(d), After(d)} :
                       Summary(p, part).sales - Summary(p, part).received = Movement(p, part)
             /\ p.customer \in clientele /\ p.kind = "customer" =>
                  LET q == PublicParty(p.customer) IN
                  SignedOpening(q) + PublicMovement(q, Upto(d)) + PublicMovement(q, After(d))
                    = CurrentBalance(p)
    BY DEF StatementsReachBalance, Upto, After
  <2>1. p.opening \in Nat
    BY <2>0, ListedCustomers DEF EntryFits
  <2>2. ASSUME \A i \in InvoicesOf(p) : i.wallet = 0
        PROVE  SignedOpening(p) + Movement(p, Upto(d)) + Movement(p, After(d)) = CurrentBalance(p)
    BY <2>0, <2>1, <2>2, StatementReaches
  <2>3. \A part \in {Upto(d), After(d)} :
          Summary(p, part).sales - Summary(p, part).received = Movement(p, part)
    BY <2>0, SummaryMoves
  <2>4. ASSUME p.customer \in clientele, p.kind = "customer", NEW q, q = PublicParty(p.customer)
        PROVE  SignedOpening(q) + PublicMovement(q, Upto(d)) + PublicMovement(q, After(d))
                 = CurrentBalance(p)
    <3>1. PICK k \in clientele : k = p.customer /\ p = FromCustomer(k)
      <4>1. PICK k \in clientele : key = C(k)
        BY <2>0, <2>4, ListedCustomers
      <4>2. p = FromCustomer(k)
        BY <2>0, <4>1, ListedCustomers
      <4> QED  BY <2>0, <4>2, CustomerEntry
    <3>2. q.opening \in Nat /\ CurrentBalance(q) = CurrentBalance(p)
      BY <2>0, <2>4, <3>1, PublicOpens
    <3> QED  BY <2>0, <3>2, PublicReaches
  <2> QED  BY <2>2, <2>3, <2>4
<1> QED  BY <1>1, PartyInvHolds, PTL

-----------------------------------------------------------------------------
(***************************************************************************)
(* Every document is in one book, proved for any directory, rows, links    *)
(* and mirroring.  A plain name heads its spellings, so the list has one   *)
(* entry for it, which keeps its name whatever row completes it; and any   *)
(* other row of that name is passed over, because its vendor is shown.     *)
(***************************************************************************)

\* The vendor directory is a list of profiles, the one that a save holds too.
Profiled(c) == pc[c] = "meta.write" => req[c].vendors \in Seq([id : Profiles, name : VendorNames])

DirectoryInv ==
  /\ directory \in Seq([id : Profiles, name : VendorNames])
  /\ pc = [c \in Clients |-> pc[c]]
  /\ req = [c \in Clients |-> req[c]]
  /\ \A c \in Clients : Profiled(c)

LEMMA DirectoryStepSound ==
  ASSUME DirectoryInv, PartyStep
  PROVE  DirectoryInv'
<1> USE DEF Arrive, Goto, Answer, AtOnce
<1>0. <<>> \in Seq([id : Profiles, name : VendorNames])
  OBVIOUS
<1> PICK c \in Clients :
       \/ PostParty(c) \/ PutParty(c) \/ PartyRead(c) \/ PartyWrite(c) \/ HideParty(c) \/ PartyHide(c)
       \/ SaveMeta(c) \/ MetaKeep(c) \/ MetaWrite(c) \/ MirrorFind(c) \/ MirrorWrite(c)
       \/ PayInvoice(c) \/ PayExpense(c) \/ CustomerGone(c)
  BY DEF PartyStep
<1>1. CASE PostParty(c) \/ PutParty(c) \/ PartyRead(c) \/ PartyWrite(c) \/ HideParty(c) \/ PartyHide(c)
  <2>1. /\ pc' = [pc EXCEPT ![c] = pc'[c]] /\ req' = [req EXCEPT ![c] = req'[c]]
        /\ pc'[c] # "meta.write" /\ UNCHANGED directory
    <3>1. CASE PostParty(c) \/ PutParty(c)
      BY <3>1 DEF PostParty, PutParty, partyVars, DirectoryInv
    <3>2. CASE PartyRead(c) \/ PartyWrite(c)
      BY <3>2 DEF PartyRead, PartyWrite, partyVars, DirectoryInv
    <3>3. CASE HideParty(c) \/ PartyHide(c)
      BY <3>3 DEF HideParty, PartyHide, partyVars, DirectoryInv
    <3> QED  BY <1>1, <3>1, <3>2, <3>3
  <2> QED  BY <2>1 DEF DirectoryInv, Profiled
<1>2. CASE SaveMeta(c)
  <2>1. PICK d \in Directories \cup {<<>>} :
          /\ pc' = [pc EXCEPT ![c] = IF d = <<>> THEN "meta.keep" ELSE "meta.write"]
          /\ req' = [req EXCEPT ![c] = [vendors |-> d]]
          /\ UNCHANGED directory
    BY <1>2 DEF SaveMeta, partyVars
  <2>2. d \in Seq([id : Profiles, name : VendorNames])
    BY <1>0, PartyAssumption DEF PartyAssumption
  <2> QED  BY <2>1, <2>2 DEF DirectoryInv, Profiled
<1>3. CASE MetaKeep(c)
  BY <1>3 DEF MetaKeep, DirectoryInv, Profiled, partyVars
<1>4. CASE MetaWrite(c)
  BY <1>4 DEF MetaWrite, DirectoryInv, Profiled
<1>5. CASE MirrorFind(c) \/ MirrorWrite(c) \/ PayInvoice(c) \/ PayExpense(c) \/ CustomerGone(c)
  <2>1. UNCHANGED <<pc, req, directory>>
    BY <1>5 DEF MirrorFind, MirrorWrite, PayInvoice, PayExpense, CustomerGone, requestVars
  <2> QED  BY <2>1 DEF DirectoryInv, Profiled
<1> QED  BY <1>1, <1>2, <1>3, <1>4, <1>5

LEMMA DirectoryInvHolds == PartySpec => []DirectoryInv
<1>1. PartyInit /\ RequestInit => DirectoryInv
  <2>1. <<>> \in Seq([id : Profiles, name : VendorNames])
    OBVIOUS
  <2> QED  BY <2>1 DEF PartyInit, RequestInit, DirectoryInv, Profiled
<1>2. ASSUME DirectoryInv, UNCHANGED <<partyVars, requestVars>>  PROVE DirectoryInv'
  BY <1>2 DEF partyVars, requestVars, DirectoryInv, Profiled
<1>3. DirectoryInv /\ [PartyStep]_<<partyVars, requestVars>> => DirectoryInv'
  BY <1>2, DirectoryStepSound
<1> QED  BY <1>1, <1>3, PTL DEF PartySpec

\* A plain name heads its spellings.
LEMMA PlainHeads ==
  ASSUME DOMAIN directory \subseteq Nat, NEW n \in Vendors, Plain(n)
  PROVE  n \in Heads
<1>1. PICK same : same = Spelled(Normalized[n])
  OBVIOUS
<1>2. ASSUME same # {}  PROVE n = directory[Min(same)].name
  <2>1. same \subseteq Nat
    BY <1>1 DEF Spelled
  <2>2. \E x \in same : \A y \in same : x <= y
    BY <1>2, <2>1, LeastOne
  <2>3. Min(same) \in same
    BY <2>2 DEF Min
  <2>4. PICK i \in DOMAIN directory : i = Min(same) /\ Normalized[directory[i].name] = Normalized[n]
    BY <1>1, <2>3 DEF Spelled
  <2>5. directory[i].name \in Vendors
    BY DEF Vendors
  <2> QED  BY <2>4, <2>5 DEF Plain
<1> QED  BY <1>1, <1>2 DEF Heads

\* The entry of a plain vendor, and of another.
LEMMA PlainEntry ==
  ASSUME RowsFit, NEW n, n # None, Plain(n)
  PROVE  /\ FromVendor(n).kind = "supplier" /\ FromVendor(n).vendor = n
         /\ \A m \in Vendors : VendorId(m) # VendorId(n) => FromVendor(m).vendor # n
<1>1. ASSUME NEW m, m = n \/ (m \in Vendors /\ VendorId(m) # VendorId(n))
      PROVE  /\ m = n => FromVendor(m).kind = "supplier" /\ FromVendor(m).vendor = n
             /\ m # n => FromVendor(m).vendor # n
  <2>1. PICK key : key = VendorId(m)
    OBVIOUS
  <2>2. key[1] = "v"
    BY <2>1 DEF VendorId, V
  <2>3. PICK base : base = [Blank("supplier") EXCEPT !.vendor = m]
    OBVIOUS
  <2>4. PICK ids : ids = IF RowsAt(key) # {} THEN RowsAt(key) ELSE Suppliers(Normalized[m])
    OBVIOUS
  <2>5. FromVendor(m) = Merged(key, base, ids)
    BY <2>1, <2>3, <2>4 DEF FromVendor
  <2>6. base = [id |-> None, kind |-> "supplier", customer |-> None, vendor |-> m, opening |-> 0,
                side |-> None]
    BY <2>3 DEF Blank
  <2>7. CASE ids = {}
    BY <2>5, <2>6, <2>7 DEF Merged
  <2>8. CASE ids # {}
    <3>1. PICK i : i = First(ids)
      OBVIOUS
    <3>2. PICK row : row = rows[i]
      OBVIOUS
    <3>3. i \in RowsAt(key) \/ i \in Suppliers(Normalized[m])
      BY <2>4, <2>8, <3>1, FirstIsOne
    <3>4. /\ FromVendor(m).kind = row.kind
          /\ FromVendor(m).vendor = IF row.vendor = None THEN m ELSE row.vendor
      <4>1. Merged(key, base, ids) =
              [id |-> key, kind |-> row.kind, opening |-> row.opening, side |-> row.side,
               customer |-> IF row.customer = None THEN base.customer ELSE row.customer,
               vendor   |-> IF row.vendor = None THEN base.vendor ELSE row.vendor]
        BY <2>8, <3>1, <3>2 DEF Merged
      <4> QED  BY <2>5, <2>6, <4>1
    <3>5. CASE i \in RowsAt(key)
      <4>1. i = key /\ i \in Rows
        BY <2>2, <3>5, RowsOfKey DEF RowsAt
      <4>2. row.kind = "supplier"
        BY <2>2, <3>2, <4>1 DEF RowsFit, RowFits
      <4>3. IF i = VendorId(n) THEN row.vendor \in {n, None} ELSE row.vendor # n
        BY <2>2, <3>2, <4>1 DEF Plain
      <4>4. i = VendorId(n) <=> m = n
        BY <1>1, <2>1, <4>1
      <4> QED  BY <3>4, <4>2, <4>3, <4>4
    <3>6. CASE i \in Suppliers(Normalized[m])
      <4>1. /\ i \in Rows /\ row.kind = "supplier" /\ row.vendor # None
            /\ Normalized[row.vendor] = Normalized[m]
        BY <3>2, <3>6 DEF Suppliers
      <4>2. row.vendor \in {rows[j].vendor : j \in Rows} \ {None}
        BY <3>2, <4>1
      <4>3. \A v \in Vendors \cup ({rows[j].vendor : j \in Rows} \ {None}) :
              Normalized[v] = Normalized[n] => v = n
        BY DEF Plain
      <4>4. m = n => row.vendor = n
        BY <4>1, <4>2, <4>3
      <4>5. m # n => row.vendor # n
        BY <1>1, <4>1, <4>3
      <4> QED  BY <3>4, <4>1, <4>4, <4>5
    <3> QED  BY <3>3, <3>5, <3>6
  <2> QED  BY <2>7, <2>8
<1>2. FromVendor(n).kind = "supplier" /\ FromVendor(n).vendor = n
  BY <1>1
<1>3. ASSUME NEW m \in Vendors, VendorId(m) # VendorId(n)  PROVE FromVendor(m).vendor # n
  BY <1>1, <1>3
<1> QED  BY <1>2, <1>3

\* Of all that is listed one entry is a plain vendor's.
LEMMA ListedVendor ==
  ASSUME RowsFit, DOMAIN directory \subseteq Nat, NEW n \in Vendors, n # None, Plain(n)
  PROVE  /\ VendorId(n) \in DOMAIN Listing
         /\ Listing[VendorId(n)].kind = "supplier" /\ Listing[VendorId(n)].vendor = n
         /\ \A key \in DOMAIN Listing :
              Listing[key].kind = "supplier" /\ Listing[key].vendor = n => key = VendorId(n)
<1>1. PICK known : known = Canonical
  OBVIOUS
<1>2. PICK owned : owned = {key \in PartyIds \ known : /\ RowsAt(key) # {}
                                                     /\ ~Shown(First(RowsAt(key)), known)}
  OBVIOUS
<1>3. Listing =
        [key \in known \cup owned |->
           IF key \in owned THEN LET i == First(RowsAt(key)) IN Merged(i, Blank("supplier"), {i})
           ELSE IF key[1] = "c" THEN FromCustomer(key[2])
           ELSE FromVendor(CHOOSE m \in Heads : VendorId(m) = key)]
  BY <1>1, <1>2 DEF Listing
<1>4. PICK K : K = VendorId(n)
  OBVIOUS
<1>5. n \in Heads
  BY PlainHeads
<1>6. K \in known /\ K \notin owned /\ K[1] = "v"
  BY <1>1, <1>2, <1>4, <1>5 DEF Canonical, VendorId, V
<1>7. ASSUME NEW key \in known \ owned, key[1] # "c"
      PROVE  \E m \in Vendors : VendorId(m) = key /\ Listing[key] = FromVendor(m)
  <2>1. PICK h \in Heads : VendorId(h) = key
    BY <1>1, <1>7 DEF Canonical, C
  <2>2. PICK m : m = CHOOSE v \in Heads : VendorId(v) = key
    OBVIOUS
  <2>3. m \in Heads /\ VendorId(m) = key
    BY <2>1, <2>2
  <2>4. Listing[key] = FromVendor(m)
    BY <1>3, <1>7, <2>2
  <2> QED  BY <2>3, <2>4 DEF Heads
<1>8. K \in DOMAIN Listing /\ Listing[K].kind = "supplier" /\ Listing[K].vendor = n
  <2>1. PICK m \in Vendors : VendorId(m) = K /\ Listing[K] = FromVendor(m)
    BY <1>6, <1>7
  <2>2. m = n
    BY <1>4, <2>1 DEF Plain
  <2> QED  BY <1>3, <1>6, <2>1, <2>2, PlainEntry
<1>9. ASSUME NEW key \in DOMAIN Listing, Listing[key].kind = "supplier", Listing[key].vendor = n
      PROVE  key = K
  <2>1. key \in known \cup owned
    BY <1>3
  <2>2. CASE key \in owned
    <3>1. PICK i : i = First(RowsAt(key))
      OBVIOUS
    <3>2. i \in Rows /\ ~Shown(i, known)
      BY <1>2, <2>2, <3>1, FirstIsOne DEF RowsAt
    <3>3. Listing[key] = Merged(i, Blank("supplier"), {i})
      BY <1>3, <2>1, <2>2, <3>1
    <3>4. rows[i].kind = "supplier" /\ rows[i].vendor = n
      BY <1>1, <1>9, <3>2, <3>3, OwnEntry
    <3> QED  BY <1>4, <1>6, <3>2, <3>4 DEF Shown
  <2>3. CASE key \in known \ owned /\ key[1] = "c"
    <3>1. PICK k \in clientele : key = C(k)
      BY <1>1, <2>3 DEF Canonical, VendorId, V
    <3> QED  BY <1>9, <3>1, ListedCustomers, CustomerEntry
  <2>4. CASE key \in known \ owned /\ key[1] # "c"
    <3>1. PICK m \in Vendors : VendorId(m) = key /\ Listing[key] = FromVendor(m)
      BY <1>7, <2>4
    <3> QED  BY <1>4, <1>9, <3>1, PlainEntry
  <2> QED  BY <2>1, <2>2, <2>3, <2>4
<1> QED  BY <1>4, <1>8, <1>9

\* One book, shown or hidden, is once.
LEMMA OneBook ==
  ASSUME NEW books, NEW book, books = {book}
  PROVE  Once(books)
<1>1. PICK all : all = Listing
  OBVIOUS
<1>2. PICK shown : shown = {b \in books : all[b[1]].id \notin hidden}
  OBVIOUS
<1>3. shown = {} \/ shown = {book}
  BY <1>2
<1>4. Cardinality(shown) \in {0, 1}
  BY <1>3, FS_EmptySet, FS_Singleton
<1> QED  BY <1>1, <1>2, <1>4 DEF Once

\* An invoice of a customer that is there has the customer's book.
LEMMA InvoiceBook ==
  ASSUME RowsFit, NEW i \in invoices, i.customer \in clientele
  PROVE  Once({b \in Books : i \in b[2]})
<1>1. PICK k \in clientele : k = i.customer
  OBVIOUS
<1>2. PICK all : all = Listing
  OBVIOUS
<1>3. PICK book : book = <<C(k), InvoicesOf(all[C(k)]), ExpensesOf(all[C(k)])>>
  OBVIOUS
<1>4. book \in Books /\ i \in book[2]
  <2>1. C(k) \in DOMAIN all /\ all[C(k)].kind = "customer" /\ all[C(k)].customer = k
    BY <1>2, ListedCustomers, CustomerEntry
  <2>2. i \in InvoicesOf(all[C(k)])
    BY <1>1, <2>1, NobodyIsNone DEF InvoicesOf
  <2> QED  BY <1>2, <1>3, <2>1, <2>2 DEF Books
<1>5. ASSUME NEW b \in Books, i \in b[2]  PROVE b = book
  <2>1. PICK key \in DOMAIN all : b = <<key, InvoicesOf(all[key]), ExpensesOf(all[key])>>
    BY <1>2 DEF Books
  <2>2. all[key].customer = k
    BY <1>1, <1>5, <2>1 DEF InvoicesOf
  <2>3. PICK k2 \in clientele : key = C(k2)
    BY <1>2, <2>2, ListedCustomers
  <2>4. all[key].customer = k2
    BY <1>2, <2>3, ListedCustomers, CustomerEntry
  <2> QED  BY <1>3, <2>1, <2>2, <2>3, <2>4
<1>6. {b \in Books : i \in b[2]} = {book}
  BY <1>4, <1>5
<1> QED  BY <1>6, OneBook

\* An expense of a plain vendor has the vendor's.
LEMMA ExpenseBook ==
  ASSUME RowsFit, DOMAIN directory \subseteq Nat, Sound(invoices, expenses),
         NEW e \in expenses, Plain(e.vendor)
  PROVE  Once({b \in Books : e \in b[3]})
<1>1. PICK n : n = e.vendor
  OBVIOUS
<1>2. n \in Vendors /\ n # None /\ Plain(n)
  BY <1>1, PartyAssumption DEF Vendors, Sound, Expense, PartyAssumption
<1>3. PICK all, K : all = Listing /\ K = VendorId(n)
  OBVIOUS
<1>4. PICK book : book = <<K, InvoicesOf(all[K]), ExpensesOf(all[K])>>
  OBVIOUS
<1>5. /\ K \in DOMAIN all /\ all[K].kind = "supplier" /\ all[K].vendor = n
      /\ \A key \in DOMAIN all : all[key].kind = "supplier" /\ all[key].vendor = n => key = K
  BY <1>2, <1>3, ListedVendor
<1>6. book \in Books /\ e \in book[3]
  <2>1. e \in ExpensesOf(all[K])
    BY <1>1, <1>2, <1>5 DEF ExpensesOf
  <2> QED  BY <1>3, <1>4, <1>5, <2>1 DEF Books
<1>7. ASSUME NEW b \in Books, e \in b[3]  PROVE b = book
  <2>1. PICK key \in DOMAIN all : b = <<key, InvoicesOf(all[key]), ExpensesOf(all[key])>>
    BY <1>3 DEF Books
  <2>2. all[key].kind = "supplier" /\ all[key].vendor = n
    BY <1>1, <1>7, <2>1 DEF ExpensesOf
  <2> QED  BY <1>4, <1>5, <2>1, <2>2
<1>8. {b \in Books : e \in b[3]} = {book}
  BY <1>6, <1>7
<1> QED  BY <1>8, OneBook

(* However customers and vendors are also stored as rows, linked, mirrored   *)
(* and hidden, an invoice of a customer that is there and an expense of a     *)
(* plainly named vendor are in the ledger of exactly one party of the list,   *)
(* and not in two that are shown (getParties, partyDocumentsForParty).        *)
THEOREM CountedInOneBook == PartySpec => []DocumentCountedOnce
<1>1. ASSUME PartyInv, DirectoryInv  PROVE DocumentCountedOnce
  <2>1. RowsFit /\ Sound(invoices, expenses)
    BY <1>1 DEF PartyInv
  <2>2. DOMAIN directory \subseteq Nat
    <3>1. DOMAIN directory = 1..Len(directory) /\ Len(directory) \in Nat
      BY <1>1 DEF DirectoryInv
    <3> QED  BY <3>1
  <2>3. InvoicesOnce
    BY <2>1, InvoiceBook DEF InvoicesOnce
  <2>4. ExpensesOnce
    BY <2>1, <2>2, ExpenseBook DEF ExpensesOnce
  <2> QED  BY <2>3, <2>4 DEF DocumentCountedOnce
<1> QED  BY <1>1, PartyInvHolds, DirectoryInvHolds, PTL
=============================================================================

--------------------------- MODULE CustomerPortal ---------------------------
(***************************************************************************)
(* How the customers of the Registry sign in to their portal               *)
(* (customer-auth.service.ts, customer-credentials-notify.service.ts): by  *)
(* phone number and password, as there is no other key.  A customer gets a *)
(* password when created or when staff set one, is told it by WhatsApp     *)
(* after the row is written, and may change it.  The wording and the log   *)
(* of the messages are left out; hashing is between a read and a write.    *)
(***************************************************************************)
EXTENDS Registry

CONSTANT Chosen  \* passwords that staff or customers choose

Secrets == Chosen \cup {<<"default", p>> : p \in Phones}

ASSUME PortalAssumption == Null \notin Secrets

VARIABLES
  secrets,   \* per customer: the password in force, or Null
  inactive,  \* the customers with isInactive
  tokens,    \* the customers with a token, good for thirty days
  outbox,    \* the messages that handlers are about to send
  told,      \* per customer: the last message since the password was set, or Null
  alone      \* ghost: no request came while another, or a message, was under way

portalVars == <<secrets, inactive, tokens, outbox, told, alone>>

PortalInit ==
  /\ secrets = [k \in Customers |-> Null]
  /\ inactive = {}
  /\ tokens = {}
  /\ outbox = {}
  /\ told = [k \in Customers |-> Null]
  /\ alone = TRUE

\* generateCustomerPassword: the first name and four digits of the phone.
Default(p) == <<"default", p>>

Tell(k, w) == [customer |-> k, phone |-> customers'[k].phone, password |-> w]

\* Whatever the customer was told before is void once the password is set.
SetSecret(k, w) ==
  /\ secrets' = [secrets EXCEPT ![k] = w]
  /\ told' = [told EXCEPT ![k] = Null]

SetActive(k) == \E off \in BOOLEAN : inactive' = IF off THEN inactive \cup {k} ELSE inactive \ {k}

-----------------------------------------------------------------------------
(* Staff                                                                    *)

\* createCustomer: a password that staff chose is not sent.
PortalInsert(c) ==
  /\ CustomerInsert(c)
  /\ \E k \in Customers :
       /\ customers[k] # customers'[k]
       /\ SetActive(k)
       /\ \/ \E w \in Chosen : SetSecret(k, w) /\ UNCHANGED outbox
          \/ LET w == Default(customers'[k].phone) IN
             SetSecret(k, w) /\ outbox' = outbox \cup {Tell(k, w)}
  /\ UNCHANGED tokens

\* Mutant: the update leaves out the password that its message names.
NewSecret_Old(k, w) == SetSecret(k, secrets[k])

NewSecret(k, w) == SetSecret(k, w)

\* updateCustomer: of the fields, the phone and perhaps the password.
PortalUpdate(c) ==
  LET k == req[c].customer IN
  /\ UpdateWrite(c)
  /\ IF k \in Registered
     THEN /\ SetActive(k)
          /\ \/ UNCHANGED <<secrets, told, outbox>>
             \/ \E w \in Chosen : NewSecret(k, w) /\ outbox' = outbox \cup {Tell(k, w)}
     ELSE UNCHANGED <<secrets, told, outbox, inactive>>
  /\ UNCHANGED tokens

\* An import creates customers without a password.
PortalRegistry(c) ==
  /\ CustomerStep(c) \/ DeletionStep(c)
  /\ pc[c] \notin {"customer.insert", "update.write"}
  /\ UNCHANGED <<secrets, inactive, tokens, outbox, told>>

\* sendCustomerCredentialsWhatsApp, whose failure fails nothing else.
Deliver(m) ==
  /\ outbox' = outbox \ {m}
  /\ told' = [told EXCEPT ![m.customer] = m]
  /\ UNCHANGED <<secrets, inactive, tokens>>

Undelivered(m) ==
  /\ outbox' = outbox \ {m}
  /\ UNCHANGED <<secrets, inactive, tokens, told>>

-----------------------------------------------------------------------------
(* The customer                                                             *)

\* The row the query may return: any with that number (LIMIT 1).
RowsOf(p) == IF p \in ShortPhones THEN {} ELSE Holders(p)

Opens(k, w) == k \notin inactive /\ secrets[k] # Null /\ secrets[k] = w

\* authenticateCustomer, signCustomerAuthToken
SignIn(c) ==
  /\ AtOnce(c)
  /\ \E p \in Phones, w \in Secrets : \E k \in RowsOf(p) : Opens(k, w) /\ tokens' = tokens \cup {k}
  /\ UNCHANGED <<customers, vehicles, secrets, inactive, outbox, told>>

ChangePassword(c) ==
  /\ \E k \in tokens, old \in Secrets, new \in Chosen :
       Arrive(c, "change.find", [customer |-> k, old |-> old, new |-> new])
  /\ UNCHANGED <<customers, vehicles, secrets, inactive, tokens, outbox, told>>

\* setCustomerPassword does not ask whether the customer is inactive.
PasswordFind(c) ==
  LET k == req[c].customer IN
  /\ pc[c] = "change.find"
  /\ IF k \in Registered /\ secrets[k] = req[c].old THEN Goto(c, "change.write", req[c]) ELSE Answer(c)
  /\ UNCHANGED <<customers, vehicles, secrets, inactive, tokens, outbox, told>>

PasswordWrite(c) ==
  LET k == req[c].customer IN
  /\ pc[c] = "change.write"
  /\ IF k \in Registered THEN SetSecret(k, req[c].new) ELSE UNCHANGED <<secrets, told>>
  /\ Answer(c)
  /\ UNCHANGED <<customers, vehicles, inactive, tokens, outbox>>

PortalRequest ==
  /\ \E c \in Clients :
       \/ PortalInsert(c) \/ PortalUpdate(c) \/ PortalRegistry(c)
       \/ SignIn(c) \/ ChangePassword(c) \/ PasswordFind(c) \/ PasswordWrite(c)
  /\ Remember

PortalStep ==
  /\ \/ PortalRequest
     \/ \E m \in outbox : (Deliver(m) \/ Undelivered(m)) /\ UNCHANGED <<requestVars, registryVars>>
  /\ alone' = (alone /\ (sent' # sent => Quiet /\ outbox = {}))

\* The portal of a workshop that has no customers yet.
PortalSpec ==
  /\ RegistryInit /\ Registered = {} /\ PortalInit /\ RequestInit
  /\ [][PortalStep]_<<registryVars, portalVars, requestVars>>

-----------------------------------------------------------------------------
(* Properties                                                               *)

PortalTypeOK ==
  /\ secrets \in [Customers -> Secrets \cup {Null}]
  /\ inactive \cup tokens \subseteq Customers
  /\ outbox \subseteq [customer : Customers, phone : Phones, password : Secrets]
  /\ \A k \in Customers : told[k] # Null => told[k].customer = k
  /\ alone \in BOOLEAN

(* As long as requests come one after the other, what a customer was told    *)
(* last opens that customer's portal and no other: the phone number leads to *)
(* one row, with the password of the message, after any creations, imports,  *)
(* changes of numbers and passwords, and deletions.  A number of fewer than  *)
(* ten digits opens nothing, though its customer is sent a password too.     *)
ToldOpensPortal ==
  \A k \in Numbered \ inactive :
    alone /\ told[k] # Null /\ told[k].phone = customers[k].phone =>
      RowsOf(told[k].phone) = {k} /\ Opens(k, told[k].password)
=============================================================================

--------------------------- MODULE ProfilesProofs ---------------------------
(***************************************************************************)
(* Proofs about Profiles, for every set of users, tokens, messages,        *)
(* sessions, handlers and forms and every bound: install links and the     *)
(* messages of the pages implement OneTime, profiles follow the files and  *)
(* a user's own rules come out whole.  TLC finds the invariants and the    *)
(* refinements true on MCProfiles.                                         *)
(***************************************************************************)
EXTENDS Profiles, TLAPS

-----------------------------------------------------------------------------
(* Links.  Where a link is decides what is known of it. *)

Holds(h, t) == hand[h].pc = "serve" /\ hand[h].token = t
Fresh(t)    == tokens[t] # None /\ ~tokens[t].old

\* Requests and entries are where they are looked up.
LinkDomains == DOMAIN hand = Handlers /\ DOMAIN tokens = Tokens /\ DOMAIN links = Tokens

\* A token in the store names the owner of a link that has reached nobody.
StoredAreUnspent ==
    \A t \in Tokens : tokens[t] # None =>
        tokens[t].user \in Users /\ links[t] = [owner |-> tokens[t].user, got |-> None]

\* So does a request that serves a profile, and its token has left the store.
ServedAreUnspent ==
    \A h \in Handlers : hand[h].pc = "serve" =>
        /\ hand[h].token \in Tokens /\ hand[h].user \in Users
        /\ tokens[hand[h].token] = None
        /\ links[hand[h].token] = [owner |-> hand[h].user, got |-> None]

\* No two requests serve by one token.
OneHolder == \A t \in Tokens : \A g, h \in Handlers : Holds(g, t) /\ Holds(h, t) => g = h

LinkInv == LinkDomains /\ StoredAreUnspent /\ ServedAreUnspent /\ OneHolder

\* What an action leaves alone that neither takes, serves nor drops a token.
KeepsServing ==
    /\ DOMAIN hand' = Handlers
    /\ \A h \in Handlers : hand[h].pc = "serve" \/ hand'[h].pc = "serve" => hand'[h] = hand[h]

\* The stage of one link.
LEMMA StageOf ==
  ASSUME NEW t \in Tokens
  PROVE  /\ LinkStage[t] = "unissued" <=> links[t] = NoLink
         /\ LinkStage[t] = "live" <=> links[t] # NoLink /\ (Fresh(t) \/ \E h \in Handlers : Holds(h, t))
         /\ LinkStage[t] = "gone" <=> links[t] # NoLink /\ ~Fresh(t) /\ ~\E h \in Handlers : Holds(h, t)
BY DEF LinkStage, Fresh, Holds, At

\* The same after a step.
LEMMA StageAfter ==
  ASSUME NEW t \in Tokens
  PROVE  /\ LinkStage'[t] = "unissued" <=> links'[t] = NoLink
         /\ LinkStage'[t] = "live" <=> links'[t] # NoLink /\ (Fresh(t)' \/ \E h \in Handlers : Holds(h, t)')
         /\ LinkStage'[t] = "gone" <=> links'[t] # NoLink /\ ~Fresh(t)' /\ ~\E h \in Handlers : Holds(h, t)'
BY DEF LinkStage, Fresh, Holds, At

\* The step of one link, in terms of Profiles.
LinkMoves(t) ==
    \/ LinkStage'[t] = LinkStage[t] /\ links'[t] = links[t]
    \/ /\ LinkStage[t] = "unissued" /\ LinkStage'[t] = "live"
       /\ links'[t].owner \in Users /\ links'[t].got = links[t].got
    \/ /\ LinkStage[t] = "live" /\ LinkStage'[t] = "gone"
       /\ links'[t].owner = links[t].owner /\ links'[t].got \in {links[t].got, links[t].owner}

\* It is the step of OneTime.
LEMMA LinkMovesAreSteps ==
  (\A t \in Tokens : LinkMoves(t)) => Links!Next
<1> SUFFICES ASSUME \A t \in Tokens : LinkMoves(t), NEW t \in Tokens
             PROVE  Links!Stays(t) \/ Links!Made(t) \/ Links!Reaches(t) \/ Links!Lapses(t)
  BY DEF Links!Next
<1>1. LinkMoves(t)
  OBVIOUS
<1> QED
  BY <1>1 DEF LinkMoves, Links!Stays, Links!Made, Links!Reaches, Links!Lapses, Links!Moves

\* A link whose token and whose holders stay as they are stays.
LEMMA Undisturbed ==
  ASSUME NEW t \in Tokens, tokens'[t] = tokens[t], links'[t] = links[t],
         \A h \in Handlers : Holds(h, t)' <=> Holds(h, t)
  PROVE  LinkMoves(t)
<1>1. Fresh(t)' <=> Fresh(t)
  BY DEF Fresh
<1>2. LinkStage'[t] = LinkStage[t]
  BY <1>1, StageOf, StageAfter
<1> QED
  BY <1>2 DEF LinkMoves

-----------------------------------------------------------------------------
(* The actions, by what they do to the links. *)

\* An action that leaves the links and who serves them alone moves no link.
LEMMA ServingKept ==
  ASSUME LinkInv, KeepsServing, UNCHANGED linking
  PROVE  LinkInv' /\ \A t \in Tokens : LinkMoves(t)
<1>1. \A t \in Tokens, h \in Handlers : Holds(h, t)' <=> Holds(h, t)
  BY DEF KeepsServing, Holds
<1>2. \A t \in Tokens : LinkMoves(t)
  BY <1>1, Undisturbed DEF linking
<1>3. LinkDomains' /\ StoredAreUnspent'
  BY DEF LinkInv, LinkDomains, StoredAreUnspent, KeepsServing, linking
<1>4. ServedAreUnspent'
  BY DEF LinkInv, ServedAreUnspent, KeepsServing, linking
<1>5. OneHolder'
  BY <1>1 DEF LinkInv, OneHolder
<1> QED
  BY <1>2, <1>3, <1>4, <1>5 DEF LinkInv

\* Tokens that are old stay so or go: nothing that is served changes.
LEMMA Lapsing ==
  ASSUME LinkInv, UNCHANGED <<hand, links>>, DOMAIN tokens' = Tokens,
         \A t \in Tokens : \/ tokens'[t] = tokens[t]
                           \/ tokens'[t] = None
                           \/ tokens[t] # None /\ tokens'[t].old /\ tokens'[t].user = tokens[t].user
  PROVE  LinkInv' /\ \A t \in Tokens : LinkMoves(t)
<1>1. \A t \in Tokens, h \in Handlers : Holds(h, t)' <=> Holds(h, t)
  BY DEF Holds
<1>2. ASSUME NEW t \in Tokens PROVE LinkMoves(t)
  <2>1. CASE tokens'[t] = tokens[t]
    BY <2>1, <1>1, Undisturbed
  <2>2. CASE tokens'[t] # tokens[t]
    <3>1. ~Fresh(t)'
      BY <2>2 DEF Fresh
    <3>2. links[t] = NoLink => LinkMoves(t)
      BY StageOf, StageAfter DEF LinkMoves
    <3>3. links[t] # NoLink /\ LinkStage[t] = "live" => LinkMoves(t)
      BY <3>1, <1>1, StageOf, StageAfter DEF LinkMoves
    <3>4. links[t] # NoLink /\ LinkStage[t] = "gone" => LinkMoves(t)
      BY <3>1, <1>1, StageOf, StageAfter DEF LinkMoves
    <3> QED
      BY <3>2, <3>3, <3>4, StageOf
  <2> QED
    BY <2>1, <2>2
<1>3. LinkDomains'
  BY DEF LinkInv, LinkDomains
<1>4. StoredAreUnspent'
  BY DEF LinkInv, StoredAreUnspent
<1>5. ServedAreUnspent'
  BY DEF LinkInv, ServedAreUnspent
<1>6. OneHolder'
  BY <1>1 DEF LinkInv, OneHolder
<1> QED
  BY <1>2, <1>3, <1>4, <1>5, <1>6 DEF LinkInv

\* A link is made.
LEMMA Issuing ==
  ASSUME LinkInv, NEW u \in Users, NEW t \in Tokens, IssueToken(u, t)
  PROVE  LinkInv' /\ \A x \in Tokens : LinkMoves(x)
<1>1. /\ tokens' = [tokens EXCEPT ![t] = [user |-> u, old |-> FALSE]]
      /\ links' = [links EXCEPT ![t] = [owner |-> u, got |-> None]]
      /\ links[t] = NoLink /\ UNCHANGED hand
  BY DEF IssueToken
<1>2. u # None
  BY NoneAssumption
<1>3. tokens'[t] = [user |-> u, old |-> FALSE] /\ links'[t] = [owner |-> u, got |-> None]
  BY <1>1 DEF LinkInv, LinkDomains
<1>4. \A x \in Tokens \ {t} : tokens'[x] = tokens[x] /\ links'[x] = links[x]
  BY <1>1 DEF LinkInv, LinkDomains
<1>5. \A x \in Tokens, h \in Handlers : Holds(h, x)' <=> Holds(h, x)
  BY <1>1 DEF Holds
<1>6. ASSUME NEW h \in Handlers, Holds(h, t) PROVE FALSE
  <2>1. hand[h].user \in Users /\ links[t] = [owner |-> hand[h].user, got |-> None]
    BY <1>6 DEF LinkInv, ServedAreUnspent, Holds
  <2>2. links[t].owner = hand[h].user /\ links[t].owner = None
    BY <1>1, <2>1 DEF NoLink
  <2> QED
    BY <2>1, <2>2, NoneAssumption
<1>7. LinkMoves(t)
  <2>1. [user |-> u, old |-> FALSE] # None
    <3>1. [user |-> u, old |-> FALSE] \in [user : Users, old : BOOLEAN]
      OBVIOUS
    <3> QED
      BY <3>1, EntryAssumption
  <2>2. Fresh(t)'
    BY <2>1, <1>3 DEF Fresh
  <2>3. links'[t] # NoLink /\ links'[t].owner = u /\ links'[t].got = None /\ links[t].got = None
    BY <1>1, <1>2, <1>3 DEF NoLink
  <2> QED
    BY <1>1, <2>2, <2>3, StageOf, StageAfter DEF LinkMoves
<1>8. \A x \in Tokens : LinkMoves(x)
  BY <1>4, <1>5, <1>7, Undisturbed
<1>9. LinkDomains'
  BY <1>1 DEF LinkInv, LinkDomains
<1>10. StoredAreUnspent'
  BY <1>3, <1>4 DEF LinkInv, StoredAreUnspent
<1>11. ServedAreUnspent'
  <2> SUFFICES ASSUME NEW h \in Handlers, hand[h].pc = "serve"
               PROVE  /\ hand[h].token \in Tokens /\ hand[h].user \in Users
                      /\ tokens'[hand[h].token] = None
                      /\ links'[hand[h].token] = [owner |-> hand[h].user, got |-> None]
    BY <1>1 DEF ServedAreUnspent
  <2> QED
    BY <1>4, <1>6 DEF LinkInv, ServedAreUnspent, Holds
<1>12. OneHolder'
  BY <1>5 DEF LinkInv, OneHolder
<1> QED
  BY <1>8, <1>9, <1>10, <1>11, <1>12 DEF LinkInv

\* A token is taken out of the store: to be served, or because it is old.
LEMMA Taking ==
  ASSUME LinkInv, NEW h \in Handlers, NEW t \in Tokens, Consume(h, t)
  PROVE  LinkInv' /\ \A x \in Tokens : LinkMoves(x)
<1>1. /\ tokens[t] # None /\ tokens' = [tokens EXCEPT ![t] = None]
      /\ UNCHANGED links /\ hand[h].pc = "idle"
  BY DEF Consume, At
<1>2. tokens'[t] = None /\ \A x \in Tokens \ {t} : tokens'[x] = tokens[x]
  BY <1>1 DEF LinkInv, LinkDomains
<1>3. CASE tokens[t].old
  <2>1. UNCHANGED hand
    BY <1>3 DEF Consume
  <2>2. DOMAIN tokens' = Tokens
    BY <1>1 DEF LinkInv, LinkDomains
  <2> QED
    BY <1>1, <1>2, <2>1, <2>2, Lapsing
<1>4. CASE ~tokens[t].old
  <2> DEFINE s == Serving(t, tokens[t].user)
  <2>1. hand' = [hand EXCEPT ![h] = s]
    BY <1>4 DEF Consume, Set
  <2>2. s.pc = "serve" /\ s.token = t /\ s.user = tokens[t].user
    BY DEF Serving
  <2> HIDE DEF s
  <2>3. hand'[h] = s /\ \A g \in Handlers \ {h} : hand'[g] = hand[g]
    BY <2>1 DEF LinkInv, LinkDomains
  <2>4. \A x \in Tokens \ {t}, g \in Handlers : Holds(g, x)' <=> Holds(g, x)
    BY <1>1, <2>2, <2>3 DEF Holds
  <2>5. \A g \in Handlers : Holds(g, t)' <=> g = h
    BY <1>1, <2>2, <2>3 DEF Holds, LinkInv, ServedAreUnspent
  <2>6. tokens[t].user \in Users /\ links[t] = [owner |-> tokens[t].user, got |-> None]
    BY <1>1 DEF LinkInv, StoredAreUnspent
  <2>7. LinkMoves(t)
    <3>1. Fresh(t)
      BY <1>1, <1>4 DEF Fresh
    <3>2. links[t] # NoLink
      BY <2>6, NoneAssumption DEF NoLink
    <3> QED
      BY <1>1, <3>1, <3>2, <2>5, StageOf, StageAfter DEF LinkMoves
  <2>8. \A x \in Tokens : LinkMoves(x)
    BY <1>1, <1>2, <2>4, <2>7, Undisturbed
  <2>9. LinkDomains'
    BY <1>1, <2>1 DEF LinkInv, LinkDomains
  <2>10. StoredAreUnspent'
    BY <1>1, <1>2 DEF LinkInv, StoredAreUnspent
  <2>11. ServedAreUnspent'
    BY <1>1, <1>2, <2>2, <2>3, <2>6 DEF LinkInv, ServedAreUnspent
  <2>12. OneHolder'
    BY <2>4, <2>5 DEF LinkInv, OneHolder
  <2> QED
    BY <2>8, <2>9, <2>10, <2>11, <2>12 DEF LinkInv
<1> QED
  BY <1>3, <1>4

\* A request that serves ends: the link has reached its owner, or nobody.
LEMMA Ending ==
  ASSUME LinkInv, NEW h \in Handlers, NEW t \in Tokens, Holds(h, t), Set(h, Idle), UNCHANGED tokens,
         \/ UNCHANGED links
         \/ links' = [links EXCEPT ![t] = [owner |-> links[t].owner, got |-> hand[h].user]]
  PROVE  LinkInv' /\ \A x \in Tokens : LinkMoves(x)
<1>1. Idle.pc = "idle"
  BY DEF Idle, Editing
<1>2. hand'[h] = Idle /\ DOMAIN hand' = Handlers /\ \A g \in Handlers \ {h} : hand'[g] = hand[g]
  BY DEF LinkInv, LinkDomains, Set
<1>3. hand[h].user \in Users /\ tokens[t] = None /\ links[t] = [owner |-> hand[h].user, got |-> None]
  BY DEF LinkInv, ServedAreUnspent, Holds
<1>5. ASSUME NEW g \in Handlers, Holds(g, t)' PROVE FALSE
  <2>1. g # h
    BY <1>1, <1>2, <1>5 DEF Holds
  <2>2. Holds(g, t)
    BY <1>2, <1>5, <2>1 DEF Holds
  <2> QED
    BY <1>3, <2>1, <2>2 DEF LinkInv, OneHolder
<1>6. \A x \in Tokens \ {t}, g \in Handlers : Holds(g, x)' <=> Holds(g, x)
  BY <1>1, <1>2 DEF Holds
<1>7. /\ DOMAIN links' = Tokens /\ \A x \in Tokens \ {t} : links'[x] = links[x]
      /\ links'[t].owner = hand[h].user /\ links'[t].got \in {None, hand[h].user}
  BY <1>3 DEF LinkInv, LinkDomains
<1>8. LinkMoves(t)
  <2>1. LinkStage[t] = "live"
    BY <1>3, NoneAssumption, StageOf DEF NoLink
  <2>2. links'[t] # NoLink /\ ~Fresh(t)'
    BY <1>3, <1>7, NoneAssumption DEF NoLink, Fresh
  <2>3. LinkStage'[t] = "gone"
    BY <1>3, <1>5, <2>2, StageAfter
  <2> QED
    BY <1>3, <1>7, <2>1, <2>3 DEF LinkMoves
<1>9. \A x \in Tokens : LinkMoves(x)
  BY <1>6, <1>7, <1>8, Undisturbed
<1>10. LinkDomains'
  BY <1>2, <1>7 DEF LinkInv, LinkDomains
<1>11. StoredAreUnspent'
  BY <1>3, <1>7 DEF LinkInv, StoredAreUnspent
<1>12. ServedAreUnspent'
  <2> SUFFICES ASSUME NEW g \in Handlers, hand'[g].pc = "serve"
               PROVE  /\ hand'[g].token \in Tokens /\ hand'[g].user \in Users
                      /\ tokens'[hand'[g].token] = None
                      /\ links'[hand'[g].token] = [owner |-> hand'[g].user, got |-> None]
    BY DEF ServedAreUnspent
  <2>1. hand'[g] = hand[g] /\ hand[g].pc = "serve"
    BY <1>1, <1>2
  <2>2. hand[g].token # t
    BY <1>5, <2>1 DEF Holds
  <2> QED
    BY <1>7, <2>1, <2>2 DEF LinkInv, ServedAreUnspent
<1>13. OneHolder'
  BY <1>5, <1>6 DEF LinkInv, OneHolder
<1> QED
  BY <1>9, <1>10, <1>11, <1>12, <1>13 DEF LinkInv

\* A restart drops tokens and requests; the links are history.
LEMMA Restarting ==
  ASSUME LinkInv, Restart
  PROVE  LinkInv' /\ \A x \in Tokens : LinkMoves(x)
<1>1. /\ hand' = [h \in Handlers |-> Idle] /\ tokens' = [t \in Tokens |-> None]
      /\ links' = links /\ Idle.pc = "idle"
  BY DEF Restart, Idle, Editing
<1>2. \A t \in Tokens : ~Fresh(t)' /\ \A h \in Handlers : ~Holds(h, t)'
  BY <1>1 DEF Fresh, Holds
<1>3. ASSUME NEW t \in Tokens PROVE LinkMoves(t)
  <2>1. links[t] = NoLink => LinkMoves(t)
    BY <1>1, StageOf, StageAfter DEF LinkMoves
  <2>2. links[t] # NoLink => LinkMoves(t)
    BY <1>1, <1>2, StageOf, StageAfter DEF LinkMoves
  <2> QED
    BY <2>1, <2>2
<1>4. LinkInv'
  BY <1>1 DEF LinkInv, LinkDomains, StoredAreUnspent, ServedAreUnspent, OneHolder, Holds
<1> QED
  BY <1>3, <1>4

\* A request moves between steps that serve nothing.
LEMMA NotServing ==
  ASSUME LinkInv, NEW h \in Handlers, hand[h].pc # "serve", NEW pc, NEW s, NEW d, pc # "serve",
         Set(h, Editing(pc, s, d))
  PROVE  KeepsServing
<1>1. Editing(pc, s, d).pc = pc
  BY DEF Editing
<1>2. hand'[h] = Editing(pc, s, d) /\ DOMAIN hand' = Handlers /\ \A g \in Handlers \ {h} : hand'[g] = hand[g]
  BY DEF LinkInv, LinkDomains, Set
<1> QED
  BY <1>1, <1>2 DEF KeepsServing

\* The steps of one request.
LEMMA HandlerMoves ==
  ASSUME LinkInv, NEW h \in Handlers, HandlerStep(h)
  PROVE  LinkInv' /\ \A t \in Tokens : LinkMoves(t)
<1>1. ASSUME NEW s \in Sessions, DefaultsClear(h, s) PROVE KeepsServing /\ UNCHANGED linking
  BY <1>1, NotServing DEF DefaultsClear, Begin, At
<1>2. ASSUME NEW s \in Sessions, NEW d, DefaultsSave(h, s, d) PROVE KeepsServing /\ UNCHANGED linking
  BY <1>2, NotServing DEF DefaultsSave, Begin, At
<1>3. ASSUME Rename(h) PROVE KeepsServing /\ UNCHANGED linking
  BY <1>3, NotServing DEF Rename, Go, At
<1>4. ASSUME SetCache(h) PROVE KeepsServing /\ UNCHANGED linking
  BY <1>4, NotServing DEF SetCache, Idle, At
<1>5. ASSUME Forget(h) PROVE KeepsServing /\ UNCHANGED linking
  BY <1>5, NotServing DEF Forget, Go, At
<1>6. ASSUME Remove(h) PROVE KeepsServing /\ UNCHANGED linking
  BY <1>6, NotServing DEF Remove, Idle, At
<1>7. ASSUME StoreFails(h) PROVE KeepsServing /\ UNCHANGED linking
  BY <1>7, NotServing DEF StoreFails, Idle, At
<1>8. ASSUME NEW t \in Tokens, Consume(h, t) PROVE LinkInv' /\ \A x \in Tokens : LinkMoves(x)
  BY <1>8, Taking
<1>9. ASSUME hand[h].pc = "serve" PROVE hand[h].token \in Tokens /\ Holds(h, hand[h].token)
  BY <1>9 DEF LinkInv, ServedAreUnspent, Holds
<1>10. ASSUME Serve(h) PROVE LinkInv' /\ \A x \in Tokens : LinkMoves(x)
  <2>1. PICK t \in Tokens : Holds(h, t)
    BY <1>9, <1>10 DEF Serve, At
  <2>2. links' = [links EXCEPT ![t] = [owner |-> links[t].owner, got |-> hand[h].user]]
    BY <1>10, <2>1 DEF Serve, Holds
  <2> QED
    BY <1>10, <2>1, <2>2, Ending DEF Serve
<1>11. ASSUME ServeGone(h) \/ ServeFails(h) PROVE LinkInv' /\ \A x \in Tokens : LinkMoves(x)
  <2>1. PICK t \in Tokens : Holds(h, t)
    BY <1>9, <1>11 DEF ServeGone, ServeFails, At
  <2> QED
    BY <1>11, <2>1, Ending DEF ServeGone, ServeFails, linking
<1> QED
  BY <1>1, <1>2, <1>3, <1>4, <1>5, <1>6, <1>7, <1>8, <1>10, <1>11, ServingKept DEF HandlerStep

\* The steps of a session's pages touch neither tokens nor requests.
LEMMA SessionMoves ==
  ASSUME LinkInv, NEW s \in Sessions, SessionStep(s)
  PROVE  LinkInv' /\ \A t \in Tokens : LinkMoves(t)
<1>1. UNCHANGED hand => KeepsServing
  BY DEF KeepsServing, LinkInv, LinkDomains
<1>2. UNCHANGED <<hand, linking>>
  BY DEF SessionStep, OptionsSave, OptionsRefused, DefaultsRefused, UserPage, DefaultsPage,
         HomePage, OtherHandler, FlashAges
<1> QED
  BY <1>1, <1>2, ServingKept

\* Every step keeps the invariant and moves every link as OneTime lets it.
LEMMA NextMoves ==
  ASSUME LinkInv, [Next]_vars
  PROVE  LinkInv' /\ \A t \in Tokens : LinkMoves(t)
<1>1. UNCHANGED hand => KeepsServing
  BY DEF KeepsServing, LinkInv, LinkDomains
<1>2. ASSUME NEW u \in Users, Download(u) \/ DeleteUser(u) PROVE LinkInv' /\ \A t \in Tokens : LinkMoves(t)
  BY <1>1, <1>2, ServingKept DEF Download, DeleteUser
<1>3. ASSUME NEW t \in Tokens, TokenAges(t) PROVE LinkInv' /\ \A x \in Tokens : LinkMoves(x)
  <2>1. /\ tokens[t] # None /\ tokens' = [tokens EXCEPT ![t] = [user |-> tokens[t].user, old |-> TRUE]]
        /\ UNCHANGED <<hand, links>>
    BY <1>3 DEF TokenAges
  <2>2. tokens'[t] = [user |-> tokens[t].user, old |-> TRUE] /\ \A x \in Tokens \ {t} : tokens'[x] = tokens[x]
    BY <2>1 DEF LinkInv, LinkDomains
  <2>3. DOMAIN tokens' = Tokens
    BY <2>1 DEF LinkInv, LinkDomains
  <2>4. tokens'[t].old /\ tokens'[t].user = tokens[t].user
    BY <2>2
  <2> QED
    BY <2>1, <2>2, <2>3, <2>4, Lapsing
<1>4. ASSUME SweepTokens PROVE LinkInv' /\ \A x \in Tokens : LinkMoves(x)
  <2>1. /\ tokens' = [t \in Tokens |-> IF tokens[t] # None /\ tokens[t].old THEN None ELSE tokens[t]]
        /\ UNCHANGED <<hand, links>>
    BY <1>4 DEF SweepTokens
  <2>2. \A t \in Tokens : tokens'[t] = tokens[t] \/ tokens'[t] = None
    BY <2>1
  <2> QED
    BY <2>1, <2>2, Lapsing
<1>5. ASSUME SweepFlashes PROVE LinkInv' /\ \A x \in Tokens : LinkMoves(x)
  BY <1>1, <1>5, ServingKept DEF SweepFlashes
<1>6. ASSUME UNCHANGED vars PROVE LinkInv' /\ \A x \in Tokens : LinkMoves(x)
  BY <1>1, <1>6, ServingKept DEF vars
<1> QED
  BY <1>2, <1>3, <1>4, <1>5, <1>6, HandlerMoves, SessionMoves, Issuing, Restarting DEF Next

\* The invariant holds from the start.
LEMMA InitLinks == Init => LinkInv /\ Links!Init
<1> SUFFICES ASSUME Init PROVE LinkInv /\ Links!Init
  OBVIOUS
<1>1. hand = [h \in Handlers |-> Idle] /\ tokens = [t \in Tokens |-> None] /\ links = [t \in Tokens |-> NoLink]
  BY DEF Init
<1>2. Idle.pc = "idle"
  BY DEF Idle, Editing
<1>3. LinkInv
  BY <1>1, <1>2 DEF LinkInv, LinkDomains, StoredAreUnspent, ServedAreUnspent, OneHolder, Holds
<1>4. Links!Init
  BY <1>1 DEF Links!Init, LinkStage, NoLink
<1> QED
  BY <1>3, <1>4

\* A token in the store, or in the hands of the one request that serves it,
\* belongs to a link that has reached nobody (Issue, Consume, the handler of
\* /install).
THEOREM LinksAreUnspent == Spec => []LinkInv
<1>1. Init => LinkInv
  BY InitLinks
<1>2. LinkInv /\ [Next]_vars => LinkInv'
  BY NextMoves
<1> QED
  BY <1>1, <1>2, PTL DEF Spec

\* The refinement: an install link delivers at most one profile, that of the
\* user it was made for, and none once it has lapsed (installtoken.Store and
\* handleInstallByToken).
THEOREM LinksImplementOneTime == Spec => LinksAreOneTime
<1>1. Init => Links!Init
  BY InitLinks
<1>2. LinkInv /\ [Next]_vars => [Links!Next]_(Links!vars)
  BY NextMoves, LinkMovesAreSteps
<1> QED
  BY <1>1, <1>2, LinksAreUnspent, PTL DEF Spec, LinksAreOneTime, Links!Spec

-----------------------------------------------------------------------------
(* Messages, along the same lines.  A slot shows a message while it is not old. *)

Shows(s, k, n) == flash[s][k] # None /\ ~flash[s][k].old /\ flash[s][k].id = n

NoteDomains ==
    /\ DOMAIN flash = Sessions /\ DOMAIN notes = Messages
    /\ \A s \in Sessions : DOMAIN flash[s] = Slots

\* A message in a slot was left by the slot's session, and nobody has seen it.
SlotsAreUnseen ==
    \A s \in Sessions, k \in Slots : flash[s][k] # None =>
        flash[s][k].id \in Messages /\ notes[flash[s][k].id] = [owner |-> s, by |-> None]

\* No message is in two slots.
OneSlot ==
    \A s, z \in Sessions, k, l \in Slots :
        flash[s][k] # None /\ flash[z][l] # None /\ flash[s][k].id = flash[z][l].id => s = z /\ k = l

NoteInv == NoteDomains /\ SlotsAreUnseen /\ OneSlot

NoteMoves(n) ==
    \/ NoteStage'[n] = NoteStage[n] /\ notes'[n] = notes[n]
    \/ /\ NoteStage[n] = "unissued" /\ NoteStage'[n] = "live"
       /\ notes'[n].owner \in Sessions /\ notes'[n].by = notes[n].by
    \/ /\ NoteStage[n] = "live" /\ NoteStage'[n] = "gone"
       /\ notes'[n].owner = notes[n].owner /\ notes'[n].by \in {notes[n].by, notes[n].owner}

\* Moves of the messages, each one allowed by itself, are a step of OneTime.
LEMMA NoteMovesAreSteps ==
  (\A n \in Messages : NoteMoves(n)) => Notes!Next
<1> SUFFICES ASSUME \A n \in Messages : NoteMoves(n), NEW n \in Messages
             PROVE  Notes!Stays(n) \/ Notes!Made(n) \/ Notes!Reaches(n) \/ Notes!Lapses(n)
  BY DEF Notes!Next
<1>1. NoteMoves(n)
  OBVIOUS
<1> QED
  BY <1>1 DEF NoteMoves, Notes!Stays, Notes!Made, Notes!Reaches, Notes!Lapses, Notes!Moves

\* The stage of one message, before and after a step.
LEMMA NoteStageOf ==
  ASSUME NEW n \in Messages
  PROVE  /\ NoteStage[n] = "unissued" <=> notes[n] = NoNote
         /\ NoteStage[n] = "live" <=> notes[n] # NoNote /\ \E s \in Sessions, k \in Slots : Shows(s, k, n)
         /\ NoteStage[n] = "gone" <=> notes[n] # NoNote /\ ~\E s \in Sessions, k \in Slots : Shows(s, k, n)
BY DEF NoteStage, Shows

\* A message's stage after the step, by its note and the slots.
LEMMA NoteStageAfter ==
  ASSUME NEW n \in Messages
  PROVE  /\ NoteStage'[n] = "unissued" <=> notes'[n] = NoNote
         /\ NoteStage'[n] = "live" <=> notes'[n] # NoNote /\ \E s \in Sessions, k \in Slots : Shows(s, k, n)'
         /\ NoteStage'[n] = "gone" <=> notes'[n] # NoNote /\ ~\E s \in Sessions, k \in Slots : Shows(s, k, n)'
BY DEF NoteStage, Shows

\* A message whose note stays and that no slot begins to show stays or lapses.
LEMMA Unread ==
  ASSUME NEW n \in Messages, notes'[n] = notes[n],
         \A s \in Sessions, k \in Slots : Shows(s, k, n)' => Shows(s, k, n)
  PROVE  NoteMoves(n)
<1>1. CASE notes[n] = NoNote
  BY <1>1, NoteStageOf, NoteStageAfter DEF NoteMoves
<1>2. CASE notes[n] # NoNote /\ \E s \in Sessions, k \in Slots : Shows(s, k, n)'
  BY <1>2, NoteStageOf, NoteStageAfter DEF NoteMoves
<1>3. CASE notes[n] # NoNote /\ ~\E s \in Sessions, k \in Slots : Shows(s, k, n)'
  BY <1>3, NoteStageOf, NoteStageAfter DEF NoteMoves
<1> QED
  BY <1>1, <1>2, <1>3

\* Slots are emptied or their messages grow old, and nobody sees one.
LEMMA SlotsLapse ==
  ASSUME NoteInv, UNCHANGED notes, DOMAIN flash' = Sessions, \A s \in Sessions : DOMAIN flash'[s] = Slots,
         \A s \in Sessions, k \in Slots :
            \/ flash'[s][k] = flash[s][k]
            \/ flash'[s][k] = None
            \/ flash[s][k] # None /\ flash'[s][k].old /\ flash'[s][k].id = flash[s][k].id
  PROVE  NoteInv' /\ \A n \in Messages : NoteMoves(n)
<1>1. ASSUME NEW n \in Messages PROVE NoteMoves(n)
  <2>1. \A s \in Sessions, k \in Slots : Shows(s, k, n)' => Shows(s, k, n)
    BY DEF Shows
  <2> QED
    BY <2>1, Unread
<1>2. NoteDomains'
  BY DEF NoteInv, NoteDomains
<1>3. SlotsAreUnseen'
  BY DEF NoteInv, SlotsAreUnseen
<1>4. OneSlot'
  BY DEF NoteInv, OneSlot
<1> QED
  BY <1>1, <1>2, <1>3, <1>4 DEF NoteInv

\* A message is left in a slot; the one it finds there lapses.
LEMMA Leaving ==
  ASSUME NoteInv, NEW s \in Sessions, NEW k \in Slots, Note(s, k)
  PROVE  NoteInv' /\ \A n \in Messages : NoteMoves(n)
<1> DEFINE f(n) == [id |-> n, old |-> FALSE]
<1>1. PICK n \in Messages :
         /\ notes[n] = NoNote /\ notes' = [notes EXCEPT ![n] = [owner |-> s, by |-> None]]
         /\ flash' = [flash EXCEPT ![s][k] = f(n)]
  BY DEF Note
<1>2. f(n) # None /\ f(n).id = n /\ ~f(n).old
  <2>1. f(n) \in [id : Messages, old : BOOLEAN]
    OBVIOUS
  <2> QED
    BY <2>1, EntryAssumption
<1> HIDE DEF f
<1>3. /\ flash'[s][k] = f(n)
      /\ \A z \in Sessions, l \in Slots : z # s \/ l # k => flash'[z][l] = flash[z][l]
  BY <1>1 DEF NoteInv, NoteDomains
<1>4. notes'[n] = [owner |-> s, by |-> None] /\ \A m \in Messages \ {n} : notes'[m] = notes[m]
  BY <1>1 DEF NoteInv, NoteDomains
<1>5. ASSUME NEW z \in Sessions, NEW l \in Slots, flash[z][l] # None, flash[z][l].id = n PROVE FALSE
  <2>1. notes[n] = [owner |-> z, by |-> None]
    BY <1>5 DEF NoteInv, SlotsAreUnseen
  <2>2. notes[n].owner = z /\ notes[n].owner = None
    BY <1>1, <2>1 DEF NoNote
  <2> QED
    BY <2>2, NoneAssumption
<1>6. NoteMoves(n)
  <2>1. Shows(s, k, n)'
    BY <1>2, <1>3 DEF Shows
  <2>2. notes'[n] # NoNote
    BY <1>4, NoneAssumption DEF NoNote
  <2> QED
    BY <1>1, <1>4, <2>1, <2>2, NoteStageOf, NoteStageAfter DEF NoteMoves, NoNote
<1>7. ASSUME NEW m \in Messages \ {n} PROVE NoteMoves(m)
  <2>1. \A z \in Sessions, l \in Slots : Shows(z, l, m)' => Shows(z, l, m)
    BY <1>2, <1>3 DEF Shows
  <2> QED
    BY <1>4, <2>1, Unread
<1>8. NoteDomains'
  BY <1>1 DEF NoteInv, NoteDomains
<1>9. SlotsAreUnseen'
  BY <1>2, <1>3, <1>4, <1>5 DEF NoteInv, SlotsAreUnseen
<1>10. OneSlot'
  BY <1>2, <1>3, <1>5 DEF NoteInv, OneSlot
<1> QED
  BY <1>6, <1>7, <1>8, <1>9, <1>10 DEF NoteInv

\* A page empties the slots it asks for and shows what is not old.
LEMMA Showing ==
  ASSUME NoteInv, NEW s \in Sessions, NEW slots \in SUBSET Slots, ConsumeFor(s, slots)
  PROVE  NoteInv' /\ \A n \in Messages : NoteMoves(n)
<1> DEFINE seen == {flash[s][k].id : k \in {k \in slots : flash[s][k] # None /\ ~flash[s][k].old}}
<1>1. /\ notes' = [n \in Messages |-> IF n \in seen THEN [owner |-> notes[n].owner, by |-> s] ELSE notes[n]]
      /\ flash' = [flash EXCEPT ![s] = [k \in Slots |-> IF k \in slots THEN None ELSE flash[s][k]]]
  BY DEF ConsumeFor
<1>2. \A n \in Messages : n \in seen <=> \E k \in slots : Shows(s, k, n)
  BY DEF Shows
<1> HIDE DEF seen
<1>3. /\ \A k \in Slots : flash'[s][k] = IF k \in slots THEN None ELSE flash[s][k]
      /\ \A z \in Sessions \ {s} : flash'[z] = flash[z]
      /\ DOMAIN flash' = Sessions /\ DOMAIN flash'[s] = Slots
  BY <1>1 DEF NoteInv, NoteDomains
<1>4. \A z \in Sessions, k \in Slots : flash'[z][k] = flash[z][k] \/ flash'[z][k] = None
  BY <1>3
<1>5. ASSUME NEW n \in Messages, n \in seen
      PROVE  /\ \A z \in Sessions, k \in Slots : flash'[z][k] # None => flash'[z][k].id # n
             /\ NoteMoves(n)
  <2>1. PICK k \in slots : Shows(s, k, n)
    BY <1>2, <1>5
  <2>2. k \in Slots /\ flash'[s][k] = None
    BY <1>3
  <2>3. notes[n] = [owner |-> s, by |-> None] /\ notes'[n] = [owner |-> s, by |-> s]
    BY <1>1, <1>5, <2>1, <2>2 DEF NoteInv, SlotsAreUnseen, Shows
  <2>4. \A z \in Sessions, l \in Slots : flash'[z][l] # None => flash'[z][l].id # n
    BY <1>4, <2>1, <2>2 DEF NoteInv, OneSlot, Shows
  <2>5. \A z \in Sessions, l \in Slots : ~Shows(z, l, n)'
    BY <2>4 DEF Shows
  <2>6. notes[n] # NoNote /\ notes'[n] # NoNote
    BY <2>3, NoneAssumption DEF NoNote
  <2>7. NoteStage[n] = "live"
    BY <2>1, <2>2, <2>6, NoteStageOf
  <2>8. NoteStage'[n] = "gone"
    BY <2>5, <2>6, NoteStageAfter
  <2> QED
    BY <2>3, <2>4, <2>7, <2>8 DEF NoteMoves
<1>6. ASSUME NEW n \in Messages, n \notin seen PROVE notes'[n] = notes[n] /\ NoteMoves(n)
  <2>1. notes'[n] = notes[n]
    BY <1>1, <1>6
  <2>2. \A z \in Sessions, k \in Slots : Shows(z, k, n)' => Shows(z, k, n)
    BY <1>4 DEF Shows
  <2> QED
    BY <2>1, <2>2, Unread
<1>7. NoteDomains'
  <2>1. DOMAIN notes' = Messages
    BY <1>1
  <2>2. \A z \in Sessions : DOMAIN flash'[z] = Slots
    BY <1>3 DEF NoteInv, NoteDomains
  <2> QED
    BY <1>3, <2>1, <2>2 DEF NoteDomains
<1>8. SlotsAreUnseen'
  BY <1>4, <1>5, <1>6 DEF NoteInv, SlotsAreUnseen
<1>9. OneSlot'
  BY <1>4 DEF NoteInv, OneSlot
<1> QED
  BY <1>5, <1>6, <1>7, <1>8, <1>9 DEF NoteInv

\* A request over the defaults knows its session.
EditorsAreKnown ==
    /\ DOMAIN hand = Handlers
    /\ \A h \in Handlers : hand[h].pc \in {"rename", "cache", "forget", "remove"} => hand[h].session \in Sessions

\* A request moves: it is done, serves, or keeps a known session.
LEMMA EditorsMove ==
  ASSUME EditorsAreKnown, NEW h \in Handlers, NEW w, Set(h, w),
         w.pc \in {"idle", "serve"} \/ w.session \in Sessions
  PROVE  EditorsAreKnown'
<1>1. hand'[h] = w /\ DOMAIN hand' = Handlers /\ \A g \in Handlers \ {h} : hand'[g] = hand[g]
  BY DEF EditorsAreKnown, Set
<1> QED
  BY <1>1 DEF EditorsAreKnown

\* The steps of one request know its session.
LEMMA HandlerEditors ==
  ASSUME EditorsAreKnown, NEW h \in Handlers, HandlerStep(h)
  PROVE  EditorsAreKnown'
<1>1. /\ Idle.pc = "idle" /\ \A t, u : Serving(t, u).pc = "serve"
      /\ \A pc, s, d : Editing(pc, s, d).session = s
  BY DEF Idle, Editing, Serving
<1>2. ASSUME NEW s \in Sessions, DefaultsClear(h, s) PROVE EditorsAreKnown'
  BY <1>1, <1>2, EditorsMove DEF DefaultsClear, Begin
<1>3. ASSUME NEW s \in Sessions, NEW d, DefaultsSave(h, s, d) PROVE EditorsAreKnown'
  BY <1>1, <1>3, EditorsMove DEF DefaultsSave, Begin
<1>4. ASSUME Rename(h) \/ Forget(h) PROVE EditorsAreKnown'
  <2>1. hand[h].session \in Sessions
    BY <1>4 DEF Rename, Forget, At, EditorsAreKnown
  <2> QED
    BY <1>1, <1>4, <2>1, EditorsMove DEF Rename, Forget, Go
<1>5. ASSUME Set(h, Idle) PROVE EditorsAreKnown'
  BY <1>1, <1>5, EditorsMove
<1>6. ASSUME NEW t \in Tokens, Consume(h, t) PROVE EditorsAreKnown'
  <2>1. UNCHANGED hand \/ Set(h, Serving(t, tokens[t].user))
    BY <1>6 DEF Consume
  <2>2. UNCHANGED hand => EditorsAreKnown'
    BY DEF EditorsAreKnown
  <2> QED
    BY <1>1, <2>1, <2>2, EditorsMove
<1> QED
  BY <1>2, <1>3, <1>4, <1>5, <1>6
  DEF HandlerStep, SetCache, Remove, StoreFails, Serve, ServeGone, ServeFails

\* They leave a message with the session's page, or none.
LEMMA HandlerNotes ==
  ASSUME NoteInv, EditorsAreKnown, NEW h \in Handlers, HandlerStep(h)
  PROVE  NoteInv' /\ \A n \in Messages : NoteMoves(n)
<1>1. ASSUME UNCHANGED noting PROVE NoteInv' /\ \A n \in Messages : NoteMoves(n)
  BY <1>1, SlotsLapse DEF noting, NoteInv, NoteDomains
<1>2. ASSUME SetCache(h) \/ Remove(h) \/ StoreFails(h) PROVE NoteInv' /\ \A n \in Messages : NoteMoves(n)
  <2>1. hand[h].session \in Sessions
    BY <1>2 DEF SetCache, Remove, StoreFails, At, EditorsAreKnown
  <2>2. Note(hand[h].session, "page") /\ "page" \in Slots
    BY <1>2 DEF SetCache, Remove, StoreFails, Slots
  <2> QED
    BY <2>1, <2>2, Leaving
<1>3. SetCache(h) \/ Remove(h) \/ StoreFails(h) \/ UNCHANGED noting
  BY DEF HandlerStep, DefaultsClear, DefaultsSave, Begin, Rename, Forget, Consume, Serve, ServeGone, ServeFails
<1> QED
  BY <1>1, <1>2, <1>3

\* The pages of a session show, leave or refuse.
LEMMA SessionNotes ==
  ASSUME NoteInv, NEW s \in Sessions, SessionStep(s)
  PROVE  NoteInv' /\ \A n \in Messages : NoteMoves(n)
<1>1. ASSUME NEW k \in Slots, Note(s, k) PROVE NoteInv' /\ \A n \in Messages : NoteMoves(n)
  BY <1>1, Leaving
<1>2. ASSUME NEW slots \in SUBSET Slots, ConsumeFor(s, slots) PROVE NoteInv' /\ \A n \in Messages : NoteMoves(n)
  BY <1>2, Showing
<1>3. ASSUME NEW k \in Slots, FlashAges(s, k) PROVE NoteInv' /\ \A n \in Messages : NoteMoves(n)
  <2> DEFINE f == [id |-> flash[s][k].id, old |-> TRUE]
  <2>1. flash[s][k] # None /\ flash' = [flash EXCEPT ![s][k] = f] /\ UNCHANGED notes
    BY <1>3 DEF FlashAges
  <2>2. f.old /\ f.id = flash[s][k].id
    OBVIOUS
  <2> HIDE DEF f
  <2>3. /\ flash'[s][k] = f
        /\ \A z \in Sessions, l \in Slots : z # s \/ l # k => flash'[z][l] = flash[z][l]
        /\ DOMAIN flash' = Sessions /\ \A z \in Sessions : DOMAIN flash'[z] = Slots
    BY <2>1 DEF NoteInv, NoteDomains
  <2> QED
    BY <2>1, <2>2, <2>3, SlotsLapse
<1>4. "page" \in Slots /\ {"page"} \in SUBSET Slots /\ Slots \in SUBSET Slots
  BY DEF Slots
<1> QED
  BY <1>1, <1>2, <1>3, <1>4
  DEF SessionStep, OptionsSave, OptionsRefused, DefaultsRefused, UserPage, DefaultsPage, HomePage, OtherHandler

\* Every step keeps the invariants and moves every message as OneTime lets it.
LEMMA NextNotes ==
  ASSUME NoteInv, EditorsAreKnown, [Next]_vars
  PROVE  NoteInv' /\ EditorsAreKnown' /\ \A n \in Messages : NoteMoves(n)
<1>1. ASSUME UNCHANGED noting PROVE NoteInv' /\ \A n \in Messages : NoteMoves(n)
  BY <1>1, SlotsLapse DEF noting, NoteInv, NoteDomains
<1>2. ASSUME UNCHANGED hand PROVE EditorsAreKnown'
  BY <1>2 DEF EditorsAreKnown
<1>3. ASSUME NEW s \in Sessions, SessionStep(s) PROVE UNCHANGED hand
  BY <1>3 DEF SessionStep, OptionsSave, OptionsRefused, DefaultsRefused, UserPage, DefaultsPage,
              HomePage, OtherHandler, FlashAges
<1>4. ASSUME SweepFlashes PROVE NoteInv' /\ UNCHANGED hand /\ \A n \in Messages : NoteMoves(n)
  <2>1. /\ flash' = [s \in Sessions |-> [k \in Slots |->
                        IF flash[s][k] # None /\ flash[s][k].old THEN None ELSE flash[s][k]]]
        /\ UNCHANGED <<hand, notes>>
    BY <1>4 DEF SweepFlashes
  <2> QED
    BY <2>1, SlotsLapse
<1>5. ASSUME Restart PROVE NoteInv' /\ EditorsAreKnown' /\ \A n \in Messages : NoteMoves(n)
  <2>1. /\ flash' = [s \in Sessions |-> [k \in Slots |-> None]] /\ UNCHANGED notes
        /\ hand' = [h \in Handlers |-> Idle] /\ Idle.pc = "idle"
    BY <1>5 DEF Restart, Idle, Editing
  <2>2. EditorsAreKnown'
    BY <2>1 DEF EditorsAreKnown
  <2> QED
    BY <2>1, <2>2, SlotsLapse
<1>6. ASSUME \/ \E u \in Users : Download(u) \/ DeleteUser(u) \/ \E t \in Tokens : IssueToken(u, t)
             \/ \E t \in Tokens : TokenAges(t)
             \/ SweepTokens \/ UNCHANGED vars
      PROVE  UNCHANGED noting /\ UNCHANGED hand
  BY <1>6 DEF Download, DeleteUser, IssueToken, TokenAges, SweepTokens, vars
<1> QED
  BY <1>1, <1>2, <1>3, <1>4, <1>5, <1>6, HandlerNotes, HandlerEditors, SessionNotes DEF Next

\* The invariants hold from the start.
LEMMA InitNotes == Init => NoteInv /\ EditorsAreKnown /\ Notes!Init
<1> SUFFICES ASSUME Init PROVE NoteInv /\ EditorsAreKnown /\ Notes!Init
  OBVIOUS
<1>1. /\ hand = [h \in Handlers |-> Idle] /\ Idle.pc = "idle" /\ notes = [n \in Messages |-> NoNote]
      /\ flash = [s \in Sessions |-> [k \in Slots |-> None]]
  BY DEF Init, Idle, Editing
<1>2. NoteInv /\ EditorsAreKnown
  BY <1>1 DEF NoteInv, NoteDomains, SlotsAreUnseen, OneSlot, EditorsAreKnown
<1>3. Notes!Init
  BY <1>1 DEF Notes!Init, NoteStage, NoNote
<1> QED
  BY <1>2, <1>3

\* A message is shown at most once, to the session whose request left it, and
\* never after it lapsed: the flash store implements OneTime (SetFor, ConsumeFor
\* and Sweep of flash.go).
THEOREM MessagesImplementOneTime == Spec => MessagesAreOneTime
<1>1. Init => NoteInv /\ EditorsAreKnown /\ Notes!Init
  BY InitNotes
<1>2. NoteInv /\ EditorsAreKnown /\ [Next]_vars => NoteInv' /\ EditorsAreKnown' /\ [Notes!Next]_(Notes!vars)
  BY NextNotes, NoteMovesAreSteps
<1> QED
  BY <1>1, <1>2, PTL DEF Spec, MessagesAreOneTime, Notes!Spec

-----------------------------------------------------------------------------
(* Types, and what the layers of a profile rest on. *)

\* Options that the defaults may be: they name no network.
Defaults == {d \in Options : d.ssid = Unset}
Entries  == [user : Users, old : BOOLEAN]
Slips    == [id : Messages, old : BOOLEAN]
Receipts == [owner : Sessions \cup {None}, by : Sessions \cup {None}]
Requests ==
    [pc : {"idle", "rename", "cache", "forget", "remove", "serve"},
     session : Sessions \cup {None}, new : Options \cup {None},
     token : Tokens \cup {None}, user : Users \cup {None}]

\* A user's options are stored only when they say something, and as Validate
\* let them pass.
OwnInv ==
    /\ users \subseteq Users
    /\ overlay \in [Users -> (Options \ {Nothing}) \cup {None}]
    /\ \A u \in Users : overlay[u] # None => Valid(overlay[u])

\* The defaults on disk, in the cache and on their way to both are defaults.
FileTypes ==
    /\ file \in Defaults \cup {None} /\ cache \in Defaults \cup {None} /\ apart \in BOOLEAN
    /\ hand \in [Handlers -> Requests]
    /\ \A h \in Handlers : hand[h].pc \in {"rename", "cache"} => hand[h].new \in Defaults

LinkTypes ==
    /\ tokens \in [Tokens -> Entries \cup {None}]
    /\ links \in [Tokens -> [owner : Users \cup {None}, got : Users \cup {None}]]

NoteTypes ==
    /\ flash \in [Sessions -> [Slots -> Slips \cup {None}]]
    /\ notes \in [Messages -> Receipts]

BoundTypes == saves \in 0 .. MaxSaves /\ failures \in 0 .. MaxFailures /\ restarts \in 0 .. MaxRestarts

\* As long as no two requests over the defaults overlap and nobody reads them
\* in the middle of a clear: a saved file waits to be cached, a cleared cache
\* waits for its file to go, and otherwise the cache is empty or the file.
Edits(h) == hand[h].pc \in {"rename", "cache", "forget", "remove"}

CacheInv ==
    apart =>
        /\ \A g, h \in Handlers : Edits(g) /\ Edits(h) => g = h
        /\ \A h \in Handlers : At(h, "cache") => file = hand[h].new
        /\ \A h \in Handlers : At(h, "remove") => cache = None
        /\ (\A h \in Handlers : ~At(h, "cache")) => cache \in {None, file}

\* What is stored is what was let pass.
LEMMA EncodedIsValid ==
  ASSUME NEW o \in Options, Valid(o)
  PROVE  /\ Encoded(o) \in (Options \ {Nothing}) \cup {None}
         /\ Encoded(o) # None => Valid(Encoded(o))
BY DEF Encoded

\* The steps that touch no user and no user's options.
LEMMA OwnUntouched ==
  ASSUME [Next]_vars
  PROVE  \/ UNCHANGED <<users, overlay>>
         \/ \E s \in Sessions, u \in Users, o \in Forms : OptionsSave(s, u, o)
         \/ \E u \in Users : DeleteUser(u)
<1>1. ASSUME NEW h \in Handlers, HandlerStep(h) PROVE UNCHANGED <<users, overlay>>
  BY <1>1 DEF HandlerStep, DefaultsClear, DefaultsSave, Begin, Rename, SetCache, Forget, Remove, StoreFails,
              Consume, Serve, ServeGone, ServeFails
<1>2. ASSUME NEW s \in Sessions, SessionStep(s)
      PROVE  UNCHANGED <<users, overlay>> \/ \E u \in Users, o \in Forms : OptionsSave(s, u, o)
  BY <1>2 DEF SessionStep, OptionsRefused, DefaultsRefused, UserPage, DefaultsPage, HomePage,
              OtherHandler, FlashAges
<1> QED
  BY <1>1, <1>2 DEF Next, Download, IssueToken, TokenAges, SweepTokens, SweepFlashes, Restart, vars

\* Only the options page writes a user's layer, and only what it has validated.
LEMMA NextOwn == OwnInv /\ [Next]_vars => OwnInv'
<1> SUFFICES ASSUME OwnInv, [Next]_vars PROVE OwnInv'
  OBVIOUS
<1>1. ASSUME NEW s \in Sessions, NEW u \in Users, NEW o \in Forms, OptionsSave(s, u, o) PROVE OwnInv'
  <2>1. users' = users /\ overlay' = [overlay EXCEPT ![u] = Encoded(o)] /\ Valid(o) /\ o \in Options
    BY <1>1, FormsAssumption DEF OptionsSave
  <2> QED
    BY <2>1, EncodedIsValid DEF OwnInv
<1>2. ASSUME NEW u \in Users, DeleteUser(u) PROVE OwnInv'
  <2>1. users' = users \ {u} /\ overlay' = [overlay EXCEPT ![u] = None]
    BY <1>2 DEF DeleteUser
  <2> QED
    BY <2>1 DEF OwnInv
<1>3. ASSUME UNCHANGED <<users, overlay>> PROVE OwnInv'
  BY <1>3 DEF OwnInv
<1> QED
  BY <1>1, <1>2, <1>3, OwnUntouched

\* Nobody has options of its own at first.
LEMMA InitOwn == Init => OwnInv
BY DEF Init, OwnInv

\* The layers, field by field.
LEMMA OverAt ==
  ASSUME NEW o, NEW under, NEW f \in Fields
  PROVE  /\ o = None => Over(o, under)[f] = under[f]
         /\ o # None => Over(o, under)[f] = Else(o[f], under[f])
BY DEF Over

\* A field of a profile: the user's, else the administrator's, else the built-in one.
LEMMA EffectiveAt ==
  ASSUME NEW admin, NEW own, NEW f \in Fields
  PROVE  EffectiveMobileConfigOpts(admin, own)[f] =
           IF own # None /\ own[f] # Unset THEN own[f]
           ELSE IF admin # None /\ admin[f] # Unset THEN admin[f] ELSE BaseMobileConfigDefaults[f]
<1> DEFINE base == Over(admin, BaseMobileConfigDefaults)
<1>1. base[f] = IF admin # None /\ admin[f] # Unset THEN admin[f] ELSE BaseMobileConfigDefaults[f]
  BY OverAt DEF Else
<1>2. EffectiveMobileConfigOpts(admin, own) = Over(own, base)
  BY DEF EffectiveMobileConfigOpts
<1> HIDE DEF base
<1> QED
  BY <1>1, <1>2, OverAt DEF Else

\* The rule of the home network: its name is in it.
LEMMA HomeRules ==
  ASSUME NEW e, e.rule = "home"
  PROVE  OnDemandRules(e) = {[leave |-> e.ssid], [leave |-> None]}
<1>1. e.rule # "manual"
  OBVIOUS
<1> QED
  BY <1>1, Zenon DEF OnDemandRules

\* A user's own options come out whole, whatever the defaults.
LEMMA OwnRules == OwnInv => OwnRulesAreWhole
<1> SUFFICES ASSUME OwnInv, NEW u \in users, overlay[u] # None
             PROVE  /\ overlay[u].rule = "home" => \A r \in Profile(u).rules : r.leave # Unset
                    /\ overlay[u].rule = "manual" /\ overlay[u].demand # Unset => ~Profile(u).demand
  BY DEF OwnRulesAreWhole
<1> DEFINE own == overlay[u]
           e == EffectiveMobileConfigOpts(Read, own)
<1>1. own \in Options /\ Valid(own)
  BY DEF OwnInv
<1>2. /\ own.rule # Unset => e.rule = own.rule
      /\ own.demand # Unset => e.demand = own.demand
      /\ own.ssid # Unset => e.ssid = own.ssid
  <2>1. "rule" \in Fields /\ "demand" \in Fields /\ "ssid" \in Fields
    BY DEF Fields
  <2> QED
    BY <2>1, EffectiveAt
<1>3. Profile(u).demand = e.demand /\ Profile(u).rules = IF e.demand THEN OnDemandRules(e) ELSE {}
  BY DEF Profile
<1> HIDE DEF e, own
<1>4. ASSUME own.rule = "home", NEW r \in Profile(u).rules PROVE r.leave # Unset
  <2>1. own.ssid # Unset /\ e.ssid = own.ssid /\ e.rule = "home"
    BY <1>1, <1>2, <1>4, UnsetAssumption DEF Valid, Rules
  <2>2. OnDemandRules(e) = {[leave |-> e.ssid], [leave |-> None]}
    BY <2>1, HomeRules
  <2> QED
    BY <1>3, <1>4, <2>1, <2>2, NoneAssumption
<1>5. ASSUME own.rule = "manual", own.demand # Unset PROVE ~Profile(u).demand
  <2>1. own.demand \in BOOLEAN /\ own.demand # TRUE
    BY <1>1, <1>5 DEF Valid, Options
  <2>2. e.demand = FALSE
    BY <1>2, <1>5, <2>1
  <2> QED
    BY <1>3, <2>2
<1> QED
  BY <1>4, <1>5 DEF own

-----------------------------------------------------------------------------
(* The defaults: their file, their cache and the requests over them. *)

\* A request over the defaults is in its domain.
LEMMA EditingTyped ==
  ASSUME NEW pc \in {"idle", "rename", "cache", "forget", "remove"},
         NEW s \in Sessions \cup {None}, NEW d \in Options \cup {None}
  PROVE  /\ Editing(pc, s, d) \in Requests
         /\ Editing(pc, s, d).pc = pc /\ Editing(pc, s, d).session = s /\ Editing(pc, s, d).new = d
BY DEF Editing, Requests

\* So is a request that serves a profile.
LEMMA ServingTyped ==
  ASSUME NEW t \in Tokens, NEW u \in Users
  PROVE  Serving(t, u) \in Requests /\ Serving(t, u).pc = "serve"
BY DEF Serving, Requests

\* So is one that does nothing.
LEMMA IdleTyped == Idle \in Requests /\ Idle.pc = "idle"
BY EditingTyped DEF Idle

\* A request moves to one of its type.
LEMMA SetTyped ==
  ASSUME FileTypes, NEW h \in Handlers, NEW w \in Requests, Set(h, w),
         w.pc \in {"rename", "cache"} => w.new \in Defaults
  PROVE  /\ hand' \in [Handlers -> Requests]
         /\ hand'[h] = w /\ \A g \in Handlers \ {h} : hand'[g] = hand[g]
         /\ \A g \in Handlers : hand'[g].pc \in {"rename", "cache"} => hand'[g].new \in Defaults
<1>1. hand \in [Handlers -> Requests] /\ hand' = [hand EXCEPT ![h] = w]
  BY DEF FileTypes, Set
<1>2. hand' \in [Handlers -> Requests] /\ hand'[h] = w /\ \A g \in Handlers \ {h} : hand'[g] = hand[g]
  BY <1>1
<1> QED
  BY <1>2 DEF FileTypes

\* A read of the defaults leaves the cache what it was, or what the file is.
LEMMA LoadedKeeps ==
  ASSUME FileTypes, Loaded
  PROVE  /\ file' = file /\ cache' \in {cache, file} /\ cache' \in Defaults \cup {None}
         /\ apart' \in BOOLEAN
         /\ cache # None => cache' = cache
         /\ cache = None => cache' = file
         /\ apart' => apart /\ (cache # None \/ \A h \in Handlers : hand[h].pc # "remove")
<1>1. apart \in BOOLEAN /\ file \in Defaults \cup {None} /\ cache \in Defaults \cup {None}
  BY DEF FileTypes
<1>2. cache' = (IF cache # None THEN cache ELSE file) /\ file' = file
  BY DEF Loaded, Read
<1>3. apart' = (apart /\ (cache # None \/ Clearing = {}))
  BY DEF Loaded
<1>4. Clearing = {} => \A h \in Handlers : hand[h].pc # "remove"
  BY DEF Clearing
<1> QED
  BY <1>1, <1>2, <1>3, <1>4

\* Reading keeps both invariants.
LEMMA Reading ==
  ASSUME FileTypes, CacheInv, Loaded, UNCHANGED hand
  PROVE  FileTypes' /\ CacheInv'
<1>1. FileTypes'
  BY LoadedKeeps DEF FileTypes
<1>2. CacheInv'
  BY LoadedKeeps DEF CacheInv, Edits, At
<1> QED
  BY <1>1, <1>2

\* The steps of one request, by what they do to it and to the defaults.
LEMMA Beginning ==
  ASSUME FileTypes, CacheInv, NEW h \in Handlers, NEW s \in Sessions,
         NEW d \in Options \cup {None}, NEW pc \in {"rename", "forget"}, pc = "rename" => d \in Defaults,
         Begin(h, Editing(pc, s, d))
  PROVE  FileTypes' /\ CacheInv'
<1>1. /\ Set(h, Editing(pc, s, d)) /\ UNCHANGED <<file, cache>>
      /\ apart' = (apart /\ \A x \in Handlers : hand[x].pc \in {"idle", "serve"})
  BY DEF Begin
<1> DEFINE w == Editing(pc, s, d)
<1>2. w \in Requests /\ w.pc = pc /\ w.new = d
  BY EditingTyped
<1> HIDE DEF w
<1>3. /\ hand' \in [Handlers -> Requests]
      /\ hand'[h] = w /\ \A g \in Handlers \ {h} : hand'[g] = hand[g]
      /\ \A g \in Handlers : hand'[g].pc \in {"rename", "cache"} => hand'[g].new \in Defaults
  BY <1>1, <1>2, SetTyped DEF w
<1>4. FileTypes'
  BY <1>1, <1>3 DEF FileTypes
<1>5. apart' => apart /\ \A x \in Handlers : hand[x].pc \in {"idle", "serve"}
  BY <1>1
<1>6. CacheInv'
  BY <1>1, <1>2, <1>3, <1>5 DEF CacheInv, Edits, At
<1> QED
  BY <1>4, <1>6

\* The new file waits for its cache.
LEMMA Renaming ==
  ASSUME FileTypes, CacheInv, NEW h \in Handlers, Rename(h)
  PROVE  FileTypes' /\ CacheInv'
<1> DEFINE w == Editing("cache", hand[h].session, hand[h].new)
<1>1. hand[h].pc = "rename" /\ Set(h, w) /\ file' = hand[h].new /\ UNCHANGED <<cache, apart>>
  BY DEF Rename, At, Go
<1>2. hand[h] \in Requests /\ hand[h].new \in Defaults /\ hand[h].session \in Sessions \cup {None}
  BY <1>1 DEF FileTypes, Requests
<1>3. w \in Requests /\ w.pc = "cache" /\ w.new = hand[h].new
  BY <1>2, EditingTyped DEF Defaults
<1> HIDE DEF w
<1>4. /\ hand' \in [Handlers -> Requests]
      /\ hand'[h] = w /\ \A g \in Handlers \ {h} : hand'[g] = hand[g]
      /\ \A g \in Handlers : hand'[g].pc \in {"rename", "cache"} => hand'[g].new \in Defaults
  BY <1>1, <1>2, <1>3, SetTyped
<1>5. FileTypes'
  BY <1>1, <1>2, <1>4 DEF FileTypes
<1>6. CacheInv'
  BY <1>1, <1>3, <1>4 DEF CacheInv, Edits, At
<1> QED
  BY <1>5, <1>6

\* The cleared cache waits for the file to go.
LEMMA Forgetting ==
  ASSUME FileTypes, CacheInv, NEW h \in Handlers, Forget(h)
  PROVE  FileTypes' /\ CacheInv'
<1> DEFINE w == Editing("remove", hand[h].session, hand[h].new)
<1>1. hand[h].pc = "forget" /\ Set(h, w) /\ cache' = None /\ UNCHANGED <<file, apart>>
  BY DEF Forget, At, Go
<1>2. hand[h] \in Requests /\ hand[h].new \in Options \cup {None} /\ hand[h].session \in Sessions \cup {None}
  BY <1>1 DEF FileTypes, Requests
<1>3. w \in Requests /\ w.pc = "remove"
  BY <1>2, EditingTyped
<1> HIDE DEF w
<1>4. /\ hand' \in [Handlers -> Requests]
      /\ hand'[h] = w /\ \A g \in Handlers \ {h} : hand'[g] = hand[g]
      /\ \A g \in Handlers : hand'[g].pc \in {"rename", "cache"} => hand'[g].new \in Defaults
  BY <1>1, <1>3, SetTyped
<1>5. FileTypes'
  BY <1>1, <1>4 DEF FileTypes
<1>6. CacheInv'
  BY <1>1, <1>3, <1>4 DEF CacheInv, Edits, At
<1> QED
  BY <1>5, <1>6

\* A request over the defaults is done: with its cache, with its file, or failed.
LEMMA Finishing ==
  ASSUME FileTypes, CacheInv, NEW h \in Handlers, SetCache(h) \/ Remove(h) \/ StoreFails(h)
  PROVE  FileTypes' /\ CacheInv'
<1>1. Set(h, Idle) /\ UNCHANGED apart
  BY DEF SetCache, Remove, StoreFails, defaults
<1>2. /\ hand' \in [Handlers -> Requests]
      /\ hand'[h] = Idle /\ \A g \in Handlers \ {h} : hand'[g] = hand[g]
      /\ \A g \in Handlers : hand'[g].pc \in {"rename", "cache"} => hand'[g].new \in Defaults
  BY <1>1, IdleTyped, SetTyped
<1>3. \/ hand[h].pc = "cache" /\ cache' = hand[h].new /\ file' = file
      \/ hand[h].pc = "remove" /\ file' = None /\ cache' = cache
      \/ hand[h].pc \in {"rename", "remove"} /\ file' = file /\ cache' = cache
  BY DEF SetCache, Remove, StoreFails, At, defaults
<1>4. FileTypes'
  BY <1>1, <1>2, <1>3 DEF FileTypes
<1>5. ASSUME apart PROVE \A g \in Handlers \ {h} : ~Edits(g)
  BY <1>3, <1>5 DEF CacheInv, Edits
<1>6. ASSUME apart PROVE cache' \in {None, file'}
  <2>1. hand[h].pc = "cache" => file = hand[h].new
    BY <1>6 DEF CacheInv, At
  <2>2. hand[h].pc # "cache" => \A g \in Handlers : ~At(g, "cache")
    BY <1>5, <1>6 DEF Edits, At
  <2>3. hand[h].pc # "cache" => cache \in {None, file}
    BY <1>6, <2>2 DEF CacheInv
  <2>4. hand[h].pc = "remove" => cache = None
    BY <1>6 DEF CacheInv, At
  <2> QED
    BY <1>3, <2>1, <2>3, <2>4
<1>7. ASSUME apart PROVE \A g \in Handlers : ~Edits(g)'
  <2>1. ~Edits(h)'
    BY <1>2, IdleTyped DEF Edits
  <2>2. \A g \in Handlers \ {h} : ~Edits(g)'
    BY <1>2, <1>5, <1>7 DEF Edits
  <2> QED
    BY <2>1, <2>2
<1>8. CacheInv'
  BY <1>1, <1>6, <1>7 DEF CacheInv, Edits, At
<1> QED
  BY <1>4, <1>8

\* A request over a link begins or ends, and may read the defaults.
LEMMA Passing ==
  ASSUME FileTypes, CacheInv, NEW h \in Handlers, hand[h].pc \in {"idle", "serve"},
         NEW w \in Requests, w.pc \in {"idle", "serve"}, Set(h, w), UNCHANGED defaults \/ Loaded
  PROVE  FileTypes' /\ CacheInv'
<1>1. /\ hand' \in [Handlers -> Requests]
      /\ hand'[h] = w /\ \A g \in Handlers \ {h} : hand'[g] = hand[g]
      /\ \A g \in Handlers : hand'[g].pc \in {"rename", "cache"} => hand'[g].new \in Defaults
  BY SetTyped
<1>2. \A g \in Handlers, pc \in {"rename", "cache", "forget", "remove"} :
          (hand'[g].pc = pc <=> hand[g].pc = pc) /\ (hand[g].pc = pc => hand'[g] = hand[g])
  BY <1>1
<1>3. CASE UNCHANGED defaults
  <2>1. FileTypes'
    BY <1>1, <1>3 DEF FileTypes, defaults
  <2>2. CacheInv'
    BY <1>2, <1>3 DEF CacheInv, Edits, At, defaults
  <2> QED
    BY <2>1, <2>2
<1>4. CASE Loaded
  <2>1. FileTypes'
    BY <1>1, <1>4, LoadedKeeps DEF FileTypes
  <2>2. CacheInv'
    BY <1>2, <1>4, LoadedKeeps DEF CacheInv, Edits, At
  <2> QED
    BY <2>1, <2>2
<1> QED
  BY <1>3, <1>4

\* No step of a request over the defaults leaves file and cache apart.
LEMMA HandlerFiles ==
  ASSUME FileTypes, CacheInv, LinkTypes, NEW h \in Handlers, HandlerStep(h)
  PROVE  FileTypes' /\ CacheInv'
<1>1. ASSUME NEW s \in Sessions, DefaultsClear(h, s) PROVE FileTypes' /\ CacheInv'
  BY <1>1, Beginning DEF DefaultsClear
<1>2. ASSUME NEW s \in Sessions, NEW d \in Forms, DefaultsSave(h, s, DefaultsForm(d))
      PROVE  FileTypes' /\ CacheInv'
  <2>1. DefaultsForm(d) \in Defaults
    BY FormsAssumption DEF DefaultsForm, Defaults, Options
  <2>2. DefaultsForm(d) \in Options \cup {None}
    BY <2>1 DEF Defaults
  <2> QED
    BY <1>2, <2>1, <2>2, Beginning DEF DefaultsSave
<1>3. ASSUME NEW t \in Tokens, Consume(h, t) PROVE FileTypes' /\ CacheInv'
  <2>1. hand[h].pc = "idle" /\ UNCHANGED defaults /\ tokens[t] # None
    BY <1>3 DEF Consume, At
  <2>2. CASE UNCHANGED hand
    BY <2>1, <2>2 DEF FileTypes, CacheInv, Edits, At, defaults
  <2>3. CASE Set(h, Serving(t, tokens[t].user))
    <3>1. tokens[t].user \in Users
      BY <2>1 DEF LinkTypes, Entries
    <3> QED
      BY <2>1, <2>3, <3>1, ServingTyped, Passing
  <2> QED
    BY <1>3, <2>2, <2>3 DEF Consume
<1>4. ASSUME Serve(h) PROVE FileTypes' /\ CacheInv'
  BY <1>4, IdleTyped, Passing DEF Serve, At
<1>5. ASSUME ServeGone(h) \/ ServeFails(h) PROVE FileTypes' /\ CacheInv'
  BY <1>5, IdleTyped, Passing DEF ServeGone, ServeFails, At
<1> QED
  BY <1>1, <1>2, <1>3, <1>4, <1>5, Renaming, Forgetting, Finishing DEF HandlerStep

\* Nor does any other step: the pages only fill an empty cache from the file.
LEMMA NextFiles == FileTypes /\ CacheInv /\ LinkTypes /\ [Next]_vars => FileTypes' /\ CacheInv'
<1> SUFFICES ASSUME FileTypes, CacheInv, LinkTypes, [Next]_vars PROVE FileTypes' /\ CacheInv'
  OBVIOUS
<1>1. ASSUME UNCHANGED <<defaults, hand>> PROVE FileTypes' /\ CacheInv'
  BY <1>1 DEF FileTypes, CacheInv, Edits, At, defaults
<1>2. ASSUME NEW s \in Sessions, SessionStep(s) PROVE UNCHANGED <<defaults, hand>> \/ (Loaded /\ UNCHANGED hand)
  BY <1>2 DEF SessionStep, OptionsSave, OptionsRefused, DefaultsRefused, UserPage, DefaultsPage,
              HomePage, OtherHandler, FlashAges
<1>3. ASSUME NEW u \in Users, Download(u) PROVE FileTypes' /\ CacheInv'
  BY <1>3, Reading DEF Download
<1>4. ASSUME \/ \E u \in Users : DeleteUser(u) \/ \E t \in Tokens : IssueToken(u, t)
             \/ \E t \in Tokens : TokenAges(t)
             \/ SweepTokens \/ SweepFlashes \/ UNCHANGED vars
      PROVE  UNCHANGED <<defaults, hand>>
  BY <1>4 DEF DeleteUser, IssueToken, TokenAges, SweepTokens, SweepFlashes, vars
<1>5. ASSUME Restart PROVE FileTypes' /\ CacheInv'
  <2>1. /\ hand' = [h \in Handlers |-> Idle] /\ cache' = file /\ apart' = TRUE /\ file' = file
    BY <1>5 DEF Restart
  <2>2. FileTypes'
    BY <2>1, IdleTyped DEF FileTypes
  <2>3. CacheInv'
    BY <2>1, IdleTyped DEF CacheInv, Edits, At
  <2> QED
    BY <2>2, <2>3
<1> QED
  BY <1>1, <1>2, <1>3, <1>4, <1>5, HandlerFiles, Reading DEF Next

\* At first there is neither file nor cache.
LEMMA InitFiles == Init => FileTypes /\ CacheInv
<1> SUFFICES ASSUME Init PROVE FileTypes /\ CacheInv
  OBVIOUS
<1>1. hand = [h \in Handlers |-> Idle] /\ cache = None /\ file = None /\ apart = TRUE
  BY DEF Init
<1> QED
  BY <1>1, IdleTyped DEF FileTypes, CacheInv, Edits, At

-----------------------------------------------------------------------------
(* The types of the stores and of the bounds. *)

\* A request spends a token, or ends with a profile or without.
LEMMA HandlerLinkTypes ==
  ASSUME LinkTypes, FileTypes, NEW h \in Handlers, HandlerStep(h)
  PROVE  LinkTypes'
<1>1. ASSUME UNCHANGED linking PROVE LinkTypes'
  BY <1>1 DEF LinkTypes, linking
<1>2. ASSUME NEW t \in Tokens, Consume(h, t) PROVE LinkTypes'
  <2>1. tokens' = [tokens EXCEPT ![t] = None] /\ UNCHANGED links
    BY <1>2 DEF Consume
  <2> QED
    BY <2>1 DEF LinkTypes
<1>3. ASSUME Serve(h) PROVE LinkTypes'
  <2> DEFINE t == hand[h].token
             w == [owner |-> links[t].owner, got |-> hand[h].user]
  <2>1. links' = [links EXCEPT ![t] = w] /\ UNCHANGED tokens
    BY <1>3 DEF Serve
  <2>2. hand[h].user \in Users \cup {None}
    BY DEF FileTypes, Requests
  <2>3. ASSUME t \in Tokens PROVE w \in [owner : Users \cup {None}, got : Users \cup {None}]
    BY <2>2, <2>3 DEF LinkTypes
  <2> HIDE DEF w, t
  <2> QED
    BY <2>1, <2>3 DEF LinkTypes
<1> QED
  BY <1>1, <1>2, <1>3
  DEF HandlerStep, DefaultsClear, DefaultsSave, Begin, Rename, SetCache, Forget, Remove, StoreFails,
      ServeGone, ServeFails

\* Links keep to their domains.
LEMMA NextLinkTypes == LinkTypes /\ FileTypes /\ [Next]_vars => LinkTypes'
<1> SUFFICES ASSUME LinkTypes, FileTypes, [Next]_vars PROVE LinkTypes'
  OBVIOUS
<1>1. ASSUME UNCHANGED linking PROVE LinkTypes'
  BY <1>1 DEF LinkTypes, linking
<1>2. ASSUME NEW u \in Users, NEW t \in Tokens, IssueToken(u, t) PROVE LinkTypes'
  <2>1. /\ tokens' = [tokens EXCEPT ![t] = [user |-> u, old |-> FALSE]]
        /\ links' = [links EXCEPT ![t] = [owner |-> u, got |-> None]]
    BY <1>2 DEF IssueToken
  <2> QED
    BY <2>1 DEF LinkTypes, Entries
<1>3. ASSUME NEW t \in Tokens, TokenAges(t) PROVE LinkTypes'
  <2>1. /\ tokens[t] # None /\ links' = links
        /\ tokens' = [tokens EXCEPT ![t] = [user |-> tokens[t].user, old |-> TRUE]]
    BY <1>3 DEF TokenAges
  <2>2. [user |-> tokens[t].user, old |-> TRUE] \in Entries
    BY <2>1 DEF LinkTypes, Entries
  <2> QED
    BY <2>1, <2>2 DEF LinkTypes
<1>4. ASSUME SweepTokens PROVE LinkTypes'
  BY <1>4 DEF SweepTokens, LinkTypes
<1>5. ASSUME Restart PROVE LinkTypes'
  BY <1>5 DEF Restart, LinkTypes
<1>6. ASSUME NEW s \in Sessions, SessionStep(s) PROVE UNCHANGED linking
  BY <1>6 DEF SessionStep, OptionsSave, OptionsRefused, DefaultsRefused, UserPage, DefaultsPage,
              HomePage, OtherHandler, FlashAges
<1>7. ASSUME (\E u \in Users : Download(u) \/ DeleteUser(u)) \/ SweepFlashes \/ UNCHANGED vars
      PROVE  UNCHANGED linking
  BY <1>7 DEF Download, DeleteUser, SweepFlashes, vars
<1> QED
  BY <1>1, <1>2, <1>3, <1>4, <1>5, <1>6, <1>7, HandlerLinkTypes DEF Next

\* A message is left.
LEMMA LeavingTyped ==
  ASSUME NoteTypes, NEW s \in Sessions, NEW k \in Slots, Note(s, k)
  PROVE  NoteTypes'
<1>1. PICK n \in Messages : /\ notes' = [notes EXCEPT ![n] = [owner |-> s, by |-> None]]
                            /\ flash' = [flash EXCEPT ![s][k] = [id |-> n, old |-> FALSE]]
  BY DEF Note
<1>2. [id |-> n, old |-> FALSE] \in Slips /\ [owner |-> s, by |-> None] \in Receipts
  BY DEF Slips, Receipts
<1> QED
  BY <1>1, <1>2 DEF NoteTypes

\* Slots are shown and emptied.
LEMMA ShowingTyped ==
  ASSUME NoteTypes, NEW s \in Sessions, NEW slots \in SUBSET Slots, ConsumeFor(s, slots)
  PROVE  NoteTypes'
<1> DEFINE seen == {flash[s][k].id : k \in {k \in slots : flash[s][k] # None /\ ~flash[s][k].old}}
<1>1. /\ notes' = [n \in Messages |-> IF n \in seen THEN [owner |-> notes[n].owner, by |-> s] ELSE notes[n]]
      /\ flash' = [flash EXCEPT ![s] = [k \in Slots |-> IF k \in slots THEN None ELSE flash[s][k]]]
  BY DEF ConsumeFor
<1> HIDE DEF seen
<1>2. [k \in Slots |-> IF k \in slots THEN None ELSE flash[s][k]] \in [Slots -> Slips \cup {None}]
  BY DEF NoteTypes
<1>3. flash' \in [Sessions -> [Slots -> Slips \cup {None}]]
  BY <1>1, <1>2 DEF NoteTypes
<1>4. \A n \in Messages : [owner |-> notes[n].owner, by |-> s] \in Receipts
  BY DEF NoteTypes, Receipts
<1>5. notes' \in [Messages -> Receipts]
  BY <1>1, <1>4 DEF NoteTypes
<1> QED
  BY <1>3, <1>5 DEF NoteTypes

\* Messages do.
LEMMA NextNoteTypes == NoteTypes /\ EditorsAreKnown /\ [Next]_vars => NoteTypes'
<1> SUFFICES ASSUME NoteTypes, EditorsAreKnown, [Next]_vars PROVE NoteTypes'
  OBVIOUS
<1>1. ASSUME UNCHANGED noting PROVE NoteTypes'
  BY <1>1 DEF NoteTypes, noting
<1>2. ASSUME NEW h \in Handlers, HandlerStep(h) PROVE NoteTypes'
  <2>1. ASSUME SetCache(h) \/ Remove(h) \/ StoreFails(h) PROVE NoteTypes'
    <3>1. hand[h].session \in Sessions
      BY <2>1 DEF SetCache, Remove, StoreFails, At, EditorsAreKnown
    <3>2. Note(hand[h].session, "page") /\ "page" \in Slots
      BY <2>1 DEF SetCache, Remove, StoreFails, Slots
    <3> QED
      BY <3>1, <3>2, LeavingTyped
  <2>2. SetCache(h) \/ Remove(h) \/ StoreFails(h) \/ UNCHANGED noting
    BY <1>2 DEF HandlerStep, DefaultsClear, DefaultsSave, Begin, Rename, Forget, Consume,
                Serve, ServeGone, ServeFails
  <2> QED
    BY <1>1, <2>1, <2>2
<1>3. ASSUME NEW s \in Sessions, SessionStep(s) PROVE NoteTypes'
  <2>1. ASSUME NEW k \in Slots, FlashAges(s, k) PROVE NoteTypes'
    <3>1. /\ flash[s][k] # None /\ notes' = notes
          /\ flash' = [flash EXCEPT ![s][k] = [id |-> flash[s][k].id, old |-> TRUE]]
      BY <2>1 DEF FlashAges
    <3>2. [id |-> flash[s][k].id, old |-> TRUE] \in Slips
      BY <3>1 DEF NoteTypes, Slips
    <3> QED
      BY <3>1, <3>2 DEF NoteTypes
  <2>2. "page" \in Slots /\ {"page"} \in SUBSET Slots /\ Slots \in SUBSET Slots
    BY DEF Slots
  <2> QED
    BY <1>3, <2>1, <2>2, LeavingTyped, ShowingTyped
    DEF SessionStep, OptionsSave, OptionsRefused, DefaultsRefused, UserPage, DefaultsPage, HomePage, OtherHandler
<1>4. ASSUME SweepFlashes PROVE NoteTypes'
  BY <1>4 DEF SweepFlashes, NoteTypes
<1>5. ASSUME Restart PROVE NoteTypes'
  BY <1>5 DEF Restart, NoteTypes
<1>6. ASSUME \/ \E u \in Users : Download(u) \/ DeleteUser(u) \/ \E t \in Tokens : IssueToken(u, t)
             \/ \E t \in Tokens : TokenAges(t)
             \/ SweepTokens \/ UNCHANGED vars
      PROVE  UNCHANGED noting
  BY <1>6 DEF Download, DeleteUser, IssueToken, TokenAges, SweepTokens, vars
<1> QED
  BY <1>1, <1>2, <1>3, <1>4, <1>5, <1>6 DEF Next

\* Every step is charged to the bounds at most once.
LEMMA Charged ==
  ASSUME [Next]_vars
  PROVE  /\ saves' = saves \/ (saves < MaxSaves /\ saves' = saves + 1)
         /\ failures' = failures \/ (failures < MaxFailures /\ failures' = failures + 1)
         /\ restarts' = restarts \/ (restarts < MaxRestarts /\ restarts' = restarts + 1)
<1> DEFINE Goal == /\ saves' = saves \/ (saves < MaxSaves /\ saves' = saves + 1)
                   /\ failures' = failures \/ (failures < MaxFailures /\ failures' = failures + 1)
                   /\ restarts' = restarts \/ (restarts < MaxRestarts /\ restarts' = restarts + 1)
<1>1. ASSUME NEW h \in Handlers, HandlerStep(h) PROVE Goal
  BY <1>1 DEF HandlerStep, DefaultsClear, DefaultsSave, Begin, Rename, SetCache, Forget, Remove, StoreFails,
              Consume, Serve, ServeGone, ServeFails, Works, Fails, bounds
<1>2. ASSUME NEW s \in Sessions, SessionStep(s) PROVE Goal
  BY <1>2 DEF SessionStep, OptionsSave, OptionsRefused, DefaultsRefused, UserPage, DefaultsPage,
              HomePage, OtherHandler, FlashAges, bounds
<1>3. ASSUME \/ \E u \in Users : Download(u) \/ DeleteUser(u) \/ \E t \in Tokens : IssueToken(u, t)
             \/ \E t \in Tokens : TokenAges(t)
             \/ SweepTokens \/ SweepFlashes \/ Restart \/ UNCHANGED vars
      PROVE  Goal
  BY <1>3 DEF Download, DeleteUser, IssueToken, TokenAges, SweepTokens, SweepFlashes, Restart, vars, bounds
<1> QED
  BY <1>1, <1>2, <1>3 DEF Next

\* The counters stay within their bounds.
LEMMA NextBounds == BoundTypes /\ [Next]_vars => BoundTypes'
BY Charged, BoundsAssumption DEF BoundTypes

\* Every step knows the sessions of the requests.
LEMMA NextEditors == EditorsAreKnown /\ [Next]_vars => EditorsAreKnown'
<1> SUFFICES ASSUME EditorsAreKnown, [Next]_vars PROVE EditorsAreKnown'
  OBVIOUS
<1>1. ASSUME UNCHANGED hand PROVE EditorsAreKnown'
  BY <1>1 DEF EditorsAreKnown
<1>2. ASSUME NEW s \in Sessions, SessionStep(s) PROVE UNCHANGED hand
  BY <1>2 DEF SessionStep, OptionsSave, OptionsRefused, DefaultsRefused, UserPage, DefaultsPage,
              HomePage, OtherHandler, FlashAges
<1>3. ASSUME Restart PROVE EditorsAreKnown'
  <2>1. hand' = [h \in Handlers |-> Idle]
    BY <1>3 DEF Restart
  <2> QED
    BY <2>1, IdleTyped DEF EditorsAreKnown
<1>4. ASSUME \/ \E u \in Users : Download(u) \/ DeleteUser(u) \/ \E t \in Tokens : IssueToken(u, t)
             \/ \E t \in Tokens : TokenAges(t)
             \/ SweepTokens \/ SweepFlashes \/ UNCHANGED vars
      PROVE  UNCHANGED hand
  BY <1>4 DEF Download, DeleteUser, IssueToken, TokenAges, SweepTokens, SweepFlashes, vars
<1> QED
  BY <1>1, <1>2, <1>3, <1>4, HandlerEditors DEF Next

-----------------------------------------------------------------------------
(* The theorems. *)

ProfileInv == OwnInv /\ FileTypes /\ CacheInv /\ LinkTypes /\ NoteTypes /\ EditorsAreKnown /\ BoundTypes

\* What a user's own options say, and what is on its way between the file and
\* the cache of the defaults, is as ProfileInv has it in every state (Validate,
\* WriteMobileConfigDefaults, ClearMobileConfigDefaults).
THEOREM ProfileInvHolds == Spec => []ProfileInv
<1>1. Init => ProfileInv
  <2> SUFFICES ASSUME Init PROVE ProfileInv
    OBVIOUS
  <2>1. LinkTypes /\ NoteTypes
    BY DEF Init, LinkTypes, NoteTypes, NoLink, NoNote, Receipts
  <2>2. BoundTypes
    BY BoundsAssumption DEF Init, BoundTypes
  <2> QED
    BY <2>1, <2>2, InitOwn, InitFiles, InitNotes DEF ProfileInv
<1>2. ProfileInv /\ [Next]_vars => ProfileInv'
  <2> SUFFICES ASSUME ProfileInv, [Next]_vars PROVE ProfileInv'
    OBVIOUS
  <2>1. EditorsAreKnown'
    BY NextEditors DEF ProfileInv
  <2> QED
    BY <2>1, NextOwn, NextFiles, NextLinkTypes, NextNoteTypes, NextBounds DEF ProfileInv
<1> QED
  BY <1>1, <1>2, PTL DEF Spec

\* Every variable has its type; a user's options are never stored empty and the
\* defaults name no network (EncodeMobileConfigOpts, the form of the defaults).
THEOREM TypeOKHolds == Spec => []TypeOK
<1>1. ProfileInv => TypeOK
  BY DEF ProfileInv, TypeOK, OwnInv, FileTypes, LinkTypes, NoteTypes, BoundTypes,
         Defaults, Requests, Entries, Slips, Receipts
<1> QED
  BY <1>1, ProfileInvHolds, PTL

\* With the requests over the defaults done and run one after the other, every
\* profile has the user's value, else that of the defaults on disk, else the
\* built-in one (resolveEffectiveOpts, ReadMobileConfigDefaults).
THEOREM ProfilesFollowTheFilesHolds == Spec => []ProfilesFollowTheFiles
<1>1. ProfileInv => ProfilesFollowTheFiles
  <2> SUFFICES ASSUME FileTypes, CacheInv, apart, \A h \in Handlers : hand[h].pc \in {"idle", "serve"},
                      NEW u \in users, NEW f \in Fields
               PROVE  EffectiveMobileConfigOpts(Read, overlay[u])[f] =
                        IF overlay[u] # None /\ overlay[u][f] # Unset THEN overlay[u][f]
                        ELSE IF file # None /\ file[f] # Unset THEN file[f] ELSE BaseMobileConfigDefaults[f]
    BY DEF ProfilesFollowTheFiles, ProfileInv
  <2>1. cache \in {None, file}
    BY DEF CacheInv, At
  <2>2. Read = file
    BY <2>1 DEF Read
  <2> QED
    BY <2>2, EffectiveAt
<1> QED
  BY <1>1, ProfileInvHolds, PTL

\* The rule that a user's own options ask for comes out whole, whatever becomes
\* of the defaults (Validate, renderOnDemandRules).
THEOREM OwnRulesAreWholeHolds == Spec => []OwnRulesAreWhole
<1>1. ProfileInv => OwnRulesAreWhole
  BY OwnRules DEF ProfileInv
<1> QED
  BY <1>1, ProfileInvHolds, PTL
=============================================================================

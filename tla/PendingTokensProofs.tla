-------------------------- MODULE PendingTokensProofs --------------------------
(***************************************************************************)
(* The slots and their offline queues, for any number of mints, slots,     *)
(* places and tokens, and any number of power losses.                      *)
(***************************************************************************)
EXTENDS PendingTokens, TLAPS

InRewrite(s) == Rewriting /\ job.slot = s

(* What each operation in progress relies on.  A drain takes the places in   *)
(* ascending order, so what it retains always fits below the place it is at. *)
JobOK ==
    /\ job.op = "none" => job = NoJob
    /\ job.op \in {"stash", "drain", "remove"} => job.at = 0
    /\ job.op = "stash" =>
        /\ Len(job.kept) = 1
        /\ count[job.slot] < PendMax
        /\ item[job.slot][count[job.slot]] = job.kept[1]
    /\ job.op = "drain" =>
        /\ job.todo \subseteq Listed(job.slot)
        /\ \A i \in job.todo : Len(job.kept) <= i
    /\ job.op \in {"drain", "rewrite", "restore"} => Len(job.kept) <= count[job.slot]
    /\ job.op = "rewrite" => job.todo = {} /\ job.at < PendMax
    /\ job.op = "restore" => job.todo = {} /\ job.at <= Len(job.kept)

(* Unless a rewrite was cut: every item below a count is readable, outside  *)
(* the rewrite of its queue, and what the rewrite restored is what it kept.  *)
QueueOK ==
    /\ \A s \in Slots : ~InRewrite(s) =>
            \A i \in Places : i < count[s] => item[s][i] # NoToken
    /\ job.op = "restore" =>
            \A i \in Places : i < job.at => item[job.slot][i] = job.kept[i + 1]

(* Whatever was cut or failed: the rewrite has restored what was retained,   *)
(* or dropped it; and what a drain or its rewrite still finds at a place it  *)
(* has visited is retained or redeemed.                                      *)
RewriteOK ==
    /\ job.op = "restore" =>
            \A i \in Places : i < job.at =>
                item[job.slot][i] = job.kept[i + 1] \/ job.kept[i + 1] \in dropped
    /\ job.op \in {"drain", "rewrite", "restore"} =>
            \A i \in Listed(job.slot) :
                \/ i \in job.todo
                \/ item[job.slot][i] \in redeemed
                \/ \E k \in 1 .. Len(job.kept) : job.kept[k] = item[job.slot][i]

(* A wallet is the one its url names, unless it is being removed.            *)
UrlOK ==
    \A s \in Slots :
        url[s] = IF job.op = "remove" /\ job.slot = s THEN NoMint ELSE wallets[s]

(* In RAM and in flash a slot holds proofs of its wallet's mint only.        *)
FlashPure ==
    \A s \in Slots : cash[s] \subseteq {wallets[s]} /\ blob[s] \subseteq {wallets[s]}

PendingInv ==
    /\ TypeOK
    /\ JobOK
    /\ "rewrite" \notin cut => QueueOK
    /\ RewriteOK
    /\ StashedKept
    /\ UrlOK
    /\ "erase" \notin cut => FlashPure
-------------------------------------------------------------------------------
(* A step *)

\* What an operation in progress relies on, and the types.
LEMMA TypedStep ==
    ASSUME TypeOK, JobOK, Next
    PROVE  TypeOK' /\ JobOK'
<1> USE PendingAssumption DEF Slots, Places, ramVars, queueVars, slotVars, tokenVars
<1>0. NoJob \in Jobs /\ (job' = NoJob => JobOK')
  BY DEF NoJob, Jobs, JobOK
<1>1. ASSUME NEW m \in Mints, AddMint(m) PROVE TypeOK' /\ JobOK'
  BY <1>1 DEF AddMint, TypeOK, JobOK, Listed
<1>2. ASSUME NEW t \in Tokens, ReceiveOnline(t) PROVE TypeOK' /\ JobOK'
  <2>1. PICK s \in Slots : Credit(s, t)
    BY <1>2 DEF ReceiveOnline, Find
  <2>2. cash' \in [Slots -> SUBSET Mints]
    BY <2>1 DEF Credit, TypeOK
  <2>3. blob' \in [Slots -> SUBSET Mints]
    BY <2>1, <2>2 DEF Credit, TypeOK
  <2> QED
    BY <1>2, <2>1, <2>2, <2>3 DEF ReceiveOnline, Credit, TypeOK, JobOK, Listed
<1>3. ASSUME NEW t \in Tokens, StashItem(t) PROVE TypeOK' /\ JobOK'
  <2>1. PICK s \in Slots :
            /\ count[s] < PendMax
            /\ item' = [item EXCEPT ![s][count[s]] = t]
            /\ job' = [NoJob EXCEPT !.op = "stash", !.slot = s, !.kept = <<t>>]
    BY <1>3 DEF StashItem, Find
  <2>2. /\ job' \in Jobs /\ job'.op = "stash" /\ job'.slot = s /\ job'.kept = <<t>>
        /\ job'.at = 0
    <3>1. job' = [op |-> "stash", slot |-> s, todo |-> {},
                 kept |-> <<t>>, at |-> 0]
      BY <2>1 DEF NoJob
    <3>2. <<t>> \in Seq(Tokens)
      OBVIOUS
    <3> QED
      BY <3>1, <3>2 DEF Jobs
  <2>3. count[s] \in Places
    BY <2>1 DEF TypeOK
  <2>4. item' \in [Slots -> [Places -> Tokens \cup {NoToken}]] /\ item'[s][count[s]] = t
    BY <2>1, <2>3 DEF TypeOK
  <2>5. stashes' \in 0 .. MaxStash
    BY <1>3 DEF StashItem, TypeOK
  <2>6. TypeOK'
    BY <1>3, <2>2, <2>4, <2>5 DEF StashItem, TypeOK
  <2>7. JobOK'
    BY <1>3, <2>1, <2>2, <2>4 DEF StashItem, JobOK
  <2> QED
    BY <2>6, <2>7
<1>4. ASSUME NEW S \in SUBSET Slots, BeginRemove(S) PROVE TypeOK' /\ JobOK'
  <2>1. PICK s \in Slots :
            /\ job' = [NoJob EXCEPT !.op = "remove", !.slot = s, !.todo = S \ {s}]
            /\ url' = [url EXCEPT ![s] = NoMint]
    BY <1>4 DEF BeginRemove
  <2>2. job' \in Jobs /\ job'.op = "remove" /\ job'.at = 0
    <3>1. job' = [op |-> "remove", slot |-> s, todo |-> S \ {s},
                 kept |-> <<>>, at |-> 0]
      BY <2>1 DEF NoJob
    <3> QED
      BY <3>1 DEF Jobs
  <2>3. TypeOK'
    BY <1>4, <2>1, <2>2 DEF BeginRemove, TypeOK
  <2>4. JobOK'
    BY <2>2 DEF JobOK
  <2> QED
    BY <2>3, <2>4
<1>5. CASE FinishRemove
  <2>1. /\ job.op = "remove" /\ job.slot \in Slots
        /\ blob' = [blob EXCEPT ![job.slot] = {}]
        /\ wallets' = [wallets EXCEPT ![job.slot] = NoMint]
        /\ cash' = [cash EXCEPT ![job.slot] = {}]
        /\ UNCHANGED <<queueVars, online, tokenVars, cut>>
    BY <1>5 DEF FinishRemove, TypeOK, Jobs
  <2>2. CASE job' = NoJob /\ url' = url
    BY <2>1, <2>2, <1>0 DEF TypeOK
  <2>3. ASSUME NEW s \in Slots, job' = [job EXCEPT !.slot = s, !.todo = @ \ {s}],
               url' = [url EXCEPT ![s] = NoMint]
        PROVE  TypeOK' /\ JobOK'
    <3>1. job' \in Jobs /\ job'.op = "remove" /\ job'.at = 0
      BY <2>1, <2>3 DEF TypeOK, Jobs, JobOK
    <3>2. TypeOK'
      BY <2>1, <2>3, <3>1 DEF TypeOK
    <3>3. JobOK'
      BY <3>1 DEF JobOK
    <3> QED
      BY <3>2, <3>3
  <2> QED
    BY <1>5, <2>2, <2>3 DEF FinishRemove
<1>6. CASE StashCount
  <2>1. job.slot \in Slots /\ count[job.slot] < PendMax /\ job.kept[1] \in Tokens
    BY <1>6 DEF StashCount, TypeOK, Jobs, JobOK
  <2>2. count' \in [Slots -> 0 .. PendMax]
    BY <1>6, <2>1 DEF StashCount, TypeOK
  <2> QED
    BY <1>6, <2>1, <2>2, <1>0 DEF StashCount, Accept, TypeOK
<1>15. CASE StashFails
  <2>1. job.slot \in Slots /\ count[job.slot] < PendMax
    BY <1>15 DEF StashFails, TypeOK, Jobs, JobOK
  <2>2. count' \in [Slots -> 0 .. PendMax]
    <3>1. CASE UNCHANGED count
      BY <3>1 DEF TypeOK
    <3>2. CASE count' = [count EXCEPT ![job.slot] = @ + 1]
      BY <2>1, <3>2 DEF TypeOK
    <3> QED
      BY <1>15, <3>1, <3>2 DEF StashFails
  <2> QED
    BY <1>15, <2>2, <1>0 DEF StashFails, TypeOK
<1>16. CASE DrainOpenFails
  BY <1>16, <1>0 DEF DrainOpenFails, TypeOK
<1>7. ASSUME NEW s \in Slots, DrainStart(s) PROVE TypeOK' /\ JobOK'
  <2>1. job' = [NoJob EXCEPT !.op = "drain", !.slot = s, !.todo = Listed(s)]
    BY <1>7 DEF DrainStart
  <2>2. /\ job' \in Jobs /\ job'.op = "drain" /\ job'.slot = s /\ job'.at = 0
        /\ job'.todo = Listed(s) /\ job'.kept = <<>>
    <3>1. job' = [op |-> "drain", slot |-> s, todo |-> Listed(s),
                 kept |-> <<>>, at |-> 0]
      BY <2>1 DEF NoJob
    <3>2. Listed(s) \subseteq Places
      BY DEF Listed
    <3> QED
      BY <3>1, <3>2 DEF Jobs
  <2>3. TypeOK'
    BY <1>7, <2>2 DEF DrainStart, TypeOK
  <2>4. JobOK'
    BY <1>7, <2>2 DEF DrainStart, TypeOK, JobOK, Listed
  <2> QED
    BY <2>3, <2>4
<1>8. CASE DrainRedeem
  <2>1. PICK i \in Places :
            /\ Least(i, job.todo)
            /\ MintOf[item[job.slot][i]] = wallets[job.slot]
            /\ Credit(job.slot, item[job.slot][i])
            /\ job' = [job EXCEPT !.todo = @ \ {i}]
    BY <1>8 DEF DrainRedeem
  <2>2. job.op = "drain" /\ job.slot \in Slots /\ item[job.slot][i] \in Tokens
    BY <1>8, <2>1 DEF DrainRedeem, TypeOK, Jobs, JobOK, Listed, Least
  <2>3. /\ job' \in Jobs /\ job'.op = "drain" /\ job'.slot = job.slot /\ job'.at = job.at
        /\ job'.todo = job.todo \ {i} /\ job'.kept = job.kept
    BY <2>1, <2>2 DEF TypeOK, Jobs
  <2>4. MintOf[item[job.slot][i]] \in Mints
    BY <2>2
  <2>5. cash' \in [Slots -> SUBSET Mints]
    BY <2>1, <2>2, <2>4 DEF Credit, TypeOK
  <2>6. blob' \in [Slots -> SUBSET Mints]
    BY <2>1, <2>2, <2>5 DEF Credit, TypeOK
  <2>7. TypeOK'
    BY <1>8, <2>1, <2>2, <2>3, <2>5, <2>6 DEF DrainRedeem, Credit, TypeOK
  <2>8. JobOK'
    BY <1>8, <2>2, <2>3 DEF DrainRedeem, JobOK, Listed
  <2> QED
    BY <2>7, <2>8
<1>9. CASE DrainRetain
  <2>1. PICK i \in Places :
            /\ Least(i, job.todo)
            /\ job' = [job EXCEPT !.todo = @ \ {i},
                                 !.kept = Append(@, item[job.slot][i])]
    BY <1>9 DEF DrainRetain
  <2>2. /\ job.op = "drain" /\ job.slot \in Slots /\ item[job.slot][i] \in Tokens
        /\ i < count[job.slot] /\ Len(job.kept) <= i /\ Len(job.kept) \in Nat
    BY <1>9, <2>1 DEF DrainRetain, TypeOK, Jobs, JobOK, Listed, Least
  <2>3. /\ job' \in Jobs /\ job'.op = "drain" /\ job'.slot = job.slot /\ job'.at = job.at
        /\ job'.todo = job.todo \ {i}
        /\ job'.kept = Append(job.kept, item[job.slot][i])
    <3>1. job' = [op |-> job.op, slot |-> job.slot, todo |-> job.todo \ {i},
                 kept |-> Append(job.kept, item[job.slot][i]), at |-> job.at]
      BY <2>1 DEF TypeOK, Jobs
    <3>2. Append(job.kept, item[job.slot][i]) \in Seq(Tokens)
      BY <2>2 DEF TypeOK, Jobs
    <3> QED
      BY <2>2, <3>1, <3>2 DEF TypeOK, Jobs
  <2>4. Len(job'.kept) = Len(job.kept) + 1
    BY <2>2, <2>3 DEF TypeOK, Jobs
  <2>5. \A j \in job'.todo : i < j
    BY <2>1, <2>2, <2>3 DEF Least, TypeOK, Jobs, JobOK, Listed, Places
  <2>6. TypeOK'
    BY <1>9, <2>3 DEF DrainRetain, TypeOK
  <2>7. Len(job'.kept) <= count[job.slot] /\ \A j \in job'.todo : Len(job'.kept) <= j
    BY <2>2, <2>3, <2>4, <2>5 DEF TypeOK, JobOK, Listed, Places
  <2>8. JobOK'
    BY <1>9, <2>2, <2>3, <2>7 DEF DrainRetain, JobOK, Listed
  <2> QED
    BY <2>6, <2>8
<1>10. CASE DrainErase
  <2>1. /\ job.slot \in Slots /\ job.at \in Places
        /\ job.op \in {"drain", "rewrite"} /\ job.todo = {} /\ count' = count
    BY <1>10 DEF DrainErase, TypeOK, Jobs, JobOK
  <2>2. item' \in [Slots -> [Places -> Tokens \cup {NoToken}]]
    <3>1. CASE UNCHANGED item
      BY <3>1 DEF TypeOK
    <3>2. CASE item' = [item EXCEPT ![job.slot][job.at] = NoToken]
      BY <2>1, <3>2 DEF TypeOK
    <3> QED
      BY <1>10, <3>1, <3>2 DEF DrainErase
  <2>3. /\ job' \in Jobs /\ job'.slot = job.slot /\ job'.kept = job.kept
        /\ job'.todo = {}
        /\ \/ job'.op = "rewrite" /\ job'.at < PendMax
           \/ job'.op = "restore" /\ job'.at = 0
    <3>1. CASE job.at + 1 < PendMax
      <4>1. job' = [op |-> "rewrite", slot |-> job.slot, todo |-> job.todo,
                   kept |-> job.kept, at |-> job.at + 1]
        BY <1>10, <3>1 DEF DrainErase, TypeOK, Jobs
      <4> QED
        BY <2>1, <3>1, <4>1 DEF TypeOK, Jobs
    <3>2. CASE ~(job.at + 1 < PendMax)
      <4>1. job' = [op |-> "restore", slot |-> job.slot, todo |-> job.todo,
                   kept |-> job.kept, at |-> 0]
        BY <1>10, <3>2 DEF DrainErase, TypeOK, Jobs
      <4> QED
        BY <2>1, <4>1 DEF TypeOK, Jobs
    <3> QED
      BY <3>1, <3>2
  <2>4. TypeOK'
    BY <1>10, <2>2, <2>3 DEF DrainErase, TypeOK
  <2>5. JobOK'
    BY <2>1, <2>3 DEF TypeOK, Jobs, JobOK
  <2> QED
    BY <2>4, <2>5
<1>11. CASE DrainRestore
  <2>1. /\ job.slot \in Slots /\ job.at \in Places /\ job.at + 1 \in 1 .. Len(job.kept)
        /\ job.op = "restore" /\ job.todo = {} /\ count' = count
    BY <1>11 DEF DrainRestore, TypeOK, Jobs, JobOK
  <2>2. job.kept[job.at + 1] \in Tokens
    BY <2>1 DEF TypeOK, Jobs
  <2>3. /\ item' \in [Slots -> [Places -> Tokens \cup {NoToken}]]
        /\ dropped' \subseteq Tokens
        /\ cut' \subseteq {"erase", "rewrite"}
    <3> DEFINE t == job.kept[job.at + 1]
    <3> t \in Tokens
      BY <2>2
    <3> HIDE DEF t
    <3>1. CASE item' = [item EXCEPT ![job.slot][job.at] = t] /\ UNCHANGED <<dropped, cut>>
      BY <2>1, <3>1 DEF TypeOK
    <3>2. CASE dropped' = dropped \cup {t} /\ cut' = cut \cup {"rewrite"} /\ UNCHANGED item
      BY <3>2 DEF TypeOK
    <3> QED
      BY <1>11, <3>1, <3>2 DEF DrainRestore, t
  <2>4. /\ job' \in Jobs /\ job'.slot = job.slot /\ job'.kept = job.kept
        /\ job'.todo = {} /\ job'.op = "restore" /\ job'.at = job.at + 1
    <3>1. job' = [op |-> job.op, slot |-> job.slot, todo |-> job.todo,
                 kept |-> job.kept, at |-> job.at + 1]
      BY <1>11 DEF DrainRestore, TypeOK, Jobs
    <3> QED
      BY <2>1, <3>1 DEF TypeOK, Jobs
  <2>5. TypeOK'
    BY <1>11, <2>3, <2>4 DEF DrainRestore, TypeOK
  <2>6. JobOK'
    BY <2>1, <2>4 DEF TypeOK, Jobs, JobOK
  <2> QED
    BY <2>5, <2>6
<1>12. CASE DrainCount
  <2>1. job.slot \in Slots /\ Len(job.kept) \in 0 .. PendMax
    BY <1>12 DEF DrainCount, TypeOK, Jobs, JobOK
  <2>2. count' \in [Slots -> 0 .. PendMax] /\ cut' \subseteq {"erase", "rewrite"}
    <3>1. CASE count' = [count EXCEPT ![job.slot] = Len(job.kept)] /\ UNCHANGED cut
      BY <2>1, <3>1 DEF TypeOK
    <3>2. CASE cut' = cut \cup {"rewrite"} /\ UNCHANGED count
      BY <3>2 DEF TypeOK
    <3> QED
      BY <1>12, <3>1, <3>2 DEF DrainCount
  <2> QED
    BY <1>12, <2>2, <1>0 DEF DrainCount, TypeOK
<1>13. CASE WifiChanges
  BY <1>13 DEF WifiChanges, TypeOK, JobOK, Listed
<1>14. CASE PowerLoss
  <2>1. cash' \in [Slots -> SUBSET Mints]
    BY <1>14 DEF PowerLoss, Booted, TypeOK
  <2>2. cut' \subseteq {"erase", "rewrite"}
    BY <1>14 DEF PowerLoss, TypeOK
  <2>3. dropped' \subseteq Tokens
    BY <1>14 DEF PowerLoss, TypeOK, Jobs, Range
  <2> QED
    BY <1>14, <2>1, <2>2, <2>3, <1>0 DEF PowerLoss, TypeOK
<1> QED
  BY <1>1, <1>2, <1>3, <1>4, <1>5, <1>6, <1>7, <1>8, <1>9,
     <1>10, <1>11, <1>12, <1>13, <1>14, <1>15, <1>16
     DEF Next, Drain, Occupied

\* Slots, their urls and what they hold: a slot is emptied in flash and in RAM
\* before it can be used again, unless a power loss cuts the removal.
LEMMA PureStep ==
    ASSUME TypeOK, JobOK, UrlOK, "erase" \notin cut => FlashPure, Next
    PROVE  UrlOK' /\ ("erase" \notin cut' => FlashPure')
<1> USE PendingAssumption DEF ramVars, slotVars, queueVars, tokenVars
<1>1. ASSUME NEW m \in Mints, AddMint(m) PROVE UrlOK' /\ ("erase" \notin cut' => FlashPure')
  BY <1>1 DEF AddMint, Free, Least, Idle, NoJob, TypeOK, UrlOK, FlashPure
<1>2. ASSUME NEW t \in Tokens, ReceiveOnline(t) PROVE UrlOK' /\ ("erase" \notin cut' => FlashPure')
  BY <1>2 DEF ReceiveOnline, Credit, Find, TypeOK, UrlOK, FlashPure
<1>3. ASSUME NEW t \in Tokens, StashItem(t) PROVE UrlOK' /\ ("erase" \notin cut' => FlashPure')
  BY <1>3 DEF StashItem, Idle, NoJob, TypeOK, UrlOK, FlashPure
<1>4. ASSUME NEW S \in SUBSET Slots, BeginRemove(S) PROVE UrlOK' /\ ("erase" \notin cut' => FlashPure')
  BY <1>4 DEF BeginRemove, Idle, NoJob, TypeOK, UrlOK, FlashPure
<1>5. CASE FinishRemove
  <2>1. /\ job.op = "remove" /\ job.slot \in Slots /\ cut' = cut
        /\ blob' = [blob EXCEPT ![job.slot] = {}]
        /\ wallets' = [wallets EXCEPT ![job.slot] = NoMint]
        /\ cash' = [cash EXCEPT ![job.slot] = {}]
    BY <1>5 DEF FinishRemove, TypeOK, Jobs
  <2>2. "erase" \notin cut' => FlashPure'
    BY <2>1 DEF TypeOK, FlashPure
  <2>3. ASSUME job' = NoJob, url' = url PROVE UrlOK'
    <3>1. job'.op = "none"
      BY <2>3 DEF NoJob
    <3>2. ASSUME NEW s \in Slots PROVE url'[s] = wallets'[s]
      BY <2>1, <2>3 DEF TypeOK, UrlOK
    <3> QED
      BY <3>1, <3>2 DEF UrlOK
  <2>4. ASSUME NEW s \in Slots, job' = [job EXCEPT !.slot = s, !.todo = @ \ {s}],
               url' = [url EXCEPT ![s] = NoMint]
        PROVE  UrlOK'
    <3>1. job'.op = "remove" /\ job'.slot = s
      BY <2>1, <2>4 DEF TypeOK, Jobs
    <3> QED
      BY <2>1, <2>4, <3>1 DEF TypeOK, UrlOK
  <2> QED
    BY <1>5, <2>2, <2>3, <2>4 DEF FinishRemove
<1>6. CASE StashCount
  BY <1>6 DEF StashCount, Idle, NoJob, TypeOK, UrlOK, FlashPure
<1>15. CASE StashFails
  BY <1>15 DEF StashFails, NoJob, TypeOK, UrlOK, FlashPure
<1>16. CASE DrainOpenFails
  BY <1>16 DEF DrainOpenFails, NoJob, TypeOK, UrlOK, FlashPure
<1>7. ASSUME NEW s \in Slots, DrainStart(s) PROVE UrlOK' /\ ("erase" \notin cut' => FlashPure')
  BY <1>7 DEF DrainStart, Idle, NoJob, TypeOK, UrlOK, FlashPure
<1>8. CASE DrainRedeem
  BY <1>8 DEF DrainRedeem, Credit, Jobs, TypeOK, UrlOK, FlashPure
<1>9. CASE DrainRetain
  BY <1>9 DEF DrainRetain, Jobs, TypeOK, UrlOK, FlashPure
<1>10. CASE DrainErase
  BY <1>10 DEF DrainErase, Jobs, TypeOK, UrlOK, FlashPure
<1>11. CASE DrainRestore
  BY <1>11 DEF DrainRestore, Jobs, TypeOK, UrlOK, FlashPure
<1>12. CASE DrainCount
  <2>1. /\ job.op = "restore" /\ job'.op = "none"
        /\ UNCHANGED <<wallets, cash, url, blob>>
        /\ "erase" \in cut' <=> "erase" \in cut
    BY <1>12 DEF DrainCount, NoJob
  <2> QED
    BY <2>1 DEF UrlOK, FlashPure
<1>13. CASE WifiChanges
  BY <1>13 DEF WifiChanges, TypeOK, UrlOK, FlashPure
<1>14. CASE PowerLoss
  <2>1. /\ job'.op = "none" /\ wallets' = url /\ url' = url /\ blob' = blob
        /\ cash' = [s \in Slots |-> IF url[s] = NoMint THEN {} ELSE blob[s]]
    BY <1>14 DEF PowerLoss, NoJob, Booted
  <2>2. UrlOK'
    BY <2>1 DEF UrlOK
  <2>3. "erase" \notin cut' => "erase" \notin cut /\ job.op # "remove"
    BY <1>14 DEF PowerLoss, Rewriting
  <2> QED
    BY <2>1, <2>2, <2>3 DEF UrlOK, FlashPure
<1> QED
  BY <1>1, <1>2, <1>3, <1>4, <1>5, <1>6, <1>7, <1>8, <1>9,
     <1>10, <1>11, <1>12, <1>13, <1>14, <1>15, <1>16
     DEF Next, Drain, Occupied

\* The queues: what is written below a count is an item, and the rewrite puts back
\* what the drain retained.
LEMMA QueueStep ==
    ASSUME TypeOK, JobOK, "rewrite" \notin cut => QueueOK, Next
    PROVE  "rewrite" \notin cut' => QueueOK'
<1> USE PendingAssumption DEF Places, ramVars, slotVars, queueVars, tokenVars
<1>0. ASSUME UNCHANGED <<count, item>>, cut \subseteq cut',
             job.op \notin {"rewrite", "restore"}, job'.op \notin {"rewrite", "restore"}
      PROVE  "rewrite" \notin cut' => QueueOK'
  BY <1>0 DEF QueueOK, InRewrite, Rewriting
<1>1. ASSUME NEW m \in Mints, AddMint(m) PROVE "rewrite" \notin cut' => QueueOK'
  BY <1>0, <1>1 DEF AddMint, Idle, NoJob
<1>2. ASSUME NEW t \in Tokens, ReceiveOnline(t) PROVE "rewrite" \notin cut' => QueueOK'
  BY <1>0, <1>2 DEF ReceiveOnline, Credit, Idle, NoJob
<1>3. ASSUME NEW t \in Tokens, StashItem(t) PROVE "rewrite" \notin cut' => QueueOK'
  BY <1>3 DEF StashItem, Idle, NoJob, TypeOK, JobOK, QueueOK, InRewrite, Rewriting
<1>4. ASSUME NEW S \in SUBSET Slots, BeginRemove(S) PROVE "rewrite" \notin cut' => QueueOK'
  BY <1>0, <1>4 DEF BeginRemove, Idle, NoJob
<1>5. CASE FinishRemove
  <2>1. /\ job.op = "remove" /\ job'.op \in {"none", "remove"}
        /\ UNCHANGED <<count, item, cut>>
    <3>1. ASSUME job' = NoJob PROVE job'.op = "none"
      BY <3>1 DEF NoJob
    <3>2. ASSUME NEW s \in Slots, job' = [job EXCEPT !.slot = s, !.todo = @ \ {s}]
          PROVE  job'.op = job.op
      BY <3>2 DEF TypeOK, Jobs
    <3> QED
      BY <1>5, <3>1, <3>2 DEF FinishRemove
  <2> QED
    BY <1>0, <2>1
<1>6. ASSUME StashCount \/ StashFails PROVE "rewrite" \notin cut' => QueueOK'
  <2>1. /\ job.op = "stash" /\ job'.op = "none" /\ UNCHANGED <<item, cut>>
        /\ count' = count \/ count' = [count EXCEPT ![job.slot] = @ + 1]
    BY <1>6 DEF StashCount, StashFails, NoJob
  <2>2. /\ job.slot \in Slots /\ count[job.slot] \in Places
        /\ item[job.slot][count[job.slot]] \in Tokens
    BY <2>1 DEF TypeOK, Jobs, JobOK
  <2>3. CASE count' = count
    BY <1>0, <2>1, <2>3
  <2>4. CASE count' = [count EXCEPT ![job.slot] = @ + 1]
    BY <2>1, <2>2, <2>4 DEF TypeOK, QueueOK, InRewrite, Rewriting
  <2> QED
    BY <2>1, <2>3, <2>4
<1>7. ASSUME NEW s \in Slots, DrainStart(s) PROVE "rewrite" \notin cut' => QueueOK'
  BY <1>0, <1>7 DEF DrainStart, Idle, NoJob
<1>8. CASE DrainRedeem
  BY <1>0, <1>8 DEF DrainRedeem, Credit, Jobs, TypeOK
<1>9. CASE DrainRetain
  BY <1>0, <1>9 DEF DrainRetain, Jobs, TypeOK
<1>16. CASE DrainOpenFails
  BY <1>0, <1>16 DEF DrainOpenFails, NoJob
<1>10. CASE DrainErase
  <2>1. /\ job.slot \in Slots /\ job.at \in Places
        /\ job.op \in {"drain", "rewrite"}
        /\ item' = [item EXCEPT ![job.slot][job.at] = NoToken] \/ item' = item
        /\ UNCHANGED <<count, cut>>
    BY <1>10 DEF DrainErase, TypeOK, Jobs, JobOK
  <2>2. /\ job'.slot = job.slot
        /\ job'.op \in {"rewrite", "restore"}
        /\ job'.op = "restore" => job'.at = 0
    <3>1. CASE job.at + 1 < PendMax
      BY <1>10, <2>1, <3>1 DEF DrainErase, TypeOK, Jobs
    <3>2. CASE ~(job.at + 1 < PendMax)
      BY <1>10, <2>1, <3>2 DEF DrainErase, TypeOK, Jobs
    <3> QED
      BY <3>1, <3>2
  <2>3. \A s \in Slots : s # job.slot => item'[s] = item[s]
    BY <2>1 DEF TypeOK
  <2> QED
    BY <2>1, <2>2, <2>3 DEF QueueOK, InRewrite, Rewriting
<1>11. CASE DrainRestore
  <2>1. /\ job.slot \in Slots /\ job.at \in Places /\ job.op = "restore"
        /\ UNCHANGED count
        /\ \/ "rewrite" \in cut'
           \/ /\ item' = [item EXCEPT ![job.slot][job.at] = job.kept[job.at + 1]]
              /\ cut' = cut
    BY <1>11 DEF DrainRestore, TypeOK, Jobs, JobOK
  <2>2. /\ job'.op = "restore" /\ job'.slot = job.slot /\ job'.kept = job.kept
        /\ job'.at = job.at + 1
    BY <1>11 DEF DrainRestore, TypeOK, Jobs
  <2>3. ASSUME "rewrite" \notin cut' PROVE QueueOK'
    <3>1. /\ QueueOK
          /\ \A s \in Slots : s # job.slot => item'[s] = item[s]
          /\ \A i \in Places : item'[job.slot][i] =
                IF i = job.at THEN job.kept[job.at + 1] ELSE item[job.slot][i]
      BY <2>1, <2>3 DEF TypeOK
    <3>2. ASSUME NEW s \in Slots, ~InRewrite(s)', NEW i \in Places, i < count[s]
          PROVE  item'[s][i] # NoToken
      BY <2>1, <2>2, <3>1, <3>2 DEF QueueOK, InRewrite, Rewriting
    <3>3. ASSUME NEW i \in Places, i < job'.at
          PROVE  item'[job.slot][i] = job.kept[i + 1]
      BY <2>1, <2>2, <3>1, <3>3 DEF QueueOK
    <3> QED
      BY <2>1, <2>2, <3>2, <3>3 DEF QueueOK
  <2> QED
    BY <2>3
<1>12. CASE DrainCount
  <2>1. /\ job.slot \in Slots /\ job.op = "restore" /\ job'.op = "none"
        /\ job.at = Len(job.kept) /\ job.kept \in Seq(Tokens)
        /\ UNCHANGED item
        /\ \/ "rewrite" \in cut'
           \/ count' = [count EXCEPT ![job.slot] = Len(job.kept)] /\ cut' = cut
    BY <1>12 DEF DrainCount, NoJob, TypeOK, Jobs
  <2>2. \A i \in Places : i < Len(job.kept) => job.kept[i + 1] \in Tokens
    BY <2>1
  <2>3. ASSUME "rewrite" \notin cut', NEW s \in Slots, NEW i \in Places, i < count'[s]
        PROVE  item[s][i] # NoToken
    <3>1. CASE s = job.slot
      BY <2>1, <2>2, <2>3, <3>1 DEF TypeOK, QueueOK
    <3>2. CASE s # job.slot
      BY <2>1, <2>3, <3>2 DEF TypeOK, QueueOK, InRewrite
    <3> QED
      BY <3>1, <3>2
  <2> QED
    BY <2>1, <2>3 DEF QueueOK
<1>13. CASE WifiChanges
  BY <1>13 DEF WifiChanges, QueueOK, InRewrite, Rewriting
<1>14. CASE PowerLoss
  BY <1>14 DEF PowerLoss, NoJob, QueueOK, InRewrite, Rewriting
<1> QED
  BY <1>1, <1>2, <1>3, <1>4, <1>5, <1>6, <1>7, <1>8, <1>9,
     <1>10, <1>11, <1>12, <1>13, <1>14, <1>16
     DEF Next, Drain, Occupied

\* What a drain and its rewrite know of the queue they work on, also when an erasure
\* or a write fails: a place keeps what was there, which is retained or redeemed.
LEMMA RewriteStep ==
    ASSUME TypeOK, JobOK, RewriteOK, Next
    PROVE  RewriteOK'
<1> USE PendingAssumption DEF Places, ramVars, slotVars, queueVars, tokenVars
<1>0. ASSUME job'.op \notin {"drain", "rewrite", "restore"}
      PROVE  RewriteOK'
  BY <1>0 DEF RewriteOK
<1>1. ASSUME NEW m \in Mints, AddMint(m) PROVE RewriteOK'
  BY <1>0, <1>1 DEF AddMint, Idle, NoJob
<1>2. ASSUME NEW t \in Tokens, ReceiveOnline(t) PROVE RewriteOK'
  BY <1>0, <1>2 DEF ReceiveOnline, Credit, Idle, NoJob
<1>3. ASSUME NEW t \in Tokens, StashItem(t) PROVE RewriteOK'
  BY <1>0, <1>3 DEF StashItem, NoJob
<1>4. ASSUME NEW S \in SUBSET Slots, BeginRemove(S) PROVE RewriteOK'
  BY <1>0, <1>4 DEF BeginRemove, NoJob
<1>5. CASE FinishRemove
  <2>1. ASSUME NEW s \in Slots, job' = [job EXCEPT !.slot = s, !.todo = @ \ {s}]
        PROVE  job'.op = job.op
    BY <2>1 DEF TypeOK, Jobs
  <2>2. job' = NoJob => job'.op = "none"
    BY DEF NoJob
  <2> QED
    BY <1>0, <1>5, <2>1, <2>2 DEF FinishRemove
<1>6. ASSUME StashCount \/ StashFails \/ DrainOpenFails \/ DrainCount \/ PowerLoss
      PROVE  RewriteOK'
  BY <1>0, <1>6 DEF StashCount, StashFails, DrainOpenFails, DrainCount, PowerLoss, NoJob
<1>7. ASSUME NEW s \in Slots, DrainStart(s) PROVE RewriteOK'
  BY <1>7 DEF DrainStart, NoJob, RewriteOK, Listed
<1>8. CASE DrainRedeem
  BY <1>8 DEF DrainRedeem, Credit, Jobs, Least, TypeOK, JobOK, RewriteOK, Listed
<1>9. CASE DrainRetain
  <2>1. PICK i \in Places :
            /\ Least(i, job.todo)
            /\ job' = [job EXCEPT !.todo = @ \ {i},
                                 !.kept = Append(@, item[job.slot][i])]
    BY <1>9 DEF DrainRetain
  <2>2. /\ job.op = "drain" /\ job.kept \in Seq(Tokens) /\ item[job.slot][i] \in Tokens
        /\ UNCHANGED <<count, item, redeemed>>
    BY <1>9, <2>1 DEF DrainRetain, TypeOK, Jobs, JobOK, Listed, Least
  <2>3. /\ job'.op = "drain" /\ job'.slot = job.slot /\ job'.todo = job.todo \ {i}
        /\ job'.kept = Append(job.kept, item[job.slot][i])
    BY <2>1, <2>2 DEF TypeOK, Jobs
  <2>4. /\ Len(job'.kept) = Len(job.kept) + 1 /\ Len(job.kept) \in Nat
        /\ job'.kept[Len(job.kept) + 1] = item[job.slot][i]
        /\ \A k \in 1 .. Len(job.kept) : job'.kept[k] = job.kept[k]
    BY <2>2, <2>3
  <2>5. ASSUME NEW j \in Listed(job.slot)
        PROVE  \/ j \in job'.todo
               \/ item[job.slot][j] \in redeemed
               \/ \E k \in 1 .. Len(job'.kept) : job'.kept[k] = item[job.slot][j]
    <3>1. CASE j = i
      BY <2>4, <3>1
    <3>2. CASE j # i
      BY <2>2, <2>3, <2>4, <2>5, <3>2 DEF RewriteOK
    <3> QED
      BY <3>1, <3>2
  <2> QED
    BY <2>2, <2>3, <2>5 DEF RewriteOK, Listed
<1>10. CASE DrainErase
  <2>1. /\ job.slot \in Slots /\ job.at \in Places /\ job.todo = {}
        /\ job.op \in {"drain", "rewrite"}
        /\ item' = [item EXCEPT ![job.slot][job.at] = NoToken] \/ item' = item
        /\ UNCHANGED <<count, redeemed>>
    BY <1>10 DEF DrainErase, TypeOK, Jobs, JobOK
  <2>2. /\ job'.slot = job.slot /\ job'.kept = job.kept /\ job'.todo = {}
        /\ job'.op = "restore" => job'.at = 0
    <3>1. CASE job.at + 1 < PendMax
      BY <1>10, <2>1, <3>1 DEF DrainErase, TypeOK, Jobs
    <3>2. CASE ~(job.at + 1 < PendMax)
      BY <1>10, <2>1, <3>2 DEF DrainErase, TypeOK, Jobs
    <3> QED
      BY <3>1, <3>2
  <2>3. ASSUME NEW i \in Listed(job.slot)'
        PROVE  i \in Listed(job.slot) /\ item'[job.slot][i] = item[job.slot][i]
    <3>1. CASE item' = item
      BY <2>1, <2>2, <2>3, <3>1 DEF Listed
    <3>2. CASE item' = [item EXCEPT ![job.slot][job.at] = NoToken]
      BY <2>1, <2>2, <2>3, <3>2 DEF Listed, TypeOK
    <3> QED
      BY <2>1, <3>1, <3>2
  <2> QED
    BY <2>1, <2>2, <2>3 DEF RewriteOK
<1>11. CASE DrainRestore
  <2>1. /\ job.slot \in Slots /\ job.at \in Places /\ job.op = "restore"
        /\ job.todo = {} /\ UNCHANGED <<count, redeemed>>
        /\ job.at + 1 \in 1 .. Len(job.kept)
        /\ dropped \subseteq dropped'
        /\ \/ item' = [item EXCEPT ![job.slot][job.at] = job.kept[job.at + 1]]
           \/ item' = item /\ job.kept[job.at + 1] \in dropped'
    BY <1>11 DEF DrainRestore, TypeOK, Jobs, JobOK
  <2>2. /\ job'.op = "restore" /\ job'.slot = job.slot /\ job'.kept = job.kept
        /\ job'.at = job.at + 1
    BY <1>11 DEF DrainRestore, TypeOK, Jobs
  <2>3. \A i \in Places :
            \/ item'[job.slot][i] = item[job.slot][i]
            \/ i = job.at /\ item'[job.slot][i] = job.kept[job.at + 1]
    <3>1. CASE item' = item
      BY <3>1
    <3>2. CASE item' = [item EXCEPT ![job.slot][job.at] = job.kept[job.at + 1]]
      BY <2>1, <3>2 DEF TypeOK
    <3> QED
      BY <2>1, <3>1, <3>2
  <2>4. item'[job.slot][job.at] = job.kept[job.at + 1] \/ job.kept[job.at + 1] \in dropped'
    BY <2>1 DEF TypeOK
  <2>5. ASSUME NEW i \in Places, i < job'.at
        PROVE  item'[job.slot][i] = job.kept[i + 1] \/ job.kept[i + 1] \in dropped'
    <3>1. CASE i = job.at
      BY <2>4, <3>1
    <3>2. CASE i # job.at
      BY <2>1, <2>2, <2>3, <2>5, <3>2 DEF RewriteOK
    <3> QED
      BY <3>1, <3>2
  <2>6. ASSUME NEW i \in Places, i < count[job.slot], item'[job.slot][i] # NoToken
        PROVE  \/ item'[job.slot][i] \in redeemed
               \/ \E k \in 1 .. Len(job.kept) : job.kept[k] = item'[job.slot][i]
    BY <2>1, <2>3, <2>6 DEF RewriteOK, Listed
  <2> QED
    BY <2>1, <2>2, <2>5, <2>6 DEF RewriteOK, Listed
<1>13. CASE WifiChanges
  BY <1>13 DEF WifiChanges, RewriteOK, Listed
<1> QED
  BY <1>1, <1>2, <1>3, <1>4, <1>5, <1>6, <1>7, <1>8, <1>9, <1>10, <1>11, <1>13
     DEF Next, Drain, Occupied

\* The tokens whose payers were told: a stash shows its item by raising the count
\* before it tells, and a rewrite erases only what it holds in RAM or has swapped.
LEMMA KeptStep ==
    ASSUME TypeOK, JobOK, RewriteOK, StashedKept, Next
    PROVE  StashedKept'
<1> USE PendingAssumption DEF Places, ramVars, slotVars, queueVars, tokenVars
<1>0. ASSUME UNCHANGED <<count, item, dropped>>, accepted' = accepted,
             redeemed \subseteq redeemed', ~Rewriting \/ job' = job
      PROVE  StashedKept'
  <2>1. ASSUME NEW r \in Slots, NEW t, Waiting(r, t) PROVE Waiting(r, t)'
    BY <1>0, <2>1 DEF Waiting, Listed, Rewriting
  <2> QED
    BY <1>0, <2>1 DEF StashedKept
<1> USE DEF Rewriting
<1>01. ASSUME job.kept \in Seq(Tokens), NEW t
       PROVE  t \in Range(job.kept) <=> \E k \in 1 .. Len(job.kept) : job.kept[k] = t
  BY <1>01 DEF Range
<1>02. job.kept \in Seq(Tokens)
  BY DEF TypeOK, Jobs
<1>1. ASSUME NEW m \in Mints, AddMint(m) PROVE StashedKept'
  BY <1>0, <1>1 DEF AddMint
<1>2. ASSUME NEW t \in Tokens, ReceiveOnline(t) PROVE StashedKept'
  BY <1>0, <1>2 DEF ReceiveOnline, Credit
<1>3. ASSUME NEW t \in Tokens, StashItem(t) PROVE StashedKept'
  <2>1. PICK s \in Slots : /\ count[s] < PendMax
                          /\ item' = [item EXCEPT ![s][count[s]] = t]
    BY <1>3 DEF StashItem, Find
  <2>2. /\ job.op = "none"
        /\ UNCHANGED <<count, accepted, redeemed, dropped>>
    BY <1>3 DEF StashItem, Idle, NoJob
  <2>3. \A r \in Slots : \A i \in Listed(r) :
            i \in Listed(r)' /\ item'[r][i] = item[r][i]
    BY <2>1, <2>2 DEF Listed, TypeOK
  <2> QED
    BY <2>2, <2>3 DEF StashedKept, Waiting
<1>4. ASSUME NEW S \in SUBSET Slots, BeginRemove(S) PROVE StashedKept'
  BY <1>0, <1>4 DEF BeginRemove, Idle, NoJob
<1>5. CASE FinishRemove
  BY <1>0, <1>5 DEF FinishRemove
<1>6. CASE StashCount
  <2>1. /\ job.op = "stash" /\ job.slot \in Slots
        /\ count[job.slot] \in Places
        /\ item[job.slot][count[job.slot]] = job.kept[1] /\ job.kept[1] \in Tokens
        /\ count' = [count EXCEPT ![job.slot] = @ + 1]
        /\ accepted' = accepted \cup {job.kept[1]}
        /\ dropped' = dropped \ {job.kept[1]}
        /\ UNCHANGED <<item, redeemed>>
    BY <1>6 DEF StashCount, Accept, TypeOK, Jobs, JobOK
  <2>2. \A r \in Slots : Listed(r) \subseteq Listed(r)'
    BY <2>1 DEF Listed, TypeOK
  <2>3. \A r \in Slots : r = job.slot => count[r] \in Listed(r)'
    BY <2>1 DEF Listed, TypeOK
  <2>4. \A r \in Slots : \A t :
            r = job.slot /\ t = job.kept[1] => Waiting(r, t)'
    BY <2>1, <2>3 DEF Waiting
  <2>5. \A r \in Slots : \A t : Waiting(r, t) => Waiting(r, t)'
    BY <2>1, <2>2 DEF Waiting
  <2> QED
    BY <2>1, <2>4, <2>5 DEF StashedKept
<1>15. CASE StashFails
  <2>1. /\ job.op = "stash" /\ job.slot \in Slots
        /\ count' = count \/ count' = [count EXCEPT ![job.slot] = @ + 1]
        /\ UNCHANGED <<item, accepted, redeemed, dropped>>
    BY <1>15 DEF StashFails, TypeOK, Jobs
  <2>2. \A r \in Slots : Listed(r) \subseteq Listed(r)'
    <3>1. CASE count' = count
      BY <2>1, <3>1 DEF Listed
    <3>2. CASE count' = [count EXCEPT ![job.slot] = @ + 1]
      BY <2>1, <3>2 DEF Listed, TypeOK
    <3> QED
      BY <2>1, <3>1, <3>2
  <2>3. \A r \in Slots : \A t : Waiting(r, t) => Waiting(r, t)'
    BY <2>1, <2>2 DEF Waiting
  <2> QED
    BY <2>1, <2>3 DEF StashedKept
<1>16. CASE DrainOpenFails
  BY <1>0, <1>16 DEF DrainOpenFails
<1>7. ASSUME NEW s \in Slots, DrainStart(s) PROVE StashedKept'
  BY <1>0, <1>7 DEF DrainStart, Idle, NoJob
<1>8. CASE DrainRedeem
  BY <1>0, <1>8 DEF DrainRedeem, Credit
<1>9. CASE DrainRetain
  BY <1>0, <1>9 DEF DrainRetain
<1>10. CASE DrainErase
  <2>1. /\ job.slot \in Slots /\ job.at \in Places /\ job.todo = {}
        /\ job.op \in {"drain", "rewrite"}
        /\ item' = [item EXCEPT ![job.slot][job.at] = NoToken] \/ item' = item
        /\ UNCHANGED <<count, accepted, redeemed, dropped>>
    BY <1>10 DEF DrainErase, TypeOK, Jobs, JobOK
  <2>2. /\ job'.slot = job.slot /\ job'.kept = job.kept
        /\ job'.op \in {"rewrite", "restore"}
    BY <1>10 DEF DrainErase, TypeOK, Jobs
  <2>3. \A r \in Slots : r # job.slot => Listed(r)' = Listed(r) /\ item'[r] = item[r]
    BY <2>1 DEF Listed, TypeOK
  <2>4. ASSUME NEW t \in accepted \ (redeemed \cup dropped), NEW r \in Slots, Waiting(r, t)
        PROVE  Waiting(r, t)'
    <3>1. CASE r # job.slot
      BY <2>1, <2>3, <2>4, <3>1 DEF Waiting
    <3>2. CASE r = job.slot
      <4>1. t \in Range(job.kept)
        BY <1>01, <1>02, <2>1, <2>4, <3>2 DEF Waiting, RewriteOK
      <4> QED
        BY <2>2, <3>2, <4>1 DEF Waiting
    <3> QED
      BY <3>1, <3>2
  <2> QED
    BY <2>1, <2>4 DEF StashedKept
<1>11. CASE DrainRestore
  <2>1. /\ job.slot \in Slots /\ job.op = "restore"
        /\ \A r \in Slots : r # job.slot => item'[r] = item[r]
        /\ dropped \subseteq dropped'
        /\ UNCHANGED <<count, accepted, redeemed>>
    BY <1>11 DEF DrainRestore, TypeOK, Jobs
  <2>2. job'.slot = job.slot /\ job'.kept = job.kept /\ job'.op = "restore"
    BY <1>11 DEF DrainRestore, TypeOK, Jobs
  <2>3. job.todo = {}
    BY <2>1 DEF JobOK
  <2>4. ASSUME NEW t \in accepted \ (redeemed \cup dropped), NEW r \in Slots, Waiting(r, t)
        PROVE  Waiting(r, t)'
    <3>1. CASE r # job.slot
      BY <2>1, <2>4, <3>1 DEF Waiting, Listed
    <3>2. CASE r = job.slot
      <4>1. t \in Range(job.kept)
        BY <1>01, <1>02, <2>1, <2>3, <2>4, <3>2 DEF Waiting, RewriteOK
      <4> QED
        BY <2>2, <3>2, <4>1 DEF Waiting
    <3> QED
      BY <3>1, <3>2
  <2> QED
    BY <2>1, <2>4 DEF StashedKept
<1>12. CASE DrainCount
  <2>1. /\ job.slot \in Slots /\ job.op = "restore" /\ job.todo = {}
        /\ job.at = Len(job.kept)
        /\ Len(job.kept) <= count[job.slot] /\ count[job.slot] \in 0 .. PendMax
        /\ \/ count' = count
           \/ count' = [count EXCEPT ![job.slot] = Len(job.kept)]
        /\ UNCHANGED <<item, accepted, redeemed, dropped>>
    BY <1>12 DEF DrainCount, TypeOK, Jobs, JobOK
  <2>2. \A r \in Slots : r # job.slot => Listed(r)' = Listed(r)
    BY <2>1 DEF Listed, TypeOK
  <2>3. Len(job.kept) <= count'[job.slot]
    BY <2>1, <1>02 DEF TypeOK
  <2>4. ASSUME NEW t \in accepted \ (redeemed \cup dropped), NEW r \in Slots, Waiting(r, t)
        PROVE  Waiting(r, t)'
    <3>1. CASE r # job.slot
      BY <2>1, <2>2, <2>4, <3>1 DEF Waiting
    <3>2. CASE r = job.slot
      <4>1. PICK k \in 1 .. Len(job.kept) : job.kept[k] = t
        BY <1>01, <1>02, <2>1, <2>4, <3>2 DEF Waiting, RewriteOK
      <4>2. k - 1 \in Places /\ k - 1 < Len(job.kept) /\ (k - 1) + 1 = k
        BY <2>1, <1>02
      <4>3. item[job.slot][k - 1] = t /\ t # NoToken
        BY <2>1, <2>4, <4>1, <4>2, <1>02 DEF RewriteOK
      <4>4. k - 1 \in Listed(r)'
        BY <2>1, <2>3, <3>2, <4>2, <4>3, <1>02 DEF Listed, TypeOK
      <4> QED
        BY <2>1, <3>2, <4>3, <4>4 DEF Waiting
    <3> QED
      BY <3>1, <3>2
  <2> QED
    BY <2>1, <2>4 DEF StashedKept
<1>13. CASE WifiChanges
  BY <1>0, <1>13 DEF WifiChanges
<1>14. CASE PowerLoss
  <2>1. /\ UNCHANGED <<count, item, accepted, redeemed>>
        /\ dropped \subseteq dropped'
        /\ Rewriting => Range(job.kept) \subseteq dropped'
    BY <1>14 DEF PowerLoss
  <2> QED
    BY <2>1 DEF StashedKept, Waiting, Listed
<1> QED
  BY <1>1, <1>2, <1>3, <1>4, <1>5, <1>6, <1>7, <1>8, <1>9,
     <1>10, <1>11, <1>12, <1>13, <1>14, <1>15, <1>16
     DEF Next, Drain, Occupied
-------------------------------------------------------------------------------
(* The invariant *)

LEMMA PendingInvInit == Init => PendingInv
<1> SUFFICES ASSUME Init PROVE PendingInv
  OBVIOUS
<1> USE PendingAssumption
<1>1. NoJob \in Jobs
  BY DEF NoJob, Jobs, Slots
<1>2. TypeOK
  <2>1. count \in [Slots -> 0 .. PendMax] /\ stashes \in 0 .. MaxStash
    BY DEF Init
  <2>2. item \in [Slots -> [Places -> Tokens \cup {NoToken}]]
    BY DEF Init
  <2>3. /\ wallets \in [Slots -> Mints \cup {NoMint}]
        /\ url \in [Slots -> Mints \cup {NoMint}]
        /\ cash \in [Slots -> SUBSET Mints]
        /\ blob \in [Slots -> SUBSET Mints]
    BY DEF Init
  <2> QED
    BY <1>1, <2>1, <2>2, <2>3 DEF Init, TypeOK
<1>3. job.op = "none"
  BY DEF Init, NoJob
<1>4. JobOK
  BY <1>3 DEF Init, JobOK
<1>5. QueueOK /\ RewriteOK /\ UrlOK /\ FlashPure
  BY <1>3 DEF Init, QueueOK, RewriteOK, UrlOK, FlashPure, Places
<1>6. StashedKept
  BY DEF Init, StashedKept
<1> QED
  BY <1>2, <1>4, <1>5, <1>6 DEF PendingInv

LEMMA PendingInvNext == PendingInv /\ [Next]_vars => PendingInv'
<1>1. ASSUME PendingInv, Next PROVE PendingInv'
  BY <1>1, TypedStep, PureStep, QueueStep, RewriteStep, KeptStep DEF PendingInv
<1>2. ASSUME PendingInv, UNCHANGED vars PROVE PendingInv'
  <2> USE <1>2 DEF vars, ramVars, slotVars, queueVars, tokenVars
  <2>1. TypeOK' /\ JobOK'
    BY DEF PendingInv, TypeOK, JobOK, Listed
  <2>2. StashedKept'
    BY DEF PendingInv, StashedKept, Waiting, Rewriting, Listed
  <2>3. ("rewrite" \notin cut' => QueueOK') /\ RewriteOK'
    BY DEF PendingInv, QueueOK, RewriteOK, InRewrite, Rewriting, Listed
  <2>4. UrlOK' /\ ("erase" \notin cut' => FlashPure')
    BY DEF PendingInv, UrlOK, FlashPure
  <2> QED
    BY <2>1, <2>2, <2>3, <2>4 DEF PendingInv
<1> QED
  BY <1>1, <1>2

LEMMA PendingInvAlways == Spec => []PendingInv
BY PendingInvInit, PendingInvNext, PTL DEF Spec
-------------------------------------------------------------------------------
(* What every behaviour keeps *)

\* Slots, queues and the operation that holds the store mutex stay well formed: no
\* legal order of stashes, drains, removals and power losses indexes a place or a
\* slot that does not exist, or raises a count past PEND_MAX.
THEOREM QueuesTyped == Spec => []TypeOK
<1>1. PendingInv => TypeOK
  BY DEF PendingInv
<1> QED
  BY <1>1, PendingInvAlways, PTL

\* nfc_redeem_or_stash and drain_pending_tokens: a payer who was told "accepted
\* offline" is never let down.  The token is redeemed by this device or still in
\* flash (or in the RAM of the running rewrite), whatever mints are removed, drains
\* and flash writes fail and restarts happen, unless a rewrite that had it in RAM
\* alone lost power or failed to write this very token back.
THEOREM AcceptedNotLost == Spec => []StashedKept
<1>1. PendingInv => StashedKept
  BY DEF PendingInv
<1> QED
  BY <1>1, PendingInvAlways, PTL

\* wallet_store_remove and wallet_store_init: a slot used again never shows the
\* proofs of the mint that had it before, unless a power loss cut erase_nvs.
THEOREM SlotsPure == Spec => []WalletPure
<1>1. PendingInv => WalletPure
  BY DEF PendingInv, FlashPure, WalletPure
<1> QED
  BY <1>1, PendingInvAlways, PTL

\* stash_pending_token and drain_pending_tokens: between operations every place
\* below pendn_<slot> can be read, so a full queue is one a drain can empty, unless
\* a rewrite lost power or failed to write a token or the count.
THEOREM QueuesDense == Spec => []QueueDense
<1>1. PendingInv => QueueDense
  <2> SUFFICES ASSUME PendingInv, "rewrite" \notin cut, Idle, NEW s \in Slots
               PROVE  Listed(s) = 0 .. (count[s] - 1)
    BY DEF QueueDense
  <2>1. ~InRewrite(s)
    BY DEF Idle, NoJob, InRewrite, Rewriting
  <2>2. \A i \in Places : i < count[s] => item[s][i] # NoToken
    BY <2>1 DEF PendingInv, QueueOK
  <2>3. count[s] \in 0 .. PendMax
    BY DEF PendingInv, TypeOK
  <2> QED
    BY <2>2, <2>3, PendingAssumption DEF Listed, Places
<1> QED
  BY <1>1, PendingInvAlways, PTL
===============================================================================

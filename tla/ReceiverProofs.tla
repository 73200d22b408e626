--------------------------- MODULE ReceiverProofs ---------------------------
(* Proofs about Receiver, for any ids, any configurations and any number of *)
(* requests.                                                                *)
EXTENDS Receiver, TLAPS

(* A handler is idle or has a request, and which of the two shows in at.    *)
LEMMA HandlerType ==
  ASSUME TypeOK
  PROVE  /\ handler = Idle <=> handler.at = "idle"
         /\ handler # Idle => handler \in Request
         /\ config \in Config
  BY ReceiverAssumption DEF TypeOK, Idle, Request, ReceiverAssumption

LEMMA RequestIsNotIdle == \A req \in Request : req # Idle /\ req.at # "idle"
  BY DEF Request, Idle

LEMMA ConfigType ==
  ASSUME NEW c \in Configs
  PROVE  c.targets \in SUBSET Targets /\ c.targets # {} /\ c.dryRun \in BOOLEAN
  BY ReceiverAssumption DEF ReceiverAssumption, Config

LEMMA InitHolds == Init => IInv
  <1> SUFFICES ASSUME Init PROVE IInv
    OBVIOUS
  <1>1. TypeOK
    BY DEF Init, TypeOK, NoneHanded, NoAnswer, Idle, Statuses
  <1>2. handler.at = "idle"
    BY DEF Init, Idle
  <1>3. Progress /\ AnswersAreHonest
    BY <1>2 DEF Progress, AnswersAreHonest, Init, Idle
  <1>4. IdsAreSpent /\ HandedOncePerWindow
    BY <1>2 DEF IdsAreSpent, HandedOncePerWindow, Init, NoneHanded
  <1>5. SlotInHand /\ SlotMatchesAnswer /\ OptionsFollowFutures
    BY DEF SlotInHand, SlotMatchesAnswer, OptionsFollowFutures, Init, NoAnswer,
           Successes
  <1> QED BY <1>1, <1>3, <1>4, <1>5 DEF IInv

-----------------------------------------------------------------------------
(* A request is read; that of a signal takes its slot.                      *)
LEMMA ReadStep ==
  ASSUME IInv, NEW dir \in Directions \cup {"none"}, NEW id \in Ids \cup {Fresh},
         NEW action \in Actions, Read(dir, id, action),
         taken' = taken \cup ({dir} \cap Directions),
         dir \notin taken
  PROVE  IInv'
  <1>0. TypeOK /\ handler = Idle /\ handler.at = "idle"
    BY HandlerType DEF IInv, Read
  <1>1. /\ UNCHANGED <<config, recent, cooling, handed, answer>>
        /\ requests' = requests + 1
    BY DEF Read, history
  <1>2. /\ handler' \in Request /\ handler' # Idle
        /\ handler'.at = "gates" /\ handler'.dir = dir /\ handler'.status = "none"
        /\ handler'.returned = {} /\ handler'.failed = {} /\ handler'.reached = {}
        /\ handler'.posted = FALSE /\ handler'.kept = TRUE
    BY DEF Read, Request, Idle
  <1>3. TypeOK'
    BY <1>0, <1>1, <1>2 DEF TypeOK
  <1>4. Progress' /\ AnswersAreHonest'
    BY <1>2 DEF Progress, AnswersAreHonest
  <1>5. IdsAreSpent' /\ HandedOncePerWindow'
    BY <1>1, <1>2 DEF IInv, IdsAreSpent, HandedOncePerWindow
  <1>6. SlotInHand'
    BY <1>2 DEF SlotInHand
  <1>7. SlotMatchesAnswer'
    BY <1>0, <1>1, <1>2 DEF IInv, SlotMatchesAnswer
  <1>8. OptionsFollowFutures'
    BY <1>2 DEF OptionsFollowFutures
  <1> QED BY <1>3, <1>4, <1>5, <1>6, <1>7, <1>8 DEF IInv

-----------------------------------------------------------------------------
(* While the order is on its way its slot stays what it is.                 *)
LEMMA SlotKept ==
  ASSUME IInv, handler \in Request, handler' \in Request, handler.at # "reply",
         handler'.dir = handler.dir, handler'.kept = handler.kept,
         UNCHANGED <<taken, answer>>,
         handler'.at = "reply" => handler'.status \in Successes \cup {"server error"}
  PROVE  SlotInHand' /\ SlotMatchesAnswer'
  <1>1. handler # Idle /\ handler' # Idle
    BY RequestIsNotIdle
  <1>2. SlotInHand'
    BY <1>1 DEF IInv, SlotInHand
  <1>3. SlotMatchesAnswer'
    BY <1>1 DEF IInv, SlotMatchesAnswer
  <1> QED BY <1>2, <1>3

LEMMA GatesStep == IInv /\ Gates => IInv'
  <1> SUFFICES ASSUME IInv, Gates PROVE IInv'
    OBVIOUS
  <1>0. TypeOK /\ handler \in Request /\ handler.at = "gates"
    BY HandlerType DEF IInv, Gates, Idle
  <1>1. /\ handler.returned = {} /\ handler.failed = {} /\ handler.reached = {}
        /\ handler.status = "none" /\ handler.posted = FALSE
    BY <1>0, HandlerType, Zenon DEF IInv, Progress, Request, Idle
  <1>2. /\ UNCHANGED <<config, requests, handed, answer, taken>>
        /\ recent \subseteq recent' /\ recent' \subseteq Ids
        /\ cooling' \subseteq Sides
        /\ \/ \E s \in Refusals \cup {"dry_run"} : handler' = Refused(s)
           \/ /\ handler' = [handler EXCEPT !.at = "nt"] /\ ~config.dryRun
              /\ handler.id \notin recent
              /\ handler.id \in Ids => handler.id \in recent'
    <2>1. Remembered \subseteq Ids /\ recent \subseteq Remembered
      BY <1>0 DEF Remembered, TypeOK, Request
    <2>2. Entered \subseteq Sides
      BY <1>0 DEF Entered, TypeOK, Request
    <2>3. handler.id \in Ids => handler.id \in Remembered
      BY ReceiverAssumption DEF Remembered, ReceiverAssumption
    <2> QED BY <1>0, <2>1, <2>2, <2>3
            DEF Gates, memory, history, Refusals, Onward, Duplicate, TypeOK
  <1>3. CASE \E s \in Refusals \cup {"dry_run"} : handler' = Refused(s)
    <2>1. PICK s \in Refusals \cup {"dry_run"} : handler' = Refused(s)
      BY <1>3
    <2>2. /\ handler' \in Request /\ handler' # Idle
          /\ handler'.at = "settle" /\ handler'.status = s
          /\ handler'.reached = {} /\ handler'.posted = FALSE
          /\ handler'.dir = handler.dir /\ handler'.kept = handler.kept
      BY <1>0, <1>1, <2>1 DEF Refused, Request, Idle, Statuses
    <2>3. TypeOK'
      BY <1>0, <1>2, <2>2 DEF TypeOK
    <2>4. Progress' /\ AnswersAreHonest' /\ OptionsFollowFutures'
      BY <2>2 DEF Progress, AnswersAreHonest, OptionsFollowFutures, Refusals
    <2>5. IdsAreSpent' /\ HandedOncePerWindow'
      BY <1>2, <2>2 DEF IInv, IdsAreSpent, HandedOncePerWindow
    <2>6. SlotInHand' /\ SlotMatchesAnswer'
      BY <1>0, <1>2, <2>2, SlotKept
    <2> QED BY <2>3, <2>4, <2>5, <2>6 DEF IInv
  <1>4. CASE /\ handler' = [handler EXCEPT !.at = "nt"] /\ ~config.dryRun
             /\ handler.id \notin recent
             /\ handler.id \in Ids => handler.id \in recent'
    <2>1. /\ handler' \in Request /\ handler' # Idle
          /\ handler'.at = "nt" /\ handler'.status = "none" /\ handler'.returned = {}
          /\ handler'.failed = {} /\ handler'.reached = {} /\ handler'.posted = FALSE
          /\ handler'.dir = handler.dir /\ handler'.kept = handler.kept
          /\ handler'.id = handler.id
      BY <1>0, <1>1, <1>4 DEF Request, Idle
    <2>2. TypeOK'
      BY <1>0, <1>2, <2>1 DEF TypeOK
    <2>3. Progress' /\ AnswersAreHonest' /\ OptionsFollowFutures'
      BY <1>2, <1>4, <2>1 DEF Progress, AnswersAreHonest, OptionsFollowFutures
    <2>4. handler.id \in Ids =>
            \A t \in Targets : handed[<<handler.id, t>>] = 0
      BY <1>0, <1>4 DEF IInv, IdsAreSpent, TypeOK
    <2>5. IdsAreSpent' /\ HandedOncePerWindow'
      BY <1>2, <1>4, <2>1, <2>4 DEF IInv, IdsAreSpent, HandedOncePerWindow, Targets
    <2>6. SlotInHand' /\ SlotMatchesAnswer'
      BY <1>0, <1>2, <2>1, SlotKept
    <2> QED BY <2>2, <2>3, <2>4, <2>5, <2>6 DEF IInv
  <1> QED BY <1>2, <1>3, <1>4

-----------------------------------------------------------------------------
(* What no handler catches: the answer is a 500, and the slot stays.        *)
LEMMA EscapeFacts ==
  ASSUME NEW req \in Request
  PROVE  /\ Escapes(req) \in Request /\ Escapes(req).at = "reply"
         /\ Escapes(req).status = "server error"
         /\ Escapes(req).dir = req.dir /\ Escapes(req).kept = req.kept
         /\ Escapes(req).posted = req.posted /\ Escapes(req).returned = req.returned
  BY DEF Escapes, Request, Statuses, Failures

(* A target is given the command, in its turn.                              *)
LEMMA HandedStep ==
  ASSUME IInv, NEW t \in Targets, handler.at \in {"nt", "sc"}, handler \in Request,
         t = handler.at,
         UNCHANGED recent, Reaches(t) \/ UNCHANGED handed,
         handler'.at \in {"sc", "settle", "reply"},
         handler'.at = "sc" => t = "nt",
         handler'.id = handler.id, handler'.inWindow = handler.inWindow
  PROVE  HandedOncePerWindow' /\ IdsAreSpent' /\ handed' \in [Ids \X Targets -> Nat]
  <1> DEFINE here == <<handler.id, t>>
  <1>0. TypeOK
    BY DEF IInv
  <1>1. handed' = handed \/ /\ handler.id \in Ids /\ handler.inWindow
                            /\ handed' = [handed EXCEPT ![here] = @ + 1]
    BY DEF Reaches
  <1>2. CASE handed' = handed
    <2>1. HandedOncePerWindow'
      BY <1>2 DEF IInv, HandedOncePerWindow
    <2>2. IdsAreSpent'
      BY <1>2 DEF IInv, IdsAreSpent
    <2> QED BY <1>0, <1>2, <2>1, <2>2 DEF TypeOK
  <1>3. CASE /\ handler.id \in Ids /\ handler.inWindow
             /\ handed' = [handed EXCEPT ![here] = @ + 1]
    <2>1. here \in Ids \X Targets /\ handed[here] = 0 /\ handler.id \in recent
      BY <1>3 DEF IInv, IdsAreSpent
    <2>2. handed' \in [Ids \X Targets -> Nat]
      BY <1>0, <1>3, <2>1 DEF TypeOK
    <2>3. \A x \in Ids \X Targets : handed'[x] = IF x = here THEN 1 ELSE handed[x]
      BY <1>0, <1>3, <2>1 DEF TypeOK
    <2>4. here[1] = handler.id
      OBVIOUS
    <2> HIDE DEF here
    <2>5. HandedOncePerWindow'
      BY <2>3 DEF IInv, HandedOncePerWindow
    <2>6. \A x \in Ids \X Targets : handed'[x] > 0 => x[1] \in recent'
      BY <2>1, <2>3, <2>4 DEF IInv, IdsAreSpent
    <2>7. handler'.at = "sc" /\ handler'.id \in Ids /\ handler'.inWindow =>
             handler'.id \in recent' /\ handed'[<<handler'.id, "sc">>] = 0
      <3> SUFFICES ASSUME handler'.at = "sc" PROVE handed'[<<handler.id, "sc">>] = 0
        BY <2>1
      <3>1. <<handler.id, "sc">> # here
        BY DEF here
      <3>2. handed[<<handler.id, "sc">>] = 0
        BY <1>3 DEF IInv, IdsAreSpent
      <3>3. <<handler.id, "sc">> \in Ids \X Targets
        BY <1>3 DEF Targets
      <3> QED BY <2>3, <3>1, <3>2, <3>3
    <2>8. IdsAreSpent'
      BY <2>6, <2>7 DEF IdsAreSpent
    <2> QED BY <2>2, <2>5, <2>8
  <1> QED BY <1>1, <1>2, <1>3

LEMMA NTStep == IInv /\ ForwardNT => IInv'
  <1> SUFFICES ASSUME IInv, ForwardNT PROVE IInv'
    OBVIOUS
  <1>0. TypeOK /\ handler \in Request /\ handler.at = "nt"
    BY HandlerType DEF IInv, ForwardNT, Idle
  <1>1. /\ handler.returned = {} /\ handler.failed = {} /\ handler.reached = {}
        /\ handler.status = "none" /\ handler.posted = FALSE /\ ~config.dryRun
    BY <1>0, HandlerType, Zenon DEF IInv, Progress, Request, Idle
  <1>2. /\ UNCHANGED <<config, memory, requests, answer>>
        /\ Reaches("nt") \/ UNCHANGED handed
    BY DEF ForwardNT, Reaches, history
  <1>3. \/ /\ "nt" \in config.targets
           /\ handler' = [handler EXCEPT !.at = "sc", !.returned = {"nt"},
                                         !.reached = {"nt"}]
        \/ /\ "nt" \in config.targets
           /\ handler' = [handler EXCEPT !.at = "sc", !.failed = {"nt"}]
        \/ handler' = Escapes(handler)
        \/ /\ "nt" \notin config.targets
           /\ handler' = [handler EXCEPT !.at = "sc"]
    BY DEF ForwardNT
  <1>4. /\ handler' \in Request /\ handler' # Idle
        /\ handler'.dir = handler.dir /\ handler'.kept = handler.kept
        /\ handler'.id = handler.id /\ handler'.inWindow = handler.inWindow
        /\ handler'.posted = FALSE
        /\ \/ /\ handler'.at = "reply" /\ handler'.status = "server error"
              /\ handler'.reached = {}
           \/ /\ handler'.at = "sc" /\ handler'.status = "none"
              /\ handler'.returned \cup handler'.failed = config.targets \cap {"nt"}
              /\ handler'.returned \cap handler'.failed = {}
              /\ handler'.reached = handler'.returned
    <2>1. CASE handler' = Escapes(handler)
      BY <1>0, <1>1, <2>1, RequestIsNotIdle DEF Escapes, Request, Statuses, Failures
    <2>2. CASE /\ "nt" \in config.targets
               /\ handler' = [handler EXCEPT !.at = "sc", !.returned = {"nt"},
                                             !.reached = {"nt"}]
      <3>1. handler' \in Request
        BY <1>0, <2>2 DEF Request, Targets
      <3>2. /\ handler'.at = "sc" /\ handler'.status = "none" /\ handler'.posted = FALSE
            /\ handler'.dir = handler.dir /\ handler'.kept = handler.kept
            /\ handler'.id = handler.id /\ handler'.inWindow = handler.inWindow
            /\ handler'.reached = handler'.returned
            /\ handler'.returned \cup handler'.failed = config.targets \cap {"nt"}
            /\ handler'.returned \cap handler'.failed = {}
        BY <1>0, <1>1, <2>2 DEF Request
      <3> QED BY <3>1, <3>2, RequestIsNotIdle
    <2>3. CASE /\ "nt" \in config.targets
               /\ handler' = [handler EXCEPT !.at = "sc", !.failed = {"nt"}]
      <3>1. handler' \in Request
        BY <1>0, <2>3 DEF Request, Targets
      <3>2. /\ handler'.at = "sc" /\ handler'.status = "none" /\ handler'.posted = FALSE
            /\ handler'.dir = handler.dir /\ handler'.kept = handler.kept
            /\ handler'.id = handler.id /\ handler'.inWindow = handler.inWindow
            /\ handler'.reached = handler'.returned
            /\ handler'.returned \cup handler'.failed = config.targets \cap {"nt"}
            /\ handler'.returned \cap handler'.failed = {}
        BY <1>0, <1>1, <2>3 DEF Request
      <3> QED BY <3>1, <3>2, RequestIsNotIdle
    <2>4. CASE /\ "nt" \notin config.targets
               /\ handler' = [handler EXCEPT !.at = "sc"]
      <3>1. handler' \in Request
        BY <1>0, <2>4 DEF Request, Targets
      <3>2. /\ handler'.at = "sc" /\ handler'.status = "none" /\ handler'.posted = FALSE
            /\ handler'.dir = handler.dir /\ handler'.kept = handler.kept
            /\ handler'.id = handler.id /\ handler'.inWindow = handler.inWindow
            /\ handler'.reached = handler'.returned
            /\ handler'.returned \cup handler'.failed = config.targets \cap {"nt"}
            /\ handler'.returned \cap handler'.failed = {}
        BY <1>0, <1>1, <2>4 DEF Request
      <3> QED BY <3>1, <3>2, RequestIsNotIdle
    <2> QED BY <1>3, <2>1, <2>2, <2>3, <2>4
  <1>5. HandedOncePerWindow' /\ IdsAreSpent' /\ handed' \in [Ids \X Targets -> Nat]
    BY <1>0, <1>2, <1>4, HandedStep DEF memory, Targets
  <1>6. TypeOK'
    BY <1>0, <1>2, <1>4, <1>5 DEF TypeOK, memory
  <1>7. Progress' /\ OptionsFollowFutures' /\ AnswersAreHonest'
    BY <1>1, <1>2, <1>4 DEF Progress, OptionsFollowFutures, AnswersAreHonest,
       Refusals
  <1>8. SlotInHand' /\ SlotMatchesAnswer'
    BY <1>0, <1>2, <1>4, SlotKept DEF memory
  <1> QED BY <1>5, <1>6, <1>7, <1>8 DEF IInv

-----------------------------------------------------------------------------
LEMMA SCStep == IInv /\ ForwardSC => IInv'
  <1> SUFFICES ASSUME IInv, ForwardSC PROVE IInv'
    OBVIOUS
  <1>0. TypeOK /\ handler \in Request /\ handler.at = "sc" /\ config.targets \subseteq Targets
    BY HandlerType, ConfigType DEF IInv, ForwardSC, Idle, TypeOK
  <1>1. /\ handler.returned \cup handler.failed = config.targets \cap {"nt"}
        /\ handler.returned \cap handler.failed = {}
        /\ handler.reached = handler.returned
        /\ handler.status = "none" /\ ~config.dryRun
    BY <1>0 DEF IInv, Progress
  <1>p. handler.posted = FALSE
    BY <1>0, HandlerType, Zenon DEF IInv, Progress, Request, Idle
  <1>2. /\ UNCHANGED <<config, memory, requests, answer>>
        /\ Reaches("sc") \/ UNCHANGED handed
    BY DEF ForwardSC, Reaches, history
  <1>3. /\ handler' \in Request
        /\ handler'.dir = handler.dir /\ handler'.kept = handler.kept
        /\ handler'.id = handler.id /\ handler'.inWindow = handler.inWindow
        /\ handler'.posted = FALSE
        /\ \/ /\ handler'.at = "reply" /\ handler'.status = "server error"
              /\ "sc" \in config.targets
           \/ /\ handler'.at = "settle" /\ handler'.status = "none"
              /\ handler'.returned \cup handler'.failed = config.targets
              /\ handler'.returned \cap handler'.failed = {}
              /\ "sc" \notin config.targets => handler'.reached = handler'.returned
    <2>1. CASE /\ "sc" \notin config.targets
               /\ handler' = [handler EXCEPT !.at = "settle"]
      <3>1. handler' \in Request
        BY <1>0, <2>1 DEF Request
      <3> QED BY <1>0, <1>1, <1>p, <2>1, <3>1 DEF Request, Targets
    <2>2. ASSUME "sc" \in config.targets, NEW reaches \in BOOLEAN, NEW after,
                 after = [handler EXCEPT !.at = "settle",
                             !.reached = @ \cup (IF reaches THEN {"sc"} ELSE {})],
                 \/ handler' = [after EXCEPT !.returned = @ \cup {"sc"}]
                 \/ handler' = [after EXCEPT !.failed = @ \cup {"sc"}]
                 \/ handler' = Escapes(after)
          PROVE  <1>3
      <3>1. /\ after \in Request /\ after.at = "settle" /\ after.status = "none"
            /\ after.dir = handler.dir /\ after.kept = handler.kept
            /\ after.id = handler.id /\ after.inWindow = handler.inWindow
            /\ after.posted = FALSE
            /\ after.returned = handler.returned /\ after.failed = handler.failed
        BY <1>0, <1>1, <1>p, <2>2 DEF Request, Targets
      <3>2. CASE handler' = Escapes(after)
        BY <2>2, <3>1, <3>2 DEF Escapes, Request, Statuses, Failures
      <3>3. CASE handler' = [after EXCEPT !.returned = @ \cup {"sc"}]
        <4>1. handler' \in Request
          BY <3>1, <3>3 DEF Request, Targets
        <4>2. handler'.returned = handler.returned \cup {"sc"} /\ handler'.failed = handler.failed
          BY <3>1, <3>3 DEF Request
        <4>3. /\ handler'.dir = handler.dir /\ handler'.kept = handler.kept
              /\ handler'.id = handler.id /\ handler'.inWindow = handler.inWindow
              /\ handler'.posted = FALSE /\ handler'.at = "settle"
              /\ handler'.status = "none"
          BY <3>1, <3>3 DEF Request
        <4>4. /\ handler'.returned \cup handler'.failed = config.targets
              /\ handler'.returned \cap handler'.failed = {}
          BY <1>0, <1>1, <2>2, <4>2 DEF Targets
        <4> QED BY <2>2, <4>1, <4>3, <4>4
      <3>4. CASE handler' = [after EXCEPT !.failed = @ \cup {"sc"}]
        <4>1. handler' \in Request
          BY <3>1, <3>4 DEF Request, Targets
        <4>2. handler'.failed = handler.failed \cup {"sc"} /\ handler'.returned = handler.returned
          BY <3>1, <3>4 DEF Request
        <4>3. /\ handler'.dir = handler.dir /\ handler'.kept = handler.kept
              /\ handler'.id = handler.id /\ handler'.inWindow = handler.inWindow
              /\ handler'.posted = FALSE /\ handler'.at = "settle"
              /\ handler'.status = "none"
          BY <3>1, <3>4 DEF Request
        <4>4. /\ handler'.returned \cup handler'.failed = config.targets
              /\ handler'.returned \cap handler'.failed = {}
          BY <1>0, <1>1, <2>2, <4>2 DEF Targets
        <4> QED BY <2>2, <4>1, <4>3, <4>4
      <3> QED BY <2>2, <3>2, <3>3, <3>4
    <2> QED BY <2>1, <2>2 DEF ForwardSC
  <1>4. HandedOncePerWindow' /\ IdsAreSpent' /\ handed' \in [Ids \X Targets -> Nat]
    BY <1>0, <1>2, <1>3, HandedStep DEF memory, Targets
  <1>5. TypeOK'
    BY <1>0, <1>2, <1>3, <1>4 DEF TypeOK, memory
  <1>6. Progress' /\ OptionsFollowFutures' /\ AnswersAreHonest'
    BY <1>1, <1>2, <1>3 DEF Progress, OptionsFollowFutures, AnswersAreHonest,
       Refusals
  <1>7. SlotInHand' /\ SlotMatchesAnswer'
    BY <1>0, <1>2, <1>3, SlotKept DEF memory
  <1> QED BY <1>4, <1>5, <1>6, <1>7 DEF IInv

-----------------------------------------------------------------------------
(* The forwarding is over: the outcome, and what becomes of the slot.       *)
LEMMA OutcomeFacts ==
  ASSUME IInv, handler.at = "settle"
  PROVE  /\ Outcome \in Refusals \cup Successes \cup {"dry_run", "unreachable"}
         /\ Outcome \in Successes => /\ handler.status = "none" /\ ~config.dryRun
                                     /\ handler.returned # {}
         /\ Outcome \in Refusals \cup {"dry_run"} => handler.reached = {}
         /\ config.targets = {"nt"} => (Outcome = "accepted" <=> handler.reached = {"nt"})
  <1>1. config.targets # {}
    BY ConfigType DEF IInv, TypeOK
  <1>2. CASE handler.status = "none"
    <2>1. /\ ~config.dryRun /\ handler.returned \cup handler.failed = config.targets
          /\ handler.returned \cap handler.failed = {}
          /\ "sc" \notin config.targets => handler.reached = handler.returned
      BY <1>2 DEF IInv, Progress
    <2>2. Outcome = IF handler.failed = {} THEN "accepted"
                    ELSE IF config.targets = Targets /\ handler.returned # {}
                    THEN "partial" ELSE "unreachable"
      BY <1>2 DEF Outcome
    <2> QED BY <1>1, <1>2, <2>1, <2>2 DEF Refusals, Successes, Targets
  <1>3. CASE handler.status # "none"
    <2>1. handler.status \in Refusals \cup {"dry_run"} /\ handler.reached = {}
      BY <1>3 DEF IInv, Progress
    <2>2. Outcome = handler.status
      BY <1>3 DEF Outcome
    <2> QED BY <2>1, <2>2 DEF Refusals, Successes
  <1> QED BY <1>2, <1>3

LEMMA SettleStep == IInv /\ Settle => IInv'
  <1> SUFFICES ASSUME IInv, Settle PROVE IInv'
    OBVIOUS
  <1>0. TypeOK /\ handler \in Request /\ handler.at = "settle" /\ handler # Idle
    BY HandlerType DEF IInv, Settle, Idle
  <1>p. handler.posted = FALSE
    BY <1>0, HandlerType, Zenon DEF IInv, Progress, Request, Idle
  <1> DEFINE out == Outcome
             goes == IF SendsOptions THEN "options" ELSE "reply"
  <1>1. /\ handler' = [handler EXCEPT !.status = out, !.at = goes]
        /\ taken' = Released(out)
        /\ UNCHANGED <<config, recent, cooling, requests, history>>
    BY DEF Settle
  <1>2. /\ out \in Refusals \cup Successes \cup {"dry_run", "unreachable"}
        /\ out \in Successes => /\ handler.status = "none" /\ ~config.dryRun
                                /\ handler.returned # {}
        /\ out \in Refusals \cup {"dry_run"} => handler.reached = {}
        /\ config.targets = {"nt"} => (out = "accepted" <=> handler.reached = {"nt"})
    BY <1>0, OutcomeFacts
  <1>3. /\ goes \in {"options", "reply"}
        /\ goes = "options" => /\ handler.dir \in Directions /\ config.options
                               /\ out \in Successes
    BY DEF SendsOptions
  <1> HIDE DEF out, goes
  <1>4. handler' \in Request /\ handler' # Idle
    BY <1>0, <1>1, <1>2, <1>3, RequestIsNotIdle DEF Request, Statuses, Failures
  <1>5. /\ handler'.at = goes /\ handler'.status = out
        /\ handler'.dir = handler.dir /\ handler'.kept = handler.kept
        /\ handler'.posted = FALSE /\ handler'.returned = handler.returned
        /\ handler'.reached = handler.reached
    BY <1>0, <1>1, <1>p DEF Request
  <1>6. taken' = IF handler.dir \in Directions /\ out \notin Successes
                 THEN taken \ {handler.dir} ELSE taken
    BY <1>1 DEF Released
  <1>7. TypeOK'
    BY <1>0, <1>1, <1>4, <1>6 DEF TypeOK, history
  <1>8. Progress' /\ OptionsFollowFutures' /\ AnswersAreHonest'
    BY <1>1, <1>2, <1>3, <1>5 DEF Progress, OptionsFollowFutures, AnswersAreHonest
  <1>9. HandedOncePerWindow' /\ IdsAreSpent'
    BY <1>1, <1>3, <1>5 DEF IInv, HandedOncePerWindow, IdsAreSpent, history
  <1>10. SlotInHand'
    <2> SUFFICES ASSUME handler.dir \in Directions
                 PROVE  IF handler'.kept
                        THEN handler.dir \in taken' <=>
                               (goes = "reply" => out \in Successes \cup {"server error"})
                        ELSE handler.dir \notin taken' /\ answer[handler.dir] = "none"
      BY <1>1, <1>4, <1>5 DEF SlotInHand, history
    <2>1. CASE handler.kept
      <3>1. handler.dir \in taken
        BY <1>0, <2>1 DEF IInv, SlotInHand
      <3>2. out # "server error"
        BY <1>2 DEF Refusals, Successes
      <3> QED BY <1>3, <1>5, <1>6, <2>1, <3>1, <3>2
    <2>2. CASE ~handler.kept
      BY <1>0, <1>5, <1>6, <2>2 DEF IInv, SlotInHand
    <2> QED BY <2>1, <2>2
  <1>11. SlotMatchesAnswer'
    BY <1>0, <1>1, <1>4, <1>5, <1>6 DEF IInv, SlotMatchesAnswer, history
  <1> QED BY <1>7, <1>8, <1>9, <1>10, <1>11 DEF IInv

-----------------------------------------------------------------------------
LEMMA PostStep == IInv /\ PostOptions => IInv'
  <1> SUFFICES ASSUME IInv, PostOptions PROVE IInv'
    OBVIOUS
  <1>0. TypeOK /\ handler \in Request /\ handler.at = "options" /\ handler # Idle
    BY HandlerType DEF IInv, PostOptions, Idle
  <1>1. handler.status \in Successes /\ config.options
    BY <1>0 DEF IInv, Progress
  <1>2. handler.returned # {} /\ ~config.dryRun /\ handler.dir \in Directions
    BY <1>0 DEF IInv, OptionsFollowFutures
  <1>3. UNCHANGED <<config, memory, requests, history>>
    BY DEF PostOptions
  <1>4. /\ handler' \in Request
        /\ handler'.at = "reply" /\ handler'.status \in Successes \cup {"server error"}
        /\ handler'.dir = handler.dir /\ handler'.kept = handler.kept
        /\ handler'.returned = handler.returned
    <2>1. ASSUME NEW sent \in BOOLEAN,
                 handler' = [handler EXCEPT !.at = "reply", !.posted = sent]
          PROVE  <1>4
      BY <1>0, <1>1, <2>1 DEF Request
    <2>2. CASE handler' = Escapes([handler EXCEPT !.posted = TRUE])
      <3>1. [handler EXCEPT !.posted = TRUE] \in Request
        BY <1>0 DEF Request
      <3> QED BY <1>0, <2>2, <3>1, EscapeFacts DEF Request
    <2> QED BY <2>1, <2>2 DEF PostOptions
  <1>5. TypeOK'
    BY <1>0, <1>3, <1>4 DEF TypeOK, memory, history
  <1>6. Progress' /\ OptionsFollowFutures'
    BY <1>2, <1>3, <1>4 DEF Progress, OptionsFollowFutures
  <1>7. AnswersAreHonest'
    BY <1>1, <1>3, <1>4 DEF AnswersAreHonest, Refusals, Successes
  <1>8. HandedOncePerWindow' /\ IdsAreSpent'
    BY <1>3, <1>4 DEF IInv, HandedOncePerWindow, IdsAreSpent, memory, history
  <1>9. SlotInHand' /\ SlotMatchesAnswer'
    BY <1>0, <1>3, <1>4, SlotKept DEF memory, history
  <1> QED BY <1>5, <1>6, <1>7, <1>8, <1>9 DEF IInv

(* The handler is through: what was said of its slot becomes history.       *)
LEMMA ReplyStep == IInv /\ Reply => IInv'
  <1> SUFFICES ASSUME IInv, Reply PROVE IInv'
    OBVIOUS
  <1>0. TypeOK /\ handler \in Request /\ handler.at = "reply" /\ handler # Idle
    BY HandlerType DEF IInv, Reply, Idle
  <1>1. /\ handler' = Idle /\ handler'.at = "idle"
        /\ UNCHANGED <<config, memory, requests, handed>>
        /\ answer' = IF handler.dir \in Directions /\ handler.kept
                     THEN [answer EXCEPT ![handler.dir] = handler.status] ELSE answer
    BY DEF Reply, Idle
  <1>2. answer' \in [Directions -> Statuses \cup {"none"}]
    BY <1>0, <1>1 DEF TypeOK, Request
  <1>3. TypeOK'
    BY <1>0, <1>1, <1>2 DEF TypeOK, memory
  <1>4. Progress' /\ OptionsFollowFutures' /\ AnswersAreHonest' /\ SlotInHand'
    BY <1>1 DEF Progress, OptionsFollowFutures, AnswersAreHonest, SlotInHand
  <1>5. HandedOncePerWindow' /\ IdsAreSpent'
    BY <1>1 DEF IInv, HandedOncePerWindow, IdsAreSpent, memory
  <1>6. SlotMatchesAnswer'
    <2> SUFFICES ASSUME NEW d \in Directions
                 PROVE  d \in taken <=> answer'[d] \in Successes \cup {"server error"}
      BY <1>1 DEF SlotMatchesAnswer, memory
    <2>1. CASE handler.dir # d
      <3>1. answer'[d] = answer[d]
        BY <1>0, <1>1, <2>1 DEF TypeOK
      <3> QED BY <2>1, <3>1 DEF IInv, SlotMatchesAnswer
    <2>2. CASE handler.dir = d /\ handler.kept
      <3>1. answer'[d] = handler.status
        BY <1>0, <1>1, <2>2 DEF TypeOK
      <3> QED BY <1>0, <2>2, <3>1 DEF IInv, SlotInHand
    <2>3. CASE handler.dir = d /\ ~handler.kept
      <3>1. answer' = answer
        BY <1>1, <2>3
      <3> QED BY <1>0, <2>3, <3>1 DEF IInv, SlotInHand, Successes
    <2> QED BY <2>1, <2>2, <2>3
  <1> QED BY <1>3, <1>4, <1>5, <1>6 DEF IInv

-----------------------------------------------------------------------------
(* What happens beside the request.                                         *)
LEMMA NewRoundStep == IInv /\ NewRound => IInv'
  <1> SUFFICES ASSUME IInv, NewRound PROVE IInv'
    OBVIOUS
  <1>0. TypeOK
    BY DEF IInv
  <1>1. /\ taken' = {} /\ answer' = NoAnswer
        /\ UNCHANGED <<config, recent, cooling, requests, handed>>
    BY DEF NewRound
  <1>2. \A d \in Directions : answer'[d] = "none"
    BY <1>1 DEF NoAnswer
  <1>3. answer' \in [Directions -> Statuses \cup {"none"}]
    BY <1>1 DEF NoAnswer
  <1>4. SlotMatchesAnswer'
    BY <1>1, <1>2 DEF SlotMatchesAnswer, Successes
  <1>5. CASE handler = Idle
    <2>1. handler' = handler /\ handler' = Idle
      BY <1>5 DEF NewRound
    <2>2. TypeOK' /\ SlotInHand'
      BY <1>0, <1>1, <1>3, <2>1 DEF TypeOK, SlotInHand
    <2> QED
      BY <1>1, <1>4, <2>1, <2>2 DEF IInv, Progress, IdsAreSpent, HandedOncePerWindow,
         OptionsFollowFutures, AnswersAreHonest
  <1>6. CASE handler # Idle
    <2>1. handler \in Request /\ handler' = [handler EXCEPT !.kept = FALSE]
      BY <1>0, <1>6, HandlerType DEF NewRound
    <2>2. handler' \in Request /\ handler' # Idle
      BY <2>1, RequestIsNotIdle DEF Request
    <2>3. /\ handler'.at = handler.at /\ handler'.dir = handler.dir
          /\ handler'.id = handler.id /\ handler'.status = handler.status
          /\ handler'.returned = handler.returned /\ handler'.failed = handler.failed
          /\ handler'.reached = handler.reached /\ handler'.posted = handler.posted
          /\ handler'.inWindow = handler.inWindow
      BY <2>1 DEF Request
    <2>4. handler'.kept = FALSE
      BY <2>1 DEF Request
    <2>5. TypeOK'
      BY <1>0, <1>1, <1>3, <2>2 DEF TypeOK
    <2>6. SlotInHand'
      BY <1>1, <1>2, <2>4 DEF SlotInHand
    <2>7. Progress'
      BY <1>1, <1>6, <2>2, <2>3 DEF IInv, Progress
    <2>8. OptionsFollowFutures' /\ AnswersAreHonest'
      BY <1>1, <1>6, <2>3 DEF IInv, OptionsFollowFutures, AnswersAreHonest
    <2>9. IdsAreSpent' /\ HandedOncePerWindow'
      BY <1>1, <2>3 DEF IInv, IdsAreSpent, HandedOncePerWindow
    <2> QED BY <1>4, <2>5, <2>6, <2>7, <2>8, <2>9 DEF IInv
  <1> QED BY <1>5, <1>6

LEMMA ForgetStep == ASSUME NEW id \in Ids \cup {Fresh}, IInv, ForgetId(id) PROVE IInv'
  <1>0. TypeOK
    BY DEF IInv
  <1>1. /\ recent' = recent \ {id}
        /\ handed' = [x \in Ids \X Targets |-> IF x[1] = id THEN 0 ELSE handed[x]]
        /\ UNCHANGED <<config, cooling, taken, requests, answer>>
    BY DEF ForgetId
  <1>2. handed' \in [Ids \X Targets -> Nat]
    BY <1>0, <1>1 DEF TypeOK
  <1>3. \A x \in Ids \X Targets : handed'[x] = IF x[1] = id THEN 0 ELSE handed[x]
    BY <1>1
  <1>4. HandedOncePerWindow' /\ \A x \in Ids \X Targets : handed'[x] > 0 => x[1] \in recent'
    BY <1>1, <1>3 DEF IInv, HandedOncePerWindow, IdsAreSpent
  <1>5. CASE ~(handler # Idle /\ handler.at # "gates" /\ handler.id = id)
    <2>0. handler' = handler
      BY <1>5 DEF ForgetId
    <2>1. TypeOK'
      BY <1>0, <1>1, <1>2, <2>0 DEF TypeOK
    <2>2. Progress' /\ SlotInHand' /\ SlotMatchesAnswer' /\ OptionsFollowFutures'
          /\ AnswersAreHonest'
      BY <1>1, <2>0 DEF IInv, Progress, SlotInHand, SlotMatchesAnswer,
         OptionsFollowFutures, AnswersAreHonest
    <2>3. IdsAreSpent'
      <3> SUFFICES ASSUME handler.at \in {"nt", "sc"}, handler.id \in Ids, handler.inWindow
                   PROVE  /\ handler.id \in recent'
                          /\ handed'[<<handler.id, "sc">>] = 0
                          /\ handler.at = "nt" => handed'[<<handler.id, "nt">>] = 0
        BY <1>4, <2>0 DEF IdsAreSpent
      <3>1. handler.id # id
        BY <1>5 DEF Idle
      <3>2. /\ handler.id \in recent /\ handed[<<handler.id, "sc">>] = 0
            /\ handler.at = "nt" => handed[<<handler.id, "nt">>] = 0
        BY DEF IInv, IdsAreSpent
      <3>3. \A t \in Targets : handed'[<<handler.id, t>>] = handed[<<handler.id, t>>]
        BY <1>3, <3>1
      <3> QED BY <1>1, <3>1, <3>2, <3>3 DEF Targets
    <2> QED BY <1>4, <2>1, <2>2, <2>3 DEF IInv
  <1>6. CASE handler # Idle /\ handler.at # "gates" /\ handler.id = id
    <2>1. handler \in Request /\ handler' = [handler EXCEPT !.inWindow = FALSE]
      BY <1>0, <1>6, HandlerType DEF ForgetId
    <2>2. handler' \in Request /\ handler' # Idle
      BY <2>1, RequestIsNotIdle DEF Request
    <2>3. /\ handler'.at = handler.at /\ handler'.dir = handler.dir
          /\ handler'.id = handler.id /\ handler'.status = handler.status
          /\ handler'.returned = handler.returned /\ handler'.failed = handler.failed
          /\ handler'.reached = handler.reached /\ handler'.posted = handler.posted
          /\ handler'.kept = handler.kept
      BY <2>1 DEF Request
    <2>4. handler'.inWindow = FALSE
      BY <2>1 DEF Request
    <2>5. TypeOK'
      BY <1>0, <1>1, <1>2, <2>2 DEF TypeOK
    <2>6. SlotInHand' /\ SlotMatchesAnswer'
      BY <1>1, <1>6, <2>2, <2>3 DEF IInv, SlotInHand, SlotMatchesAnswer
    <2>7. Progress'
      BY <1>1, <1>6, <2>2, <2>3 DEF IInv, Progress
    <2>8. OptionsFollowFutures' /\ AnswersAreHonest'
      BY <1>1, <1>6, <2>3 DEF IInv, OptionsFollowFutures, AnswersAreHonest
    <2>9. IdsAreSpent'
      BY <1>4, <2>4 DEF IdsAreSpent
    <2> QED BY <1>4, <2>5, <2>6, <2>7, <2>8, <2>9 DEF IInv
  <1> QED BY <1>5, <1>6

LEMMA CoolStep == ASSUME NEW side \in Sides, IInv, CoolOff(side) PROVE IInv'
  <1>1. /\ UNCHANGED <<config, recent, taken, handler, requests, handed, answer>>
        /\ cooling' = cooling \ {side}
    BY DEF CoolOff, history
  <1>2. TypeOK'
    BY <1>1 DEF IInv, TypeOK
  <1> QED
    BY <1>1, <1>2 DEF IInv, Progress, IdsAreSpent, SlotInHand, HandedOncePerWindow,
       SlotMatchesAnswer, OptionsFollowFutures, AnswersAreHonest

LEMMA RestartStep == IInv /\ Restart => IInv'
  <1> SUFFICES ASSUME IInv, Restart PROVE IInv'
    OBVIOUS
  <1>1. /\ config' \in Configs /\ requests' = requests
        /\ recent' = {} /\ cooling' = {} /\ taken' = {}
        /\ handler' = Idle /\ handler'.at = "idle"
        /\ handed' = NoneHanded /\ answer' = NoAnswer
    BY DEF Restart, Idle
  <1>2. TypeOK'
    BY <1>1 DEF IInv, TypeOK, NoneHanded, NoAnswer
  <1>3. Progress' /\ AnswersAreHonest' /\ OptionsFollowFutures' /\ SlotInHand'
    BY <1>1 DEF Progress, AnswersAreHonest, OptionsFollowFutures, SlotInHand
  <1>4. IdsAreSpent' /\ HandedOncePerWindow'
    BY <1>1 DEF IdsAreSpent, HandedOncePerWindow, NoneHanded
  <1>5. SlotMatchesAnswer'
    BY <1>1 DEF SlotMatchesAnswer, NoAnswer, Successes
  <1> QED BY <1>2, <1>3, <1>4, <1>5 DEF IInv

(* IInv is inductive.                                                       *)
LEMMA Step == IInv /\ [Next]_vars => IInv'
  <1> SUFFICES ASSUME IInv, [Next]_vars PROVE IInv'
    OBVIOUS
  <1>1. ASSUME NEW id \in Ids \cup {Fresh}, NEW action \in Actions, Webhook(id, action)
        PROVE  IInv'
    <2>1. "none" \notin taken /\ taken' = taken \cup ({"none"} \cap Directions)
      BY <1>1 DEF Webhook, IInv, TypeOK, Directions
    <2> QED BY <1>1, <2>1, ReadStep DEF Webhook
  <1>2. ASSUME NEW id \in Ids \cup {Fresh}, NEW dir \in Directions, Signal(id, dir)
        PROVE  IInv'
    <2>1. dir \notin taken /\ taken' = taken \cup ({dir} \cap Directions)
      BY <1>2 DEF Signal
    <2>2. Side(dir) \in Actions
      BY DEF Side, Actions, Sides
    <2> QED BY <1>2, <2>1, <2>2, ReadStep DEF Signal
  <1>3. CASE UNCHANGED vars
    <2>1. UNCHANGED <<config, recent, cooling, taken, handler, requests, handed, answer>>
      BY <1>3 DEF vars
    <2> QED
      BY <2>1 DEF IInv, TypeOK, Progress, IdsAreSpent, SlotInHand, HandedOncePerWindow,
         SlotMatchesAnswer, OptionsFollowFutures, AnswersAreHonest
  <1> QED
    BY <1>1, <1>2, <1>3, GatesStep, NTStep, SCStep, SettleStep, PostStep, ReplyStep,
       NewRoundStep, ForgetStep, CoolStep, RestartStep DEF Next

-----------------------------------------------------------------------------
(* The inductive invariant: ids handed over are remembered, a request that  *)
(* is past the duplicate check has not been handed over yet, its slot is    *)
(* held until its order is settled, and the four properties below.          *)
THEOREM Invariant == Spec => []IInv
  BY InitHolds, Step, PTL DEF Spec

(* forward_command hands an id to a target once in a dedupe window, whether *)
(* it comes by /webhook or by /signal and however often it is sent again,   *)
(* until a restart of the receiver.                                         *)
THEOREM HandedOnce == Spec => []HandedOncePerWindow
  <1>1. IInv => HandedOncePerWindow
    BY DEF IInv
  <1> QED BY <1>1, Invariant, PTL

(* When the handler of /signal is through, its slot is taken if and only if *)
(* the answer says that the order went out, or the dispatch has raised,     *)
(* over any sequence of signals, resets and crashes.                        *)
THEOREM SlotsMatch == Spec => []SlotMatchesAnswer
  <1>1. IInv => SlotMatchesAnswer
    BY DEF IInv
  <1> QED BY <1>1, Invariant, PTL

(* The options envelope is posted for no futures order that was refused,    *)
(* simulated or failed at every target.                                     *)
THEOREM OptionsFollow == Spec => []OptionsFollowFutures
  <1>1. IInv => OptionsFollowFutures
    BY DEF IInv
  <1> QED BY <1>1, Invariant, PTL

(* The answer of _dispatch_command says what the targets did: a refusal or  *)
(* a dry run has reached nobody, and with NinjaTrader alone "accepted" is   *)
(* answered if and only if the line is out.                                 *)
THEOREM Honest == Spec => []AnswersAreHonest
  <1>1. IInv => AnswersAreHonest
    BY DEF IInv
  <1> QED BY <1>1, Invariant, PTL
=============================================================================

-------------------------- MODULE LinkedListsProofs --------------------------
(***************************************************************************)
(* The links that lists.c keeps are circles, whichever stores are still to *)
(* be made, and a frame's word says which circle it is in.                 *)
(*                                                                         *)
(* The inductive invariant speaks of the links as they will be: F and B    *)
(* are Flink and Blink once every pending store is made, and home says of  *)
(* each node which list it is on or which thread has it in hand.  A thread *)
(* stores only to nodes that are its own, or on the list it has locked;    *)
(* so an operation may take the raw links of these for the links as they   *)
(* will be, and links them anew as if its stores were one step.            *)
(***************************************************************************)
EXTENDS LinkedLists, ListTheorems

Rescues == {"rescueModified", "rescueStandby", "rescueMidwrite"}
RegionsOf == [user |-> {"popFree", "popStandby", "addActive"} \cup Rescues,
              trimmer |-> {"popVictims", "markVictims"},
              writer |-> {"popModified", "writePage"}]
Regions == UNION {RegionsOf[t] : t \in Threads}
ListRegions == Regions \ {"rescueMidwrite"}

StepsOf ==
  [none |-> {"idle"},
   popFree |-> {"enter", "pop", "leave"},
   popStandby |-> {"enter", "pop", "enterPage", "readSlot", "writeSlot",
                   "leavePage", "leave"},
   rescueModified |-> {"enter", "enterPage", "still", "remove", "read", "write",
                       "leavePage", "leave"},
   rescueStandby |-> {"enter", "enterPage", "still", "remove", "read", "write",
                      "leavePage", "leave"},
   rescueMidwrite |-> {"enterPage", "still", "read", "write", "leavePage",
                       "leave"},
   addActive |-> {"enter", "victim", "enterPage", "read", "write", "add",
                  "leavePage", "leave"},
   popVictims |-> {"enter", "pop", "leave"},
   markVictims |-> {"enter", "victim", "enterPage", "read", "write", "add",
                    "leavePage", "leave"},
   popModified |-> {"enter", "pop", "enterPage", "read", "write", "leavePage",
                    "leave"},
   writePage |-> {"enter", "victim", "enterPage", "still", "read", "write",
                  "readSlot", "writeSlot", "add", "leavePage", "leave"}]
Steps == UNION {StepsOf[r] : r \in Regions \cup {"none"}}

(* The steps with the frame's lock, and those on a frame in hand.          *)
InPage == {"still", "remove", "read", "write", "readSlot", "writeSlot", "add",
           "leavePage"}
InHand == {"read", "write", "readSlot", "writeSlot", "add"}
------------------------------------------------------------------------------
(* The inductive invariant.                                                *)

Word == [status : PfnStatus, diskIndex : {0, 1}]
Stores == [node : Nodes, field : {"Flink", "Blink"}, value : Nodes]

TypeInv ==
  /\ Flink \in [Nodes -> Nodes] /\ Blink \in [Nodes -> Nodes]
  /\ word \in [Frames -> Word]
  /\ listLock \in [Lists -> Threads \cup {NoThread}]
  /\ pageLocks \in [Frames -> Threads \cup {NoThread}]
  /\ region \in [Threads -> Regions \cup {"none"}]
  /\ pc \in [Threads -> Steps]
  /\ left \in [Threads -> Nat]
  /\ stores \in [Threads -> Seq(Stores)]
  /\ frame \in [Threads -> Frames \cup {NoFrame}]
  /\ reg \in [Threads -> Word]
  /\ victims \in [Threads -> Seq(Frames)]

(* F and B are inverse, no circle goes through two lists, and a frame in   *)
(* hand points to itself.                                                  *)
Circles(F, B, home) ==
  /\ F \in [Nodes -> Nodes] /\ B \in [Nodes -> Nodes]
  /\ home \in [Nodes -> Lists \cup Threads]
  /\ \A n \in Nodes : B[F[n]] = n /\ F[B[n]] = n
  /\ \A l \in Lists : home[l] = l
  /\ \A n \in Nodes : home[n] \in Lists => home[F[n]] = home[n]
  /\ \A n \in Nodes : home[n] \in Threads => F[n] = n

(* Each pending store brings a link to what it will be, and every link     *)
(* without a pending store is that already.                                *)
StoresLead(F, B) ==
  /\ \A t \in Threads : \A s \in ToSet(stores[t]) :
       s.value = IF s.field = "Flink" THEN F[s.node] ELSE B[s.node]
  /\ \A n \in Nodes :
       /\ Flink[n] = F[n] \/ \E t \in Threads : \E s \in ToSet(stores[t]) :
                               s.node = n /\ s.field = "Flink"
       /\ Blink[n] = B[n] \/ \E t \in Threads : \E s \in ToSet(stores[t]) :
                               s.node = n /\ s.field = "Blink"

(* A thread stores to its own nodes and to the list it has locked.         *)
May(t, h) == h = t \/ (h \in Lists /\ listLock[h] = t)
StoresInside(home) ==
  /\ \A t \in Threads : \A s \in ToSet(stores[t]) : May(t, home[s.node])
  /\ \A s \in ToSet(stores["writer"]) :
       home[s.node] = "writer" => word[s.node].status = PFN_MODIFIED
  /\ \A t \in Threads : pc[t] = "idle" => stores[t] = <<>>

Control ==
  \A t \in Threads : /\ region[t] \in RegionsOf[t] \cup {"none"}
                     /\ pc[t] \in StepsOf[region[t]]

Locking ==
  /\ \A l \in Lists, t \in Threads :
       listLock[l] = t <=> /\ region[t] \in ListRegions
                           /\ ListOf[region[t]] = l
                           /\ pc[t] # "enter"
  /\ \A f \in Frames, t \in Threads :
       pageLocks[f] = t <=> frame[t] = f /\ pc[t] \in InPage
  /\ \A t \in Threads :
       \/ pc[t] \in InPage \cup {"enterPage"}
       \/ pc[t] = "enter" /\ region[t] \in Rescues
       => frame[t] \in Frames

(* How often each loop goes round again.                                   *)
Rounds ==
  /\ \A t \in Threads :
       /\ /\ region[t] \in {"popFree", "popStandby", "addActive", "writePage"}
          /\ pc[t] # "leave"
          => left[t] = IF pc[t] \in {"enter", "pop", "victim"} THEN 1 ELSE 0
       /\ region[t] \in Rescues => left[t] = 0
       /\ /\ region[t] \in {"popVictims", "popModified"}
          /\ pc[t] \in {"enter", "pop"}
          => left[t] > 0
  /\ region["trimmer"] = "markVictims" =>
       /\ pc["trimmer"] \in {"enter", "victim"} =>
            left["trimmer"] > 0 /\ left["trimmer"] = Len(victims["trimmer"])
       /\ pc["trimmer"] \in {"enterPage", "read", "write", "add"} =>
            /\ left["trimmer"] = Len(victims["trimmer"]) - 1
            /\ frame["trimmer"] = Head(victims["trimmer"])
       /\ pc["trimmer"] = "leavePage" =>
            left["trimmer"] = Len(victims["trimmer"])

(* Which frames each thread has in hand.                                   *)
MineAt(r) == IF r \in {"popStandby", "addActive", "markVictims", "popModified"}
             THEN InHand \cup {"enterPage"} ELSE InHand
Hands(home) ==
  /\ \A t \in Threads : pc[t] \in MineAt(region[t]) => home[frame[t]] = t
  /\ \A f \in Frames :
       /\ home[f] = "user" <=> On(victims["user"], f) /\ pc["user"] # "remove"
       /\ home[f] = "trimmer" <=> On(victims["trimmer"], f)
  /\ IsInjective(victims["trimmer"])
  /\ pc["user"] = "remove" => home[frame["user"]] = ListOf[region["user"]]

UserVictims ==
  LET v == victims["user"] IN
  /\ v # <<>> => \E f \in Frames : v = <<f>>
  /\ /\ region["user"] \in {"popFree", "popStandby"}
     /\ pc["user"] \in {"enter", "pop"}
     => v = <<>>
  /\ /\ region["user"] \in Rescues
     /\ pc["user"] \in {"enter", "enterPage", "still"}
     => v = <<>>
  /\ /\ region["user"] = "addActive"
     /\ pc["user"] \in {"enter", "victim"}
     => v # <<>>
  /\ pc["user"] \in MineAt(region["user"]) \cup {"remove"} => v = <<frame["user"]>>

WriterVictims ==
  /\ region["writer"] = "writePage"
  /\ pc["writer"] \notin {"leavePage", "leave"}
  => victims["writer"] # <<>>

(* A frame's word tells which list it is on; off the lists it tells what   *)
(* the second look of another thread relies on.                            *)
OfList(w, l) == /\ w.status = StatusOfList[l]
                /\ l = "free" => w.diskIndex = 0
                /\ l = "standby" => w.diskIndex = 1
Statuses(home) ==
  \A f \in Frames :
    /\ home[f] \in Lists => OfList(word[f], home[f])
    /\ home[f] = "user" /\ word[f].status = PFN_MIDWRITE =>
           /\ region["user"] = "rescueMidwrite"
           /\ pc["user"] \in {"read", "write"}
           /\ frame["user"] = f
    /\ home[f] = "trimmer" =>
         \/ word[f].status = PFN_ACTIVE
         \/ /\ word[f].status = PFN_MODIFIED
            /\ pc["trimmer"] = "add" /\ frame["trimmer"] = f
    /\ home[f] = "writer" =>
         \/ word[f].status = PFN_MIDWRITE
         \/ /\ word[f].status = PFN_MODIFIED
            /\ region["writer"] = "popModified" /\ frame["writer"] = f
            /\ pc["writer"] \in {"enterPage", "read", "write"}
         \/ /\ word[f].status = PFN_STANDBY
            /\ region["writer"] = "writePage" /\ frame["writer"] = f
            /\ pc["writer"] \in {"readSlot", "writeSlot", "add"}

(* What a thread knows of the word it is about to write, or to add.        *)
Words ==
  /\ \A t \in Threads :
       /\ pc[t] \in {"write", "writeSlot"} => reg[t] = word[frame[t]]
       /\ pc[t] = "add" => OfList(word[frame[t]], ListOf[region[t]])
  /\ /\ region["writer"] = "popModified"
     /\ pc["writer"] \in {"enterPage", "read", "write"}
     => word[frame["writer"]].status = PFN_MODIFIED
  /\ /\ region["writer"] = "writePage"
     /\ pc["writer"] \in {"readSlot", "writeSlot"}
     => word[frame["writer"]].status = PFN_STANDBY

LinksInv(F, B, home) ==
  /\ TypeInv
  /\ Circles(F, B, home)
  /\ StoresLead(F, B)
  /\ StoresInside(home)
  /\ Control
  /\ Locking
  /\ Rounds
  /\ Hands(home)
  /\ UserVictims
  /\ WriterVictims
  /\ Statuses(home)
  /\ Words

IndInv == \E F, B, home : LinksInv(F, B, home)
------------------------------------------------------------------------------
(* The steps that follow the steps of a region.                            *)

AfterEnter(r) ==
  IF r \in {"popFree", "popStandby", "popVictims", "popModified"} THEN "pop"
  ELSE IF r \in {"addActive", "markVictims", "writePage"} THEN "victim"
  ELSE "enterPage"
AfterEnterPage(r) ==
  IF r = "popStandby" THEN "readSlot"
  ELSE IF r \in Rescues \cup {"writePage"} THEN "still" ELSE "read"
AfterStill(r) ==
  IF r \in {"rescueModified", "rescueStandby"} THEN "remove" ELSE "read"
AfterWrite(r) ==
  IF r = "writePage" THEN "readSlot"
  ELSE IF r \in {"addActive", "markVictims"} THEN "add" ELSE "leavePage"
AfterWriteSlot(r) == IF r = "popStandby" THEN "leavePage" ELSE "add"

LEMMA RegionsAre ==
  /\ Threads = {"user", "trimmer", "writer"}
  /\ RegionsOf["user"] = {"popFree", "popStandby", "addActive",
       "rescueModified", "rescueStandby", "rescueMidwrite"}
  /\ RegionsOf["trimmer"] = {"popVictims", "markVictims"}
  /\ RegionsOf["writer"] = {"popModified", "writePage"}
  /\ Regions = {"popFree", "popStandby", "addActive", "rescueModified",
       "rescueStandby", "rescueMidwrite", "popVictims", "markVictims",
       "popModified", "writePage"}
<1>1. /\ RegionsOf["user"] = {"popFree", "popStandby", "addActive",
       "rescueModified", "rescueStandby", "rescueMidwrite"}
      /\ RegionsOf["trimmer"] = {"popVictims", "markVictims"}
      /\ RegionsOf["writer"] = {"popModified", "writePage"}
  BY DEF RegionsOf, Rescues
<1>2. Regions = RegionsOf["user"] \cup RegionsOf["trimmer"] \cup RegionsOf["writer"]
  BY DEF Regions, Threads
<1> QED  BY <1>1, <1>2 DEF Threads

LEMMA AfterIs ==
  /\ \A r \in Regions \ {"rescueMidwrite"} : After[r]["enter"] = AfterEnter(r)
  /\ \A r \in Regions : "enterPage" \in StepsOf[r] =>
       After[r]["enterPage"] = AfterEnterPage(r)
  /\ \A r \in Regions : "still" \in StepsOf[r] => After[r]["still"] = AfterStill(r)
  /\ \A r \in Regions : "write" \in StepsOf[r] => After[r]["write"] = AfterWrite(r)
  /\ \A r \in Regions : "writeSlot" \in StepsOf[r] =>
       After[r]["writeSlot"] = AfterWriteSlot(r)
  /\ \A r \in Regions : "remove" \in StepsOf[r] => After[r]["remove"] = "read"
  /\ \A r \in Regions : "read" \in StepsOf[r] => After[r]["read"] = "write"
  /\ \A r \in Regions : "readSlot" \in StepsOf[r] => After[r]["readSlot"] = "writeSlot"
  /\ \A r \in Regions : "add" \in StepsOf[r] => After[r]["add"] = "leavePage"
  /\ \A r \in Regions : "victim" \in StepsOf[r] => After[r]["victim"] = "enterPage"
  /\ \A r \in Regions : "leavePage" \in StepsOf[r] => After[r]["leavePage"] = "loop"
  /\ \A r \in Regions : "pop" \in StepsOf[r] =>
       After[r]["pop"] = IF r \in {"popStandby", "popModified"} THEN "enterPage"
                         ELSE "loop"
<1>1. /\ After["popFree"]["enter"] = "pop"
      /\ After["popFree"]["pop"] = "loop"
  BY DEF After
<1>2. /\ After["popStandby"]["enter"] = "pop"
      /\ After["popStandby"]["pop"] = "enterPage"
      /\ After["popStandby"]["enterPage"] = "readSlot"
      /\ After["popStandby"]["readSlot"] = "writeSlot"
      /\ After["popStandby"]["writeSlot"] = "leavePage"
      /\ After["popStandby"]["leavePage"] = "loop"
  BY DEF After
<1>3. /\ After["rescueModified"]["enter"] = "enterPage"
      /\ After["rescueModified"]["enterPage"] = "still"
      /\ After["rescueModified"]["still"] = "remove"
      /\ After["rescueModified"]["remove"] = "read"
      /\ After["rescueModified"]["read"] = "write"
      /\ After["rescueModified"]["write"] = "leavePage"
      /\ After["rescueModified"]["leavePage"] = "loop"
  BY DEF After
<1>4. /\ After["rescueStandby"]["enter"] = "enterPage"
      /\ After["rescueStandby"]["enterPage"] = "still"
      /\ After["rescueStandby"]["still"] = "remove"
      /\ After["rescueStandby"]["remove"] = "read"
      /\ After["rescueStandby"]["read"] = "write"
      /\ After["rescueStandby"]["write"] = "leavePage"
      /\ After["rescueStandby"]["leavePage"] = "loop"
  BY DEF After
<1>5. /\ After["rescueMidwrite"]["enterPage"] = "still"
      /\ After["rescueMidwrite"]["still"] = "read"
      /\ After["rescueMidwrite"]["read"] = "write"
      /\ After["rescueMidwrite"]["write"] = "leavePage"
      /\ After["rescueMidwrite"]["leavePage"] = "loop"
  BY DEF After
<1>6. /\ After["addActive"]["enter"] = "victim"
      /\ After["addActive"]["victim"] = "enterPage"
      /\ After["addActive"]["enterPage"] = "read"
      /\ After["addActive"]["read"] = "write"
      /\ After["addActive"]["write"] = "add"
      /\ After["addActive"]["add"] = "leavePage"
      /\ After["addActive"]["leavePage"] = "loop"
  BY DEF After
<1>7. /\ After["popVictims"]["enter"] = "pop"
      /\ After["popVictims"]["pop"] = "loop"
  BY DEF After
<1>8. /\ After["markVictims"]["enter"] = "victim"
      /\ After["markVictims"]["victim"] = "enterPage"
      /\ After["markVictims"]["enterPage"] = "read"
      /\ After["markVictims"]["read"] = "write"
      /\ After["markVictims"]["write"] = "add"
      /\ After["markVictims"]["add"] = "leavePage"
      /\ After["markVictims"]["leavePage"] = "loop"
  BY DEF After
<1>9. /\ After["popModified"]["enter"] = "pop"
      /\ After["popModified"]["pop"] = "enterPage"
      /\ After["popModified"]["enterPage"] = "read"
      /\ After["popModified"]["read"] = "write"
      /\ After["popModified"]["write"] = "leavePage"
      /\ After["popModified"]["leavePage"] = "loop"
  BY DEF After
<1>10. /\ After["writePage"]["enter"] = "victim"
      /\ After["writePage"]["victim"] = "enterPage"
      /\ After["writePage"]["enterPage"] = "still"
      /\ After["writePage"]["still"] = "read"
      /\ After["writePage"]["read"] = "write"
      /\ After["writePage"]["write"] = "readSlot"
      /\ After["writePage"]["readSlot"] = "writeSlot"
      /\ After["writePage"]["writeSlot"] = "add"
      /\ After["writePage"]["add"] = "leavePage"
      /\ After["writePage"]["leavePage"] = "loop"
  BY DEF After
<1> QED  BY <1>1, <1>2, <1>3, <1>4, <1>5, <1>6, <1>7, <1>8, <1>9, <1>10, RegionsAre
     DEF StepsOf, AfterEnter, AfterEnterPage, AfterStill, AfterWrite,
         AfterWriteSlot, Rescues

LEMMA StepsAre ==
  ASSUME NEW r \in Regions \cup {"none"}
  PROVE  /\ "idle" \in StepsOf[r] <=> r = "none"
         /\ "enter" \in StepsOf[r] <=> r \in ListRegions
         /\ "leave" \in StepsOf[r] <=> r \in Regions
         /\ "pop" \in StepsOf[r] <=>
              r \in {"popFree", "popStandby", "popVictims", "popModified"}
         /\ "victim" \in StepsOf[r] <=>
              r \in {"addActive", "markVictims", "writePage"}
         /\ "enterPage" \in StepsOf[r] <=>
              r \in Regions \ {"popFree", "popVictims"}
         /\ "still" \in StepsOf[r] <=> r \in Rescues \cup {"writePage"}
         /\ "remove" \in StepsOf[r] <=> r \in {"rescueModified", "rescueStandby"}
         /\ "read" \in StepsOf[r] <=>
              r \in Regions \ {"popFree", "popVictims", "popStandby"}
         /\ "write" \in StepsOf[r] <=> "read" \in StepsOf[r]
         /\ "readSlot" \in StepsOf[r] <=> r \in {"popStandby", "writePage"}
         /\ "writeSlot" \in StepsOf[r] <=> r \in {"popStandby", "writePage"}
         /\ "add" \in StepsOf[r] <=> r \in {"addActive", "markVictims", "writePage"}
         /\ "leavePage" \in StepsOf[r] <=>
              r \in Regions \ {"popFree", "popVictims"}
         /\ StepsOf[r] \subseteq
              {"idle", "enter", "leave", "pop", "victim", "enterPage", "still",
               "remove", "read", "write", "readSlot", "writeSlot", "add",
               "leavePage"}
         /\ StepsOf[r] \subseteq Steps
BY RegionsAre DEF StepsOf, ListRegions, Rescues, Steps

(* The step a thread goes on to.                                           *)
LEMMA ThenGoes ==
  ASSUME NEW t \in Threads, TypeInv, Control, Then(t)
  PROVE  /\ pc[t] = "enter" => GoTo(t, AfterEnter(region[t]))
         /\ pc[t] = "enterPage" => GoTo(t, AfterEnterPage(region[t]))
         /\ pc[t] = "still" => GoTo(t, AfterStill(region[t]))
         /\ pc[t] = "write" => GoTo(t, AfterWrite(region[t]))
         /\ pc[t] = "writeSlot" => GoTo(t, AfterWriteSlot(region[t]))
         /\ pc[t] = "remove" => GoTo(t, "read")
         /\ pc[t] = "read" => GoTo(t, "write")
         /\ pc[t] = "readSlot" => GoTo(t, "writeSlot")
         /\ pc[t] = "add" => GoTo(t, "leavePage")
         /\ pc[t] = "victim" => GoTo(t, "enterPage")
         /\ pc[t] = "leavePage" /\ region[t] # "rescueMidwrite" =>
              GoTo(t, IF left[t] = 0 THEN "leave" ELSE AfterEnter(region[t]))
         /\ pc[t] = "leavePage" /\ left[t] = 0 => GoTo(t, "leave")
<1>1. /\ region[t] \in Regions \cup {"none"}
      /\ pc[t] \in StepsOf[region[t]]
  BY DEF TypeInv, Control
<1>2. /\ pc[t] # "idle" => region[t] \in Regions
      /\ pc[t] = "enter" => region[t] # "rescueMidwrite"
  BY <1>1, StepsAre DEF StepsOf, ListRegions
<1>3. PICK r : r = region[t]
  OBVIOUS
<1>4. PICK step : step = pc[t]
  OBVIOUS
<1>5. PICK rounds : rounds = left[t]
  OBVIOUS
<1>6. PICK next : next = IF After[r][step] # "loop" THEN After[r][step]
                       ELSE IF rounds = 0 THEN "leave" ELSE After[r]["enter"]
  OBVIOUS
<1>7. GoTo(t, next)
  BY <1>3, <1>4, <1>5, <1>6 DEF Then, GoTo
<1>8. /\ step = "enter" => next = AfterEnter(r)
      /\ step = "enterPage" => next = AfterEnterPage(r)
      /\ step = "still" => next = AfterStill(r)
      /\ step = "write" => next = AfterWrite(r)
      /\ step = "writeSlot" => next = AfterWriteSlot(r)
  BY <1>1, <1>2, <1>3, <1>4, <1>6, AfterIs
     DEF AfterEnter, AfterEnterPage, AfterStill, AfterWrite, AfterWriteSlot,
         ListRegions
<1>9. /\ step = "remove" => next = "read"
      /\ step = "read" => next = "write"
      /\ step = "readSlot" => next = "writeSlot"
      /\ step = "add" => next = "leavePage"
      /\ step = "victim" => next = "enterPage"
      /\ step = "leavePage" /\ r # "rescueMidwrite" =>
           next = IF rounds = 0 THEN "leave" ELSE AfterEnter(r)
      /\ step = "leavePage" /\ rounds = 0 => next = "leave"
  BY <1>1, <1>2, <1>3, <1>4, <1>6, AfterIs
<1> QED  BY <1>3, <1>4, <1>5, <1>7, <1>8, <1>9 DEF GoTo

(* A thread that goes to a step of its region.                             *)
LEMMA Moves ==
  ASSUME NEW t \in Threads, TypeInv, Control, NEW step \in StepsOf[region[t]],
         GoTo(t, step), UNCHANGED region
  PROVE  /\ Control' /\ pc' \in [Threads -> Steps]
         /\ pc'[t] = step /\ \A u \in Threads \ {t} : pc'[u] = pc[u]
<1>1. /\ region[t] \in Regions \cup {"none"}
      /\ pc \in [Threads -> Steps]
  BY DEF TypeInv
<1>2. step \in Steps
  BY <1>1, StepsAre
<1> QED  BY <1>1, <1>2 DEF GoTo, Control

LEMMA ListsOf ==
  ASSUME NEW r \in ListRegions
  PROVE  /\ ListOf[r] \in Lists
         /\ ListOf[r] = "free" <=> r = "popFree"
         /\ ListOf[r] = "standby" <=>
              r \in {"popStandby", "rescueStandby", "writePage"}
         /\ ListOf[r] = "active" <=> r \in {"addActive", "popVictims"}
         /\ ListOf[r] = "modified" <=>
              r \in {"rescueModified", "markVictims", "popModified"}
BY RegionsAre DEF ListOf, ListRegions, Lists

LEMMA StoreIs ==
  ASSUME NEW t \in Threads, TypeInv, NEW s \in ToSet(stores[t])
  PROVE  /\ s \in Stores /\ s.node \in Nodes /\ s.value \in Nodes
         /\ s.field = "Flink" \/ s.field = "Blink"
         /\ stores[t] # <<>>
<1>1. PICK i \in DOMAIN stores[t] : s = stores[t][i]
  BY DEF ToSet
<1>2. stores[t] \in Seq(Stores) /\ DOMAIN stores[t] = 1 .. Len(stores[t])
  BY LenProperties DEF TypeInv
<1>3. s \in Stores
  BY <1>1, <1>2, ElementOfSeq
<1>4. stores[t] # <<>>
  BY <1>1
<1> QED  BY <1>3, <1>4 DEF Stores

(* A region that has a list to lock goes on from its first step.           *)
LEMMA Enters ==
  ASSUME NEW r \in ListRegions
  PROVE  /\ AfterEnter(r) \in StepsOf[r]
         /\ AfterEnter(r) \in {"pop", "victim", "enterPage"}
         /\ AfterEnter(r) = "enterPage" <=> r \in {"rescueModified", "rescueStandby"}
         /\ AfterEnter(r) = "victim" <=> r \in {"addActive", "markVictims", "writePage"}
         /\ AfterEnter(r) = "pop" <=>
              r \in {"popFree", "popStandby", "popVictims", "popModified"}
BY StepsAre, RegionsAre DEF AfterEnter, ListRegions, Rescues

(* The region of a thread that is at a step.                               *)
LEMMA RegionAt ==
  ASSUME NEW t \in Threads, TypeInv, Control
  PROVE  /\ region[t] \in Regions \cup {"none"}
         /\ pc[t] \in StepsOf[region[t]] /\ pc[t] \in Steps
         /\ pc[t] # "idle" => region[t] \in Regions /\ region[t] \in RegionsOf[t]
         /\ pc[t] = "idle" <=> region[t] = "none"
<1>1. /\ region[t] \in Regions \cup {"none"}
      /\ region[t] \in RegionsOf[t] \cup {"none"}
      /\ pc[t] \in StepsOf[region[t]] /\ pc[t] \in Steps
  BY DEF Control, TypeInv
<1>2. StepsOf["none"] = {"idle"}
  BY DEF StepsOf
<1> QED  BY <1>1, <1>2, StepsAre

LEMMA EnterKeeps ==
  ASSUME NEW F, NEW B, NEW home, LinksInv(F, B, home),
         NEW t \in Threads, EnterCriticalSection(t)
  PROVE  LinksInv(F, B, home)'
<1>1. /\ TypeInv /\ Circles(F, B, home) /\ StoresLead(F, B)
      /\ StoresInside(home) /\ Control /\ Locking /\ Rounds /\ Hands(home)
      /\ UserVictims /\ WriterVictims /\ Statuses(home) /\ Words
  BY DEF LinksInv
<1>2. PICK r : r = region[t]
  OBVIOUS
<1>3. r \in ListRegions /\ r \in RegionsOf[t] /\ pc[t] = "enter"
  BY <1>1, <1>2, RegionAt, StepsAre DEF EnterCriticalSection, At
<1>4. PICK l \in Lists : l = ListOf[r]
  BY <1>3, ListsOf
<1>5. PICK step : step = AfterEnter(r)
  OBVIOUS
<1>6. /\ GoTo(t, step) /\ listLock[l] = NoThread
      /\ listLock' = [listLock EXCEPT ![l] = t]
      /\ UNCHANGED <<Flink, Blink, word, pageLocks, region, left, stores, frame,
                     reg, victims>>
  BY <1>1, <1>2, <1>3, <1>4, <1>5, ThenGoes
     DEF EnterCriticalSection, GoTo, links, local
<1>7. /\ step \in {"pop", "victim", "enterPage"} /\ step \in StepsOf[r]
      /\ step = "enterPage" <=> r \in {"rescueModified", "rescueStandby"}
      /\ step = "victim" <=> r \in {"addActive", "markVictims", "writePage"}
  BY <1>3, <1>5, Enters
<1>8. /\ Control' /\ pc' \in [Threads -> Steps]
      /\ pc'[t] = step /\ \A u \in Threads \ {t} : pc'[u] = pc[u]
  BY <1>1, <1>2, <1>6, <1>7, Moves
<1>9. TypeInv'
  BY <1>1, <1>6, <1>8 DEF TypeInv
<1>10. Circles(F, B, home)' /\ StoresLead(F, B)'
  BY <1>1, <1>6 DEF Circles, StoresLead
<1>11. StoresInside(home)'
  BY <1>1, <1>3, <1>6, <1>7, <1>8 DEF StoresInside, May, TypeInv, NoThread, Threads
<1>12. Locking'
  <2>1. ASSUME NEW m \in Lists, NEW u \in Threads
        PROVE  listLock'[m] = u <=> /\ region'[u] \in ListRegions
                                    /\ ListOf[region'[u]] = m
                                    /\ pc'[u] # "enter"
    BY <1>1, <1>2, <1>3, <1>4, <1>6, <1>7, <1>8 DEF Locking, TypeInv, NoThread, Threads
  <2>2. ASSUME NEW f \in Frames, NEW u \in Threads
        PROVE  pageLocks'[f] = u <=> frame'[u] = f /\ pc'[u] \in InPage
    BY <1>1, <1>3, <1>6, <1>7, <1>8 DEF Locking, InPage
  <2>3. ASSUME NEW u \in Threads,
               \/ pc'[u] \in InPage \cup {"enterPage"}
               \/ pc'[u] = "enter" /\ region'[u] \in Rescues
        PROVE  frame'[u] \in Frames
    BY <1>1, <1>2, <1>3, <1>6, <1>7, <1>8, <2>3 DEF Locking, InPage, Rescues
  <2> QED  BY <2>1, <2>2, <2>3 DEF Locking
<1>13. Rounds'
  BY <1>1, <1>2, <1>3, <1>6, <1>7, <1>8 DEF Rounds, Threads
<1>14. Hands(home)'
  BY <1>1, <1>2, <1>3, <1>6, <1>7, <1>8 DEF Hands, Threads, MineAt, InHand
<1>15. UserVictims' /\ WriterVictims'
  BY <1>1, <1>2, <1>3, <1>6, <1>7, <1>8
     DEF UserVictims, WriterVictims, Threads, MineAt, InHand, Rescues
<1>16. Statuses(home)'
  BY <1>1, <1>2, <1>3, <1>6, <1>7, <1>8 DEF Statuses, Threads
<1>17. Words'
  BY <1>1, <1>2, <1>3, <1>6, <1>7, <1>8 DEF Words, Threads
<1> QED  BY <1>8, <1>9, <1>10, <1>11, <1>12, <1>13, <1>14, <1>15, <1>16, <1>17
         DEF LinksInv

LEMMA EnterPageGoes ==
  ASSUME NEW r \in Regions \ {"popFree", "popVictims"}
  PROVE  /\ AfterEnterPage(r) \in StepsOf[r]
         /\ AfterEnterPage(r) \in {"readSlot", "still", "read"}
         /\ AfterEnterPage(r) = "readSlot" <=> r = "popStandby"
         /\ AfterEnterPage(r) = "still" <=> r \in Rescues \cup {"writePage"}
         /\ AfterEnterPage(r) = "read" <=>
              r \in {"addActive", "markVictims", "popModified"}
BY StepsAre, RegionsAre DEF AfterEnterPage, Rescues

LEMMA EnterPageKeeps ==
  ASSUME NEW F, NEW B, NEW home, LinksInv(F, B, home),
         NEW t \in Threads, EnterPageLock(t)
  PROVE  LinksInv(F, B, home)'
<1>1. /\ TypeInv /\ Circles(F, B, home) /\ StoresLead(F, B)
      /\ StoresInside(home) /\ Control /\ Locking /\ Rounds /\ Hands(home)
      /\ UserVictims /\ WriterVictims /\ Statuses(home) /\ Words
  BY DEF LinksInv
<1>2. PICK r : r = region[t]
  OBVIOUS
<1>3. /\ r \in Regions \ {"popFree", "popVictims"} /\ r \in RegionsOf[t]
      /\ pc[t] = "enterPage"
  BY <1>1, <1>2, RegionAt, StepsAre DEF EnterPageLock, At
<1>4. PICK f \in Frames : f = frame[t]
  BY <1>1, <1>3 DEF Locking
<1>5. PICK step : step = AfterEnterPage(r)
  OBVIOUS
<1>6. /\ GoTo(t, step) /\ pageLocks[f] = NoThread
      /\ pageLocks' = [pageLocks EXCEPT ![f] = t]
      /\ UNCHANGED <<Flink, Blink, word, listLock, region, left, stores, frame,
                     reg, victims>>
  BY <1>1, <1>2, <1>3, <1>4, <1>5, ThenGoes
     DEF EnterPageLock, PageIsFree, GoTo, links, local
<1>7. /\ step \in {"readSlot", "still", "read"} /\ step \in StepsOf[r]
      /\ step = "readSlot" <=> r = "popStandby"
      /\ step = "still" <=> r \in Rescues \cup {"writePage"}
      /\ step = "read" <=> r \in {"addActive", "markVictims", "popModified"}
  BY <1>3, <1>5, EnterPageGoes
<1>8. /\ Control' /\ pc' \in [Threads -> Steps]
      /\ pc'[t] = step /\ \A u \in Threads \ {t} : pc'[u] = pc[u]
  BY <1>1, <1>2, <1>6, <1>7, Moves
<1>9. TypeInv'
  BY <1>1, <1>6, <1>8 DEF TypeInv
<1>10. Circles(F, B, home)' /\ StoresLead(F, B)'
  BY <1>1, <1>6 DEF Circles, StoresLead
<1>11. StoresInside(home)'
  BY <1>1, <1>3, <1>6, <1>7, <1>8 DEF StoresInside, May
<1>12. Locking'
  <2>1. ASSUME NEW m \in Lists, NEW u \in Threads
        PROVE  listLock'[m] = u <=> /\ region'[u] \in ListRegions
                                    /\ ListOf[region'[u]] = m
                                    /\ pc'[u] # "enter"
    BY <1>1, <1>2, <1>3, <1>6, <1>7, <1>8 DEF Locking
  <2>2. ASSUME NEW g \in Frames, NEW u \in Threads
        PROVE  pageLocks'[g] = u <=> frame'[u] = g /\ pc'[u] \in InPage
    BY <1>1, <1>3, <1>4, <1>6, <1>7, <1>8
       DEF Locking, InPage, TypeInv, NoThread, Threads
  <2>3. ASSUME NEW u \in Threads,
               \/ pc'[u] \in InPage \cup {"enterPage"}
               \/ pc'[u] = "enter" /\ region'[u] \in Rescues
        PROVE  frame'[u] \in Frames
    BY <1>1, <1>2, <1>3, <1>4, <1>6, <1>7, <1>8, <2>3 DEF Locking
  <2> QED  BY <2>1, <2>2, <2>3 DEF Locking
<1>13. Rounds'
  BY <1>1, <1>2, <1>3, <1>6, <1>7, <1>8 DEF Rounds, Threads
<1>14. Hands(home)'
  BY <1>1, <1>2, <1>3, <1>6, <1>7, <1>8 DEF Hands, Threads, MineAt, InHand, Rescues
<1>15. UserVictims' /\ WriterVictims'
  BY <1>1, <1>2, <1>3, <1>6, <1>7, <1>8
     DEF UserVictims, WriterVictims, Threads, MineAt, InHand, Rescues
<1>16. Statuses(home)'
  BY <1>1, <1>2, <1>3, <1>6, <1>7, <1>8 DEF Statuses, Threads
<1>17. Words'
  BY <1>1, <1>2, <1>3, <1>6, <1>7, <1>8 DEF Words, Threads, Rescues
<1> QED  BY <1>8, <1>9, <1>10, <1>11, <1>12, <1>13, <1>14, <1>15, <1>16, <1>17
         DEF LinksInv

LEMMA LeavePageKeeps ==
  ASSUME NEW F, NEW B, NEW home, LinksInv(F, B, home),
         NEW t \in Threads, LeavePageLock(t)
  PROVE  LinksInv(F, B, home)'
<1>1. /\ TypeInv /\ Circles(F, B, home) /\ StoresLead(F, B)
      /\ StoresInside(home) /\ Control /\ Locking /\ Rounds /\ Hands(home)
      /\ UserVictims /\ WriterVictims /\ Statuses(home) /\ Words
  BY DEF LinksInv
<1>2. PICK r : r = region[t]
  OBVIOUS
<1>3. /\ r \in Regions \ {"popFree", "popVictims"} /\ r \in RegionsOf[t]
      /\ pc[t] = "leavePage"
  BY <1>1, <1>2, RegionAt, StepsAre DEF LeavePageLock, At
<1>4. PICK f \in Frames : f = frame[t]
  BY <1>1, <1>3 DEF Locking, InPage
<1>5. PICK step : step = IF left[t] = 0 THEN "leave" ELSE AfterEnter(r)
  OBVIOUS
<1>6. left[t] # 0 => r \in {"markVictims", "popModified"}
  BY <1>1, <1>2, <1>3, RegionsAre DEF Rounds, Rescues
<1>7. /\ GoTo(t, step)
      /\ pageLocks' = [pageLocks EXCEPT ![f] = NoThread]
      /\ frame' = [frame EXCEPT ![t] = NoFrame]
      /\ UNCHANGED <<Flink, Blink, word, listLock, region, left, stores, reg,
                     victims>>
  <2>1. GoTo(t, step)
    BY <1>1, <1>2, <1>3, <1>5, <1>6, ThenGoes DEF LeavePageLock, GoTo
  <2> QED  BY <2>1, <1>4 DEF LeavePageLock, links
<1>8. /\ step \in {"leave", "pop", "victim"} /\ step \in StepsOf[r]
      /\ step = "leave" <=> left[t] = 0
      /\ step = "pop" <=> left[t] # 0 /\ r = "popModified"
      /\ step = "victim" <=> left[t] # 0 /\ r = "markVictims"
  BY <1>3, <1>5, <1>6, StepsAre DEF AfterEnter
<1>9. /\ Control' /\ pc' \in [Threads -> Steps]
      /\ pc'[t] = step /\ \A u \in Threads \ {t} : pc'[u] = pc[u]
  BY <1>1, <1>2, <1>7, <1>8, Moves
<1>10. TypeInv'
  BY <1>1, <1>7, <1>9 DEF TypeInv
<1>11. /\ frame'[t] = NoFrame /\ \A u \in Threads \ {t} : frame'[u] = frame[u]
  BY <1>1, <1>7 DEF TypeInv
<1>12. Circles(F, B, home)' /\ StoresLead(F, B)'
  BY <1>1, <1>7 DEF Circles, StoresLead
<1>13. StoresInside(home)'
  BY <1>1, <1>3, <1>7, <1>8, <1>9 DEF StoresInside, May
<1>14. Locking'
  <2>1. ASSUME NEW m \in Lists, NEW u \in Threads
        PROVE  listLock'[m] = u <=> /\ region'[u] \in ListRegions
                                    /\ ListOf[region'[u]] = m
                                    /\ pc'[u] # "enter"
    BY <1>1, <1>2, <1>3, <1>7, <1>8, <1>9 DEF Locking
  <2>2. ASSUME NEW g \in Frames, NEW u \in Threads
        PROVE  pageLocks'[g] = u <=> frame'[u] = g /\ pc'[u] \in InPage
    BY <1>1, <1>3, <1>4, <1>7, <1>8, <1>9, <1>11
       DEF Locking, InPage, TypeInv, NoThread, Threads
  <2>3. ASSUME NEW u \in Threads,
               \/ pc'[u] \in InPage \cup {"enterPage"}
               \/ pc'[u] = "enter" /\ region'[u] \in Rescues
        PROVE  frame'[u] \in Frames
    BY <1>1, <1>2, <1>3, <1>7, <1>8, <1>9, <1>11, <2>3 DEF Locking, InPage
  <2> QED  BY <2>1, <2>2, <2>3 DEF Locking
<1>15. Rounds'
  BY <1>1, <1>2, <1>3, <1>7, <1>8, <1>9, <1>11 DEF Rounds, Threads, TypeInv
<1>16. Hands(home)'
  BY <1>1, <1>2, <1>3, <1>7, <1>8, <1>9, <1>11 DEF Hands, Threads, MineAt, InHand
<1>17. UserVictims' /\ WriterVictims'
  BY <1>1, <1>2, <1>3, <1>7, <1>8, <1>9, <1>11
     DEF UserVictims, WriterVictims, Threads, MineAt, InHand, Rescues
<1>18. Statuses(home)'
  BY <1>1, <1>2, <1>3, <1>7, <1>8, <1>9, <1>11 DEF Statuses, Threads
<1>19. Words'
  BY <1>1, <1>2, <1>3, <1>7, <1>8, <1>9, <1>11 DEF Words, Threads
<1> QED  BY <1>9, <1>10, <1>12, <1>13, <1>14, <1>15, <1>16, <1>17, <1>18, <1>19
         DEF LinksInv

LEMMA LeaveKeeps ==
  ASSUME NEW F, NEW B, NEW home, LinksInv(F, B, home),
         NEW t \in Threads, LeaveCriticalSection(t)
  PROVE  LinksInv(F, B, home)'
<1>1. /\ TypeInv /\ Circles(F, B, home) /\ StoresLead(F, B)
      /\ StoresInside(home) /\ Control /\ Locking /\ Rounds /\ Hands(home)
      /\ UserVictims /\ WriterVictims /\ Statuses(home) /\ Words
  BY DEF LinksInv
<1>2. PICK r : r = region[t]
  OBVIOUS
<1>3. r \in Regions /\ r \in RegionsOf[t] /\ pc[t] = "leave" /\ stores[t] = <<>>
  BY <1>1, <1>2, RegionAt DEF LeaveCriticalSection, At
<1>4. /\ listLock' = [l \in Lists |-> IF listLock[l] = t THEN NoThread
                                      ELSE listLock[l]]
      /\ region' = [region EXCEPT ![t] = "none"]
      /\ pc' = [pc EXCEPT ![t] = "idle"]
      /\ left' = [left EXCEPT ![t] = 0]
      /\ frame' = [frame EXCEPT ![t] = NoFrame]
      /\ UNCHANGED <<Flink, Blink, word, pageLocks, stores, reg, victims>>
  BY DEF LeaveCriticalSection, GoTo, links
<1>5. "idle" \in Steps /\ "idle" \in StepsOf["none"]
  BY DEF Steps, StepsOf
<1>6. TypeInv'
  BY <1>1, <1>4, <1>5 DEF TypeInv
<1>7. /\ pc'[t] = "idle" /\ \A u \in Threads \ {t} : pc'[u] = pc[u]
      /\ region'[t] = "none" /\ \A u \in Threads \ {t} : region'[u] = region[u]
      /\ left'[t] = 0 /\ \A u \in Threads \ {t} : left'[u] = left[u]
      /\ frame'[t] = NoFrame /\ \A u \in Threads \ {t} : frame'[u] = frame[u]
  BY <1>1, <1>4 DEF TypeInv
<1>8. Control'
  BY <1>1, <1>5, <1>7 DEF Control
<1>9. Circles(F, B, home)' /\ StoresLead(F, B)'
  BY <1>1, <1>4 DEF Circles, StoresLead
<1>10. StoresInside(home)'
  <2>1. ASSUME NEW u \in Threads, NEW s \in ToSet(stores'[u])
        PROVE  May(u, home[s.node])'
    <3>1. s \in ToSet(stores[u]) /\ u # t
      BY <1>3, <1>4 DEF ToSet
    <3>2. home[s.node] = u \/ (home[s.node] \in Lists /\ listLock[home[s.node]] = u)
      BY <1>1, <3>1 DEF StoresInside, May
    <3> QED  BY <1>4, <3>1, <3>2 DEF May
  <2> QED  BY <1>1, <1>3, <1>4, <1>7, <2>1 DEF StoresInside
<1>11. Locking'
  <2>1. ASSUME NEW m \in Lists, NEW u \in Threads
        PROVE  listLock'[m] = u <=> /\ region'[u] \in ListRegions
                                    /\ ListOf[region'[u]] = m
                                    /\ pc'[u] # "enter"
    BY <1>1, <1>4, <1>7, RegionsAre DEF Locking, TypeInv, NoThread, Threads, ListRegions
  <2>2. ASSUME NEW g \in Frames, NEW u \in Threads
        PROVE  pageLocks'[g] = u <=> frame'[u] = g /\ pc'[u] \in InPage
    BY <1>1, <1>3, <1>4, <1>7 DEF Locking, InPage
  <2>3. ASSUME NEW u \in Threads,
               \/ pc'[u] \in InPage \cup {"enterPage"}
               \/ pc'[u] = "enter" /\ region'[u] \in Rescues
        PROVE  frame'[u] \in Frames
    BY <1>1, <1>4, <1>7, <2>3 DEF Locking, InPage, Rescues
  <2> QED  BY <2>1, <2>2, <2>3 DEF Locking
<1>12. Rounds'
  BY <1>1, <1>4, <1>7 DEF Rounds, Threads, Rescues
<1>13. Hands(home)'
  BY <1>1, <1>2, <1>3, <1>4, <1>7 DEF Hands, Threads, MineAt, InHand
<1>14. UserVictims' /\ WriterVictims'
  BY <1>1, <1>2, <1>3, <1>4, <1>7
     DEF UserVictims, WriterVictims, Threads, MineAt, InHand, Rescues
<1>15. Statuses(home)'
  BY <1>1, <1>2, <1>3, <1>4, <1>7 DEF Statuses, Threads
<1>16. Words'
  BY <1>1, <1>2, <1>3, <1>4, <1>7 DEF Words, Threads
<1> QED  BY <1>6, <1>8, <1>9, <1>10, <1>11, <1>12, <1>13, <1>14, <1>15, <1>16
         DEF LinksInv

LEMMA ReadKeeps ==
  ASSUME NEW F, NEW B, NEW home, LinksInv(F, B, home),
         NEW t \in Threads, ReadWord(t)
  PROVE  LinksInv(F, B, home)'
<1>1. /\ TypeInv /\ Circles(F, B, home) /\ StoresLead(F, B)
      /\ StoresInside(home) /\ Control /\ Locking /\ Rounds /\ Hands(home)
      /\ UserVictims /\ WriterVictims /\ Statuses(home) /\ Words
  BY DEF LinksInv
<1>2. PICK r : r = region[t]
  OBVIOUS
<1>3. /\ r \in Regions \ {"popFree", "popVictims"} /\ r \in RegionsOf[t]
      /\ \/ pc[t] = "read" /\ r # "popStandby"
         \/ pc[t] = "readSlot" /\ r \in {"popStandby", "writePage"}
  BY <1>1, <1>2, RegionAt, StepsAre DEF ReadWord, At
<1>4. PICK f \in Frames : f = frame[t]
  BY <1>1, <1>3 DEF Locking, InPage
<1>5. PICK step : step = IF pc[t] = "read" THEN "write" ELSE "writeSlot"
  OBVIOUS
<1>6. /\ GoTo(t, step)
      /\ reg' = [reg EXCEPT ![t] = word[f]]
      /\ UNCHANGED <<Flink, Blink, word, listLock, pageLocks, region, left,
                     stores, frame, victims>>
  BY <1>1, <1>3, <1>4, <1>5, ThenGoes DEF ReadWord, GoTo, links, locks
<1>7. /\ step \in {"write", "writeSlot"} /\ step \in StepsOf[r]
      /\ step = "write" <=> pc[t] = "read"
      /\ step = "writeSlot" <=> pc[t] = "readSlot"
  BY <1>3, <1>5, StepsAre
<1>8. /\ Control' /\ pc' \in [Threads -> Steps]
      /\ pc'[t] = step /\ \A u \in Threads \ {t} : pc'[u] = pc[u]
  BY <1>1, <1>2, <1>6, <1>7, Moves
<1>9. TypeInv' /\ reg'[t] = word[f] /\ \A u \in Threads \ {t} : reg'[u] = reg[u]
  BY <1>1, <1>6, <1>8 DEF TypeInv
<1>10. Circles(F, B, home)' /\ StoresLead(F, B)'
  BY <1>1, <1>6 DEF Circles, StoresLead
<1>11. StoresInside(home)'
  BY <1>1, <1>3, <1>6, <1>7, <1>8 DEF StoresInside, May
<1>12. Locking'
  <2>1. ASSUME NEW m \in Lists, NEW u \in Threads
        PROVE  listLock'[m] = u <=> /\ region'[u] \in ListRegions
                                    /\ ListOf[region'[u]] = m
                                    /\ pc'[u] # "enter"
    BY <1>1, <1>2, <1>3, <1>6, <1>7, <1>8 DEF Locking
  <2>2. ASSUME NEW g \in Frames, NEW u \in Threads
        PROVE  pageLocks'[g] = u <=> frame'[u] = g /\ pc'[u] \in InPage
    BY <1>1, <1>3, <1>6, <1>7, <1>8 DEF Locking, InPage
  <2>3. ASSUME NEW u \in Threads,
               \/ pc'[u] \in InPage \cup {"enterPage"}
               \/ pc'[u] = "enter" /\ region'[u] \in Rescues
        PROVE  frame'[u] \in Frames
    BY <1>1, <1>3, <1>6, <1>7, <1>8, <2>3 DEF Locking, InPage
  <2> QED  BY <2>1, <2>2, <2>3 DEF Locking
<1>13. Rounds'
  BY <1>1, <1>2, <1>3, <1>6, <1>7, <1>8 DEF Rounds, Threads
<1>14. Hands(home)'
  BY <1>1, <1>2, <1>3, <1>6, <1>7, <1>8 DEF Hands, Threads, MineAt, InHand
<1>15. UserVictims' /\ WriterVictims'
  BY <1>1, <1>2, <1>3, <1>6, <1>7, <1>8
     DEF UserVictims, WriterVictims, Threads, MineAt, InHand, Rescues
<1>16. Statuses(home)'
  BY <1>1, <1>2, <1>3, <1>6, <1>7, <1>8 DEF Statuses, Threads
<1>17. Words'
  BY <1>1, <1>2, <1>3, <1>4, <1>6, <1>7, <1>8, <1>9 DEF Words, Threads
<1> QED  BY <1>8, <1>9, <1>10, <1>11, <1>12, <1>13, <1>14, <1>15, <1>16, <1>17
         DEF LinksInv

LEMMA WriteStatusKeeps ==
  ASSUME NEW F, NEW B, NEW home, LinksInv(F, B, home),
         NEW t \in Threads, WriteWord(t), pc[t] = "write"
  PROVE  LinksInv(F, B, home)'
<1>1. /\ TypeInv /\ Circles(F, B, home) /\ StoresLead(F, B)
      /\ StoresInside(home) /\ Control /\ Locking /\ Rounds /\ Hands(home)
      /\ UserVictims /\ WriterVictims /\ Statuses(home) /\ Words
  BY DEF LinksInv
<1>2. PICK r : r = region[t]
  OBVIOUS
<1>3. /\ r \in Regions \ {"popFree", "popVictims", "popStandby"} /\ r \in RegionsOf[t]
      /\ stores[t] = <<>>
  BY <1>1, <1>2, RegionAt, StepsAre DEF WriteWord, At
<1>4. PICK f \in Frames : f = frame[t]
  BY <1>1, <1>3 DEF Locking, InPage
<1>5. PICK step : step = AfterWrite(r)
  OBVIOUS
<1>6. PICK w : w = [reg[t] EXCEPT !.status = NewStatus[r]]
  OBVIOUS
<1>7. /\ GoTo(t, step)
      /\ word' = [word EXCEPT ![f] = w]
      /\ reg' = [reg EXCEPT ![t] = NoWord]
      /\ UNCHANGED <<Flink, Blink, listLock, pageLocks, region, left,
                     stores, frame, victims>>
  BY <1>1, <1>2, <1>3, <1>4, <1>5, <1>6, ThenGoes
     DEF WriteWord, At, GoTo, links, locks
<1>8. /\ step \in StepsOf[r]
      /\ step \in {"readSlot", "add", "leavePage"}
      /\ step = "readSlot" <=> r = "writePage"
      /\ step = "add" <=> r \in {"addActive", "markVictims"}
  BY <1>3, <1>5, StepsAre, RegionsAre DEF AfterWrite, Rescues
<1>9. /\ Control' /\ pc' \in [Threads -> Steps]
      /\ pc'[t] = step /\ \A u \in Threads \ {t} : pc'[u] = pc[u]
  BY <1>1, <1>2, <1>7, <1>8, Moves
<1>10. /\ home[f] = t
       /\ \A u \in Threads \ {t} : pc[u] \in MineAt(region[u]) => frame[u] # f
  BY <1>1, <1>2, <1>4 DEF Hands, MineAt, InHand
<1>11. reg[t] = word[f] /\ word[f] \in Word /\ NoWord \in Word
  BY <1>1, <1>4 DEF Words, TypeInv, NoWord, Word, PfnStatus
<1>12. /\ w \in Word
       /\ r \in Rescues => w.status = PFN_MIDRESCUE
       /\ r = "addActive" => w.status = PFN_ACTIVE
       /\ r = "markVictims" => w.status = PFN_MODIFIED
       /\ r = "popModified" => w.status = PFN_MIDWRITE
       /\ r = "writePage" => w.status = PFN_STANDBY
       /\ r \in {"addActive", "markVictims"} => OfList(w, ListOf[r])
  BY <1>1, <1>2, <1>3, <1>4, <1>6, <1>11, RegionsAre
     DEF NewStatus, Word, Rescues, PfnStatus, PFN_FREE, PFN_ACTIVE, PFN_MODIFIED,
         PFN_STANDBY, PFN_MIDWRITE, PFN_MIDRESCUE,
         OfList, StatusOfList, ListOf
<1>13. TypeInv'
  BY <1>1, <1>7, <1>9, <1>11, <1>12 DEF TypeInv
<1>14. word'[f] = w /\ \A g \in Frames \ {f} : word'[g] = word[g]
  BY <1>1, <1>7 DEF TypeInv
<1>15. reg'[t] = NoWord /\ \A u \in Threads \ {t} : reg'[u] = reg[u]
  BY <1>1, <1>7 DEF TypeInv
<1>16. Circles(F, B, home)' /\ StoresLead(F, B)'
  BY <1>1, <1>7 DEF Circles, StoresLead
<1>17. StoresInside(home)'
  <2>1. ASSUME NEW s \in ToSet(stores["writer"]), home[s.node] = "writer"
        PROVE  word'[s.node].status = PFN_MODIFIED
    <3>1. s.node \in Nodes /\ t # "writer"
      BY <1>1, <1>3, <2>1, StoreIs DEF Threads
    <3>2. s.node # f
      BY <1>10, <2>1, <3>1
    <3>3. s.node \in Frames
      BY <1>1, <2>1, <3>1 DEF Circles, Nodes, Lists
    <3> QED  BY <1>1, <1>14, <2>1, <3>2, <3>3 DEF StoresInside
  <2> QED  BY <1>1, <1>7, <1>8, <1>9, <2>1 DEF StoresInside, May
<1>18. Locking'
  <2>1. ASSUME NEW m \in Lists, NEW u \in Threads
        PROVE  listLock'[m] = u <=> /\ region'[u] \in ListRegions
                                    /\ ListOf[region'[u]] = m
                                    /\ pc'[u] # "enter"
    BY <1>1, <1>2, <1>3, <1>7, <1>8, <1>9 DEF Locking
  <2>2. ASSUME NEW g \in Frames, NEW u \in Threads
        PROVE  pageLocks'[g] = u <=> frame'[u] = g /\ pc'[u] \in InPage
    BY <1>1, <1>7, <1>8, <1>9 DEF Locking, InPage
  <2>3. ASSUME NEW u \in Threads,
               \/ pc'[u] \in InPage \cup {"enterPage"}
               \/ pc'[u] = "enter" /\ region'[u] \in Rescues
        PROVE  frame'[u] \in Frames
    BY <1>1, <1>7, <1>8, <1>9, <2>3 DEF Locking, InPage
  <2> QED  BY <2>1, <2>2, <2>3 DEF Locking
<1>19. Rounds'
  BY <1>1, <1>2, <1>3, <1>7, <1>8, <1>9 DEF Rounds, Threads
<1>20. Hands(home)'
  BY <1>1, <1>2, <1>3, <1>7, <1>8, <1>9 DEF Hands, Threads, MineAt, InHand
<1>21. UserVictims' /\ WriterVictims'
  BY <1>1, <1>2, <1>3, <1>7, <1>8, <1>9
     DEF UserVictims, WriterVictims, Threads, MineAt, InHand, Rescues
<1>22. Statuses(home)'
  <2>1. ASSUME NEW g \in Frames \ {f}
        PROVE  /\ home[g] \in Lists => OfList(word'[g], home[g])
               /\ home[g] = "user" /\ word'[g].status = PFN_MIDWRITE =>
                    /\ region'["user"] = "rescueMidwrite"
                    /\ pc'["user"] \in {"read", "write"}
                    /\ frame'["user"] = g
               /\ home[g] = "trimmer" =>
                    \/ word'[g].status = PFN_ACTIVE
                    \/ /\ word'[g].status = PFN_MODIFIED
                       /\ pc'["trimmer"] = "add" /\ frame'["trimmer"] = g
               /\ home[g] = "writer" =>
                    \/ word'[g].status = PFN_MIDWRITE
                    \/ /\ word'[g].status = PFN_MODIFIED
                       /\ region'["writer"] = "popModified" /\ frame'["writer"] = g
                       /\ pc'["writer"] \in {"enterPage", "read", "write"}
                    \/ /\ word'[g].status = PFN_STANDBY
                       /\ region'["writer"] = "writePage" /\ frame'["writer"] = g
                       /\ pc'["writer"] \in {"readSlot", "writeSlot", "add"}
    BY <1>1, <1>4, <1>7, <1>9, <1>14 DEF Statuses, Threads
  <2>2. home[f] \notin Lists
    BY <1>10 DEF Lists, Threads
  <2>3. /\ home[f] = "user" /\ word'[f].status = PFN_MIDWRITE =>
             /\ region'["user"] = "rescueMidwrite"
             /\ pc'["user"] \in {"read", "write"}
             /\ frame'["user"] = f
        /\ home[f] = "trimmer" =>
             \/ word'[f].status = PFN_ACTIVE
             \/ /\ word'[f].status = PFN_MODIFIED
                /\ pc'["trimmer"] = "add" /\ frame'["trimmer"] = f
        /\ home[f] = "writer" =>
             \/ word'[f].status = PFN_MIDWRITE
             \/ /\ word'[f].status = PFN_MODIFIED
                /\ region'["writer"] = "popModified" /\ frame'["writer"] = f
                /\ pc'["writer"] \in {"enterPage", "read", "write"}
             \/ /\ word'[f].status = PFN_STANDBY
                /\ region'["writer"] = "writePage" /\ frame'["writer"] = f
                /\ pc'["writer"] \in {"readSlot", "writeSlot", "add"}
    BY <1>2, <1>3, <1>4, <1>7, <1>8, <1>9, <1>10, <1>12, <1>14, RegionsAre
       DEF Rescues, PFN_ACTIVE, PFN_MIDWRITE, PFN_MIDRESCUE
  <2> QED  BY <2>1, <2>2, <2>3 DEF Statuses
<1>23. Words'
  <2>1. ASSUME NEW u \in Threads
        PROVE  /\ pc'[u] \in {"write", "writeSlot"} => reg'[u] = word'[frame'[u]]
               /\ pc'[u] = "add" => OfList(word'[frame'[u]], ListOf[region'[u]])
    <3>1. CASE u = t
      BY <1>2, <1>3, <1>4, <1>7, <1>8, <1>9, <1>12, <1>14, <3>1 DEF OfList
    <3>2. CASE u # t
      <4>1. pc[u] \in {"write", "writeSlot", "add"} => frame[u] \in Frames \ {f}
        BY <1>1, <1>10, <3>2 DEF Locking, InPage, MineAt, InHand
      <4> QED  BY <1>1, <1>7, <1>9, <1>14, <1>15, <3>2, <4>1 DEF Words
    <3> QED  BY <3>1, <3>2
  <2>2. ASSUME region'["writer"] = "popModified",
               pc'["writer"] \in {"enterPage", "read", "write"}
        PROVE  word'[frame'["writer"]].status = PFN_MODIFIED
    <3>1. t # "writer"
      BY <1>2, <1>3, <1>7, <1>8, <1>9, <2>2
    <3>2. frame["writer"] \in Frames \ {f}
      BY <1>1, <1>7, <1>9, <1>10, <2>2, <3>1 DEF Locking, InPage, MineAt, InHand, Threads
    <3> QED  BY <1>1, <1>7, <1>9, <1>14, <2>2, <3>1, <3>2 DEF Words, Threads
  <2>3. ASSUME region'["writer"] = "writePage",
               pc'["writer"] \in {"readSlot", "writeSlot"}
        PROVE  word'[frame'["writer"]].status = PFN_STANDBY
    <3>1. CASE t = "writer"
      BY <1>2, <1>3, <1>4, <1>7, <1>8, <1>9, <1>12, <1>14, <2>3, <3>1
    <3>2. CASE t # "writer"
      <4>1. frame["writer"] \in Frames \ {f}
        BY <1>1, <1>7, <1>9, <1>10, <2>3, <3>2 DEF Locking, InPage, MineAt, InHand, Threads
      <4> QED  BY <1>1, <1>7, <1>9, <1>14, <2>3, <3>2, <4>1 DEF Words, Threads
    <3> QED  BY <3>1, <3>2
  <2> QED  BY <2>1, <2>2, <2>3 DEF Words
<1> QED  BY <1>9, <1>13, <1>16, <1>17, <1>18, <1>19, <1>20, <1>21, <1>22, <1>23
         DEF LinksInv

LEMMA WriteSlotKeeps ==
  ASSUME NEW F, NEW B, NEW home, LinksInv(F, B, home),
         NEW t \in Threads, WriteWord(t), pc[t] = "writeSlot"
  PROVE  LinksInv(F, B, home)'
<1>1. /\ TypeInv /\ Circles(F, B, home) /\ StoresLead(F, B)
      /\ StoresInside(home) /\ Control /\ Locking /\ Rounds /\ Hands(home)
      /\ UserVictims /\ WriterVictims /\ Statuses(home) /\ Words
  BY DEF LinksInv
<1>2. PICK r : r = region[t]
  OBVIOUS
<1>3. /\ r \in {"popStandby", "writePage"} /\ r \in RegionsOf[t]
      /\ stores[t] = <<>>
  BY <1>1, <1>2, RegionAt, StepsAre DEF WriteWord, At
<1>4. PICK f \in Frames : f = frame[t]
  BY <1>1, <1>3 DEF Locking, InPage
<1>5. PICK step : step = AfterWriteSlot(r)
  OBVIOUS
<1>6. PICK w : w = [reg[t] EXCEPT !.diskIndex = NewDiskIndex[r]]
  OBVIOUS
<1>7. /\ GoTo(t, step)
      /\ word' = [word EXCEPT ![f] = w]
      /\ reg' = [reg EXCEPT ![t] = NoWord]
      /\ UNCHANGED <<Flink, Blink, listLock, pageLocks, region, left,
                     stores, frame, victims>>
  BY <1>1, <1>2, <1>3, <1>4, <1>5, <1>6, ThenGoes
     DEF WriteWord, At, GoTo, links, locks
<1>8. /\ step \in StepsOf[r]
      /\ step \in {"leavePage", "add"}
      /\ step = "leavePage" <=> r = "popStandby"
      /\ step = "add" <=> r = "writePage"
  BY <1>3, <1>5, StepsAre, RegionsAre DEF AfterWriteSlot, Rescues
<1>9. /\ Control' /\ pc' \in [Threads -> Steps]
      /\ pc'[t] = step /\ \A u \in Threads \ {t} : pc'[u] = pc[u]
  BY <1>1, <1>2, <1>7, <1>8, Moves
<1>10. /\ home[f] = t
       /\ \A u \in Threads \ {t} : pc[u] \in MineAt(region[u]) => frame[u] # f
  BY <1>1, <1>2, <1>4 DEF Hands, MineAt, InHand
<1>11. reg[t] = word[f] /\ word[f] \in Word /\ NoWord \in Word
  BY <1>1, <1>4 DEF Words, TypeInv, NoWord, Word, PfnStatus
<1>12. /\ w \in Word
       /\ w.status = word[f].status
       /\ r = "writePage" => w.status = PFN_STANDBY /\ OfList(w, ListOf[r])
  BY <1>1, <1>2, <1>3, <1>4, <1>6, <1>11, RegionsAre
     DEF NewDiskIndex, Word, Rescues, PfnStatus, PFN_FREE, PFN_ACTIVE, PFN_MODIFIED,
         PFN_STANDBY, PFN_MIDWRITE, PFN_MIDRESCUE,
         OfList, StatusOfList, ListOf, Words, Threads
<1>13. TypeInv'
  BY <1>1, <1>7, <1>9, <1>11, <1>12 DEF TypeInv
<1>14. word'[f] = w /\ \A g \in Frames \ {f} : word'[g] = word[g]
  BY <1>1, <1>7 DEF TypeInv
<1>15. reg'[t] = NoWord /\ \A u \in Threads \ {t} : reg'[u] = reg[u]
  BY <1>1, <1>7 DEF TypeInv
<1>16. Circles(F, B, home)' /\ StoresLead(F, B)'
  BY <1>1, <1>7 DEF Circles, StoresLead
<1>17. StoresInside(home)'
  <2>1. ASSUME NEW s \in ToSet(stores["writer"]), home[s.node] = "writer"
        PROVE  word'[s.node].status = PFN_MODIFIED
    <3>1. s.node \in Nodes /\ t # "writer"
      BY <1>1, <1>3, <2>1, StoreIs DEF Threads
    <3>2. s.node # f
      BY <1>10, <2>1, <3>1
    <3>3. s.node \in Frames
      BY <1>1, <2>1, <3>1 DEF Circles, Nodes, Lists
    <3> QED  BY <1>1, <1>14, <2>1, <3>2, <3>3 DEF StoresInside
  <2> QED  BY <1>1, <1>7, <1>8, <1>9, <2>1 DEF StoresInside, May
<1>18. Locking'
  <2>1. ASSUME NEW m \in Lists, NEW u \in Threads
        PROVE  listLock'[m] = u <=> /\ region'[u] \in ListRegions
                                    /\ ListOf[region'[u]] = m
                                    /\ pc'[u] # "enter"
    BY <1>1, <1>2, <1>3, <1>7, <1>8, <1>9 DEF Locking
  <2>2. ASSUME NEW g \in Frames, NEW u \in Threads
        PROVE  pageLocks'[g] = u <=> frame'[u] = g /\ pc'[u] \in InPage
    BY <1>1, <1>7, <1>8, <1>9 DEF Locking, InPage
  <2>3. ASSUME NEW u \in Threads,
               \/ pc'[u] \in InPage \cup {"enterPage"}
               \/ pc'[u] = "enter" /\ region'[u] \in Rescues
        PROVE  frame'[u] \in Frames
    BY <1>1, <1>7, <1>8, <1>9, <2>3 DEF Locking, InPage
  <2> QED  BY <2>1, <2>2, <2>3 DEF Locking
<1>19. Rounds'
  BY <1>1, <1>2, <1>3, <1>7, <1>8, <1>9 DEF Rounds, Threads
<1>20. Hands(home)'
  BY <1>1, <1>2, <1>3, <1>7, <1>8, <1>9 DEF Hands, Threads, MineAt, InHand
<1>21. UserVictims' /\ WriterVictims'
  BY <1>1, <1>2, <1>3, <1>7, <1>8, <1>9
     DEF UserVictims, WriterVictims, Threads, MineAt, InHand, Rescues
<1>22. Statuses(home)'
  <2>1. ASSUME NEW g \in Frames \ {f}
        PROVE  /\ home[g] \in Lists => OfList(word'[g], home[g])
               /\ home[g] = "user" /\ word'[g].status = PFN_MIDWRITE =>
                    /\ region'["user"] = "rescueMidwrite"
                    /\ pc'["user"] \in {"read", "write"}
                    /\ frame'["user"] = g
               /\ home[g] = "trimmer" =>
                    \/ word'[g].status = PFN_ACTIVE
                    \/ /\ word'[g].status = PFN_MODIFIED
                       /\ pc'["trimmer"] = "add" /\ frame'["trimmer"] = g
               /\ home[g] = "writer" =>
                    \/ word'[g].status = PFN_MIDWRITE
                    \/ /\ word'[g].status = PFN_MODIFIED
                       /\ region'["writer"] = "popModified" /\ frame'["writer"] = g
                       /\ pc'["writer"] \in {"enterPage", "read", "write"}
                    \/ /\ word'[g].status = PFN_STANDBY
                       /\ region'["writer"] = "writePage" /\ frame'["writer"] = g
                       /\ pc'["writer"] \in {"readSlot", "writeSlot", "add"}
    BY <1>1, <1>4, <1>7, <1>9, <1>14 DEF Statuses, Threads
  <2>2. home[f] \notin Lists
    BY <1>10 DEF Lists, Threads
  <2>3. /\ home[f] = "user" /\ word'[f].status = PFN_MIDWRITE =>
             /\ region'["user"] = "rescueMidwrite"
             /\ pc'["user"] \in {"read", "write"}
             /\ frame'["user"] = f
        /\ home[f] = "trimmer" =>
             \/ word'[f].status = PFN_ACTIVE
             \/ /\ word'[f].status = PFN_MODIFIED
                /\ pc'["trimmer"] = "add" /\ frame'["trimmer"] = f
        /\ home[f] = "writer" =>
             \/ word'[f].status = PFN_MIDWRITE
             \/ /\ word'[f].status = PFN_MODIFIED
                /\ region'["writer"] = "popModified" /\ frame'["writer"] = f
                /\ pc'["writer"] \in {"enterPage", "read", "write"}
             \/ /\ word'[f].status = PFN_STANDBY
                /\ region'["writer"] = "writePage" /\ frame'["writer"] = f
                /\ pc'["writer"] \in {"readSlot", "writeSlot", "add"}
    BY <1>1, <1>2, <1>3, <1>4, <1>7, <1>8, <1>9, <1>10, <1>12, <1>14, RegionsAre
       DEF Statuses
  <2> QED  BY <2>1, <2>2, <2>3 DEF Statuses
<1>23. Words'
  <2>1. ASSUME NEW u \in Threads
        PROVE  /\ pc'[u] \in {"write", "writeSlot"} => reg'[u] = word'[frame'[u]]
               /\ pc'[u] = "add" => OfList(word'[frame'[u]], ListOf[region'[u]])
    <3>1. CASE u = t
      BY <1>2, <1>3, <1>4, <1>7, <1>8, <1>9, <1>12, <1>14, <3>1 DEF OfList
    <3>2. CASE u # t
      <4>1. pc[u] \in {"write", "writeSlot", "add"} => frame[u] \in Frames \ {f}
        BY <1>1, <1>10, <3>2 DEF Locking, InPage, MineAt, InHand
      <4> QED  BY <1>1, <1>7, <1>9, <1>14, <1>15, <3>2, <4>1 DEF Words
    <3> QED  BY <3>1, <3>2
  <2>2. ASSUME region'["writer"] = "popModified",
               pc'["writer"] \in {"enterPage", "read", "write"}
        PROVE  word'[frame'["writer"]].status = PFN_MODIFIED
    <3>1. t # "writer"
      BY <1>2, <1>3, <1>7, <1>8, <1>9, <2>2
    <3>2. frame["writer"] \in Frames \ {f}
      BY <1>1, <1>7, <1>9, <1>10, <2>2, <3>1 DEF Locking, InPage, MineAt, InHand, Threads
    <3> QED  BY <1>1, <1>7, <1>9, <1>14, <2>2, <3>1, <3>2 DEF Words, Threads
  <2>3. ASSUME region'["writer"] = "writePage",
               pc'["writer"] \in {"readSlot", "writeSlot"}
        PROVE  word'[frame'["writer"]].status = PFN_STANDBY
    <3>1. CASE t = "writer"
      BY <1>2, <1>3, <1>4, <1>7, <1>8, <1>9, <1>12, <1>14, <2>3, <3>1
    <3>2. CASE t # "writer"
      <4>1. frame["writer"] \in Frames \ {f}
        BY <1>1, <1>7, <1>9, <1>10, <2>3, <3>2 DEF Locking, InPage, MineAt, InHand, Threads
      <4> QED  BY <1>1, <1>7, <1>9, <1>14, <2>3, <3>2, <4>1 DEF Words, Threads
    <3> QED  BY <3>1, <3>2
  <2> QED  BY <2>1, <2>2, <2>3 DEF Words
<1> QED  BY <1>9, <1>13, <1>16, <1>17, <1>18, <1>19, <1>20, <1>21, <1>22, <1>23
         DEF LinksInv

LEMMA TakeVictimKeeps ==
  ASSUME NEW F, NEW B, NEW home, LinksInv(F, B, home),
         NEW t \in Threads, TakeVictim(t)
  PROVE  LinksInv(F, B, home)'
<1>1. /\ TypeInv /\ Circles(F, B, home) /\ StoresLead(F, B)
      /\ StoresInside(home) /\ Control /\ Locking /\ Rounds /\ Hands(home)
      /\ UserVictims /\ WriterVictims /\ Statuses(home) /\ Words
  BY DEF LinksInv
<1>2. PICK r : r = region[t]
  OBVIOUS
<1>3. /\ r \in {"addActive", "markVictims", "writePage"} /\ r \in RegionsOf[t]
      /\ pc[t] = "victim"
  BY <1>1, <1>2, RegionAt, StepsAre DEF TakeVictim, At
<1>4. /\ victims[t] # <<>> /\ left[t] \in Nat \ {0}
      /\ r = "markVictims" => left[t] = Len(victims[t])
  <2>1. victims[t] \in Seq(Frames) /\ left[t] \in Nat
    BY <1>1 DEF TypeInv
  <2>2. CASE t = "user"
    BY <1>1, <1>2, <1>3, <2>1, <2>2, RegionsAre DEF UserVictims, Rounds
  <2>3. CASE t = "trimmer"
    <3>1. left[t] > 0 /\ left[t] = Len(victims[t])
      BY <1>1, <1>2, <1>3, <2>3, RegionsAre DEF Rounds
    <3> QED  BY <2>1, <2>3, <3>1, EmptySeq, LenProperties
  <2>4. CASE t = "writer"
    BY <1>1, <1>2, <1>3, <2>1, <2>4, RegionsAre DEF WriterVictims, Rounds
  <2> QED  BY <2>2, <2>3, <2>4 DEF Threads
<1>5. PICK f \in Frames : f = Head(victims[t]) /\ On(victims[t], f)
  BY <1>1, <1>4, PopPage DEF TypeInv
<1>6. /\ GoTo(t, "enterPage")
      /\ frame' = [frame EXCEPT ![t] = f]
      /\ left' = [left EXCEPT ![t] = left[t] - 1]
      /\ UNCHANGED <<Flink, Blink, word, listLock, pageLocks, region, stores,
                     reg, victims>>
  BY <1>1, <1>3, <1>5, ThenGoes DEF TakeVictim, GoTo, links, locks
<1>7. "enterPage" \in StepsOf[r]
  BY <1>3, StepsAre, RegionsAre
<1>8. /\ Control' /\ pc' \in [Threads -> Steps]
      /\ pc'[t] = "enterPage" /\ \A u \in Threads \ {t} : pc'[u] = pc[u]
  BY <1>1, <1>2, <1>6, <1>7, Moves
<1>9. TypeInv'
  <2>1. frame' \in [Threads -> Frames \cup {NoFrame}] /\ left' \in [Threads -> Nat]
    <3>1. left[t] - 1 \in Nat
      BY <1>4
    <3> QED  BY <1>1, <1>6, <3>1 DEF TypeInv
  <2> QED  BY <1>1, <1>6, <1>8, <2>1 DEF TypeInv
<1>10. /\ frame'[t] = f /\ \A u \in Threads \ {t} : frame'[u] = frame[u]
       /\ left'[t] = left[t] - 1 /\ \A u \in Threads \ {t} : left'[u] = left[u]
  BY <1>1, <1>6 DEF TypeInv
<1>11. Circles(F, B, home)' /\ StoresLead(F, B)'
  BY <1>1, <1>6 DEF Circles, StoresLead
<1>12. StoresInside(home)'
  BY <1>1, <1>3, <1>6, <1>8 DEF StoresInside, May
<1>13. Locking'
  <2>1. ASSUME NEW m \in Lists, NEW u \in Threads
        PROVE  listLock'[m] = u <=> /\ region'[u] \in ListRegions
                                    /\ ListOf[region'[u]] = m
                                    /\ pc'[u] # "enter"
    BY <1>1, <1>2, <1>3, <1>6, <1>8 DEF Locking
  <2>2. ASSUME NEW g \in Frames, NEW u \in Threads
        PROVE  pageLocks'[g] = u <=> frame'[u] = g /\ pc'[u] \in InPage
    BY <1>1, <1>3, <1>6, <1>8, <1>10 DEF Locking, InPage
  <2>3. ASSUME NEW u \in Threads,
               \/ pc'[u] \in InPage \cup {"enterPage"}
               \/ pc'[u] = "enter" /\ region'[u] \in Rescues
        PROVE  frame'[u] \in Frames
    BY <1>1, <1>3, <1>6, <1>8, <1>10, <2>3 DEF Locking, InPage
  <2> QED  BY <2>1, <2>2, <2>3 DEF Locking
<1>14. Rounds'
  BY <1>1, <1>2, <1>3, <1>4, <1>5, <1>6, <1>8, <1>10 DEF Rounds, Threads, Rescues
<1>15. Hands(home)'
  <2>1. r # "writePage" => home[f] = t
    BY <1>1, <1>3, <1>5, RegionsAre DEF Hands
  <2> QED  BY <1>1, <1>2, <1>3, <1>6, <1>8, <1>10, <2>1 DEF Hands, Threads, MineAt, InHand
<1>16. UserVictims' /\ WriterVictims'
  <2>1. t = "user" => victims[t] = <<f>>
    <3>1. ASSUME NEW g \in Frames PROVE Head(<<g>>) = g
      OBVIOUS
    <3> QED  BY <1>1, <1>4, <1>5, <3>1 DEF UserVictims
  <2> QED  BY <1>1, <1>2, <1>3, <1>4, <1>6, <1>8, <1>10, <2>1
         DEF UserVictims, WriterVictims, Threads, MineAt, InHand, Rescues
<1>17. Statuses(home)'
  BY <1>1, <1>2, <1>3, <1>6, <1>8, <1>10 DEF Statuses, Threads
<1>18. Words'
  BY <1>1, <1>2, <1>3, <1>6, <1>8, <1>10 DEF Words, Threads
<1> QED  BY <1>8, <1>9, <1>11, <1>12, <1>13, <1>14, <1>15, <1>16, <1>17, <1>18
         DEF LinksInv

LEMMA LookFails ==
  ASSUME NEW F, NEW B, NEW home, LinksInv(F, B, home),
         NEW t \in Threads, SecondLook(t),
         ~ StatusIs(frame[t], OldStatus[region[t]])
  PROVE  LinksInv(F, B, home)'
<1>1. /\ TypeInv /\ Circles(F, B, home) /\ StoresLead(F, B)
      /\ StoresInside(home) /\ Control /\ Locking /\ Rounds /\ Hands(home)
      /\ UserVictims /\ WriterVictims /\ Statuses(home) /\ Words
  BY DEF LinksInv
<1>2. PICK r : r = region[t]
  OBVIOUS
<1>3. /\ r \in Rescues \cup {"writePage"} /\ r \in RegionsOf[t]
      /\ pc[t] = "still"
  BY <1>1, <1>2, RegionAt, StepsAre DEF SecondLook, At
<1>4. /\ GoTo(t, "leavePage")
      /\ UNCHANGED <<Flink, Blink, word, listLock, pageLocks, region, left, stores,
                     frame, reg>>
  BY DEF SecondLook, links, locks
<1>5. "leavePage" \in StepsOf[r]
  BY <1>3, StepsAre, RegionsAre DEF Rescues
<1>6. /\ Control' /\ pc' \in [Threads -> Steps]
      /\ pc'[t] = "leavePage" /\ \A u \in Threads \ {t} : pc'[u] = pc[u]
  BY <1>1, <1>2, <1>4, <1>5, Moves
<1>7. t # "trimmer" /\ (t = "user" => r \in Rescues) /\ (t = "writer" => r = "writePage")
  BY <1>3, RegionsAre DEF Rescues
<1>8. /\ victims' \in [Threads -> Seq(Frames)]
      /\ victims'["user"] = victims["user"]
      /\ victims'["trimmer"] = victims["trimmer"]
      /\ t = "user" => victims'["writer"] = victims["writer"]
  <2>1. victims \in [Threads -> Seq(Frames)]
    BY <1>1 DEF TypeInv
  <2>2. t = "writer" => Tail(victims[t]) \in Seq(Frames)
    BY <1>1, <1>2, <1>3, <1>7, <2>1, PopPage DEF WriterVictims
  <2>3. /\ t = "user" => victims' = victims
        /\ t # "user" => victims' = [victims EXCEPT ![t] = Tail(victims[t])]
    BY DEF SecondLook
  <2> QED  BY <1>7, <2>1, <2>2, <2>3 DEF Threads
<1>9. TypeInv'
  BY <1>1, <1>4, <1>6, <1>8 DEF TypeInv
<1>10. Circles(F, B, home)' /\ StoresLead(F, B)'
  BY <1>1, <1>4 DEF Circles, StoresLead
<1>11. StoresInside(home)'
  BY <1>1, <1>3, <1>4, <1>6 DEF StoresInside, May
<1>12. Locking'
  <2>1. ASSUME NEW m \in Lists, NEW u \in Threads
        PROVE  listLock'[m] = u <=> /\ region'[u] \in ListRegions
                                    /\ ListOf[region'[u]] = m
                                    /\ pc'[u] # "enter"
    BY <1>1, <1>2, <1>3, <1>4, <1>6 DEF Locking
  <2>2. ASSUME NEW g \in Frames, NEW u \in Threads
        PROVE  pageLocks'[g] = u <=> frame'[u] = g /\ pc'[u] \in InPage
    BY <1>1, <1>3, <1>4, <1>6 DEF Locking, InPage
  <2>3. ASSUME NEW u \in Threads,
               \/ pc'[u] \in InPage \cup {"enterPage"}
               \/ pc'[u] = "enter" /\ region'[u] \in Rescues
        PROVE  frame'[u] \in Frames
    BY <1>1, <1>3, <1>4, <1>6, <2>3 DEF Locking, InPage
  <2> QED  BY <2>1, <2>2, <2>3 DEF Locking
<1>13. Rounds'
  BY <1>1, <1>2, <1>3, <1>4, <1>6, <1>7, <1>8 DEF Rounds, Threads
<1>14. Hands(home)'
  BY <1>1, <1>2, <1>3, <1>4, <1>6, <1>7, <1>8 DEF Hands, Threads, MineAt, InHand
<1>15. UserVictims' /\ WriterVictims'
  BY <1>1, <1>2, <1>3, <1>4, <1>6, <1>7, <1>8
     DEF UserVictims, WriterVictims, Threads, MineAt, InHand, Rescues
<1>16. Statuses(home)'
  BY <1>1, <1>2, <1>3, <1>4, <1>6 DEF Statuses, Threads
<1>17. Words'
  BY <1>1, <1>2, <1>3, <1>4, <1>6 DEF Words, Threads
<1> QED  BY <1>6, <1>9, <1>10, <1>11, <1>12, <1>13, <1>14, <1>15, <1>16, <1>17
         DEF LinksInv

(* Where the second look succeeds, the frame is where the status says.     *)
LEMMA LookFinds ==
  ASSUME NEW F, NEW B, NEW home, LinksInv(F, B, home),
         NEW t \in Threads, SecondLook(t),
         StatusIs(frame[t], OldStatus[region[t]])
  PROVE  /\ region[t] \in {"rescueModified", "rescueStandby"} =>
              home[frame[t]] = ListOf[region[t]]
         /\ region[t] \in {"rescueMidwrite", "writePage"} =>
              /\ home[frame[t]] = "writer"
              /\ word[frame[t]].status = PFN_MIDWRITE
<1>1. /\ TypeInv /\ Circles(F, B, home) /\ Control /\ Locking /\ Hands(home)
      /\ UserVictims /\ Statuses(home)
  BY DEF LinksInv
<1>2. PICK r : r = region[t]
  OBVIOUS
<1>3. /\ r \in Rescues \cup {"writePage"} /\ r \in RegionsOf[t]
      /\ pc[t] = "still"
  BY <1>1, <1>2, RegionAt, StepsAre DEF SecondLook, At
<1>4. PICK f \in Frames : f = frame[t]
  BY <1>1, <1>3 DEF Locking, InPage
<1>5. /\ r = "rescueModified" => word[f].status = PFN_MODIFIED
      /\ r = "rescueStandby" => word[f].status = PFN_STANDBY
      /\ r \in {"rescueMidwrite", "writePage"} => word[f].status = PFN_MIDWRITE
  BY <1>2, <1>4 DEF StatusIs, OldStatus
<1>6. home[f] \in Lists \cup Threads
  BY <1>1 DEF Circles, Nodes
<1>7. pageLocks[f] = t
  BY <1>1, <1>3, <1>4 DEF Locking, InPage
<1>8. \A u \in Threads \ {t} : ~ (frame[u] = f /\ pc[u] \in InPage)
  BY <1>1, <1>7 DEF Locking
<1>9. t = "user" => home[f] # "user"
  <2>1. t = "user" => victims["user"] = <<>>
    BY <1>1, <1>2, <1>3, RegionsAre DEF UserVictims, Rescues
  <2>2. ~ On(<<>>, f)
    BY DEF On
  <2> QED  BY <1>1, <2>1, <2>2 DEF Hands
<1>10. CASE r = "rescueModified"
  <2>1. t = "user"
    BY <1>3, <1>10, RegionsAre DEF Threads
  <2>2. ListOf[r] = "modified"
    BY <1>10 DEF ListOf
  <2>3. listLock["modified"] = t
    <3>1. r \in ListRegions
      BY <1>10, RegionsAre DEF ListRegions
    <3>2. "modified" \in Lists
      BY DEF Lists
    <3> QED  BY <1>1, <1>2, <1>3, <2>2, <3>1, <3>2 DEF Locking
  <2>4. ~ (region["writer"] = "popModified" /\ pc["writer"] \in {"enterPage", "read", "write"})
    <3>1. ListOf["popModified"] = "modified"
      BY DEF ListOf
    <3> QED  BY <1>1, <2>1, <2>3, <3>1, RegionsAre DEF Locking, ListRegions, Lists
  <2>5. home[f] \notin Threads
    BY <1>1, <1>5, <1>8, <1>9, <1>10, <2>1, <2>4
       DEF Statuses, Threads, InPage, PFN_ACTIVE, PFN_MODIFIED, PFN_STANDBY,
           PFN_MIDWRITE
  <2>6. word[f].status = StatusOfList[home[f]] /\ home[f] \in Lists
    BY <1>1, <1>6, <2>5 DEF Statuses, OfList
  <2> QED  BY <1>2, <1>4, <1>5, <1>10, <2>2, <2>6
           DEF StatusOfList, Lists, PFN_ACTIVE, PFN_MODIFIED, PFN_STANDBY, PFN_FREE
<1>11. CASE r = "rescueStandby"
  <2>1. t = "user" /\ ListOf[r] = "standby"
    BY <1>3, <1>11, RegionsAre DEF Threads, ListOf
  <2>2. home[f] \notin Threads
    BY <1>1, <1>5, <1>8, <1>9, <1>11, <2>1
       DEF Statuses, Threads, InPage, PFN_ACTIVE, PFN_MODIFIED, PFN_STANDBY,
           PFN_MIDWRITE
  <2>3. word[f].status = StatusOfList[home[f]] /\ home[f] \in Lists
    BY <1>1, <1>6, <2>2 DEF Statuses, OfList
  <2> QED  BY <1>2, <1>4, <1>5, <1>11, <2>1, <2>3
           DEF StatusOfList, Lists, PFN_ACTIVE, PFN_MODIFIED, PFN_STANDBY, PFN_FREE
<1>12. CASE r \in {"rescueMidwrite", "writePage"}
  <2>1. home[f] \notin Lists
    <3>1. home[f] \in Lists => word[f].status = StatusOfList[home[f]]
      BY <1>1 DEF Statuses, OfList
    <3> QED  BY <1>5, <1>12, <3>1
             DEF StatusOfList, Lists, PFN_ACTIVE, PFN_MODIFIED, PFN_STANDBY,
                 PFN_FREE, PFN_MIDWRITE
  <2>2. home[f] # "trimmer"
    BY <1>1, <1>5, <1>12 DEF Statuses, PFN_ACTIVE, PFN_MODIFIED, PFN_MIDWRITE
  <2>3. home[f] # "user"
    BY <1>1, <1>5, <1>8, <1>9, <1>12 DEF Statuses, InPage, Threads
  <2> QED  BY <1>2, <1>4, <1>5, <1>6, <1>12, <2>1, <2>2, <2>3 DEF Threads
<1> QED  BY <1>2, <1>3, <1>10, <1>11, <1>12 DEF Rescues

LEMMA OnOne == ASSUME NEW f, NEW g PROVE On(<<f>>, g) <=> g = f
BY DEF On

LEMMA OnNone == ASSUME NEW g PROVE ~ On(<<>>, g)
BY DEF On

LEMMA RescueLooks ==
  ASSUME NEW F, NEW B, NEW home, LinksInv(F, B, home),
         NEW t \in Threads, SecondLook(t),
         StatusIs(frame[t], OldStatus[region[t]]),
         region[t] \in {"rescueModified", "rescueStandby"}
  PROVE  LinksInv(F, B, home)'
<1>1. /\ TypeInv /\ Circles(F, B, home) /\ StoresLead(F, B)
      /\ StoresInside(home) /\ Control /\ Locking /\ Rounds /\ Hands(home)
      /\ UserVictims /\ WriterVictims /\ Statuses(home) /\ Words
  BY DEF LinksInv
<1>2. PICK r : r = region[t]
  OBVIOUS
<1>3. /\ r \in {"rescueModified", "rescueStandby"} /\ r \in RegionsOf[t] /\ pc[t] = "still"
  BY <1>1, <1>2, RegionAt, StepsAre DEF SecondLook, At
<1>4. PICK f \in Frames : f = frame[t]
  BY <1>1, <1>3 DEF Locking, InPage
<1>5. t = "user"
  BY <1>3, RegionsAre DEF Threads
<1>6. /\ GoTo(t, "remove")
      /\ victims' = [victims EXCEPT !["user"] = <<f>>]
      /\ UNCHANGED <<Flink, Blink, word, listLock, pageLocks, region, left, stores,
                     frame, reg>>
  BY <1>1, <1>2, <1>3, <1>4, <1>5, ThenGoes
     DEF SecondLook, links, locks, GoTo, AfterStill
<1>7. "remove" \in StepsOf[r]
  BY <1>3, StepsAre, RegionsAre
<1>8. /\ Control' /\ pc' \in [Threads -> Steps]
      /\ pc'[t] = "remove" /\ \A u \in Threads \ {t} : pc'[u] = pc[u]
  BY <1>1, <1>2, <1>6, <1>7, Moves
<1>9. /\ victims' \in [Threads -> Seq(Frames)]
      /\ victims'["user"] = <<f>> /\ victims["user"] = <<>>
      /\ victims'["trimmer"] = victims["trimmer"]
      /\ victims'["writer"] = victims["writer"]
  BY <1>1, <1>2, <1>3, <1>5, <1>6 DEF TypeInv, UserVictims, Rescues, Threads
<1>10. TypeInv'
  BY <1>1, <1>6, <1>8, <1>9 DEF TypeInv
<1>11. Circles(F, B, home)' /\ StoresLead(F, B)'
  BY <1>1, <1>6 DEF Circles, StoresLead
<1>12. StoresInside(home)'
  BY <1>1, <1>3, <1>6, <1>8 DEF StoresInside, May
<1>13. Locking'
  <2>1. ASSUME NEW m \in Lists, NEW u \in Threads
        PROVE  listLock'[m] = u <=> /\ region'[u] \in ListRegions
                                    /\ ListOf[region'[u]] = m
                                    /\ pc'[u] # "enter"
    BY <1>1, <1>2, <1>3, <1>6, <1>8 DEF Locking
  <2>2. ASSUME NEW g \in Frames, NEW u \in Threads
        PROVE  pageLocks'[g] = u <=> frame'[u] = g /\ pc'[u] \in InPage
    BY <1>1, <1>3, <1>6, <1>8 DEF Locking, InPage
  <2>3. ASSUME NEW u \in Threads,
               \/ pc'[u] \in InPage \cup {"enterPage"}
               \/ pc'[u] = "enter" /\ region'[u] \in Rescues
        PROVE  frame'[u] \in Frames
    BY <1>1, <1>3, <1>6, <1>8, <2>3 DEF Locking, InPage
  <2> QED  BY <2>1, <2>2, <2>3 DEF Locking
<1>14. Rounds'
  BY <1>1, <1>2, <1>3, <1>5, <1>6, <1>8, <1>9 DEF Rounds, Threads
<1>15. Hands(home)'
  <2>1. home[f] = ListOf[r]
    BY <1>2, <1>4, LookFinds
  <2>2. \A g \in Frames : home[g] # "user"
    BY <1>1, <1>9, OnNone DEF Hands
  <2> QED  BY <1>1, <1>2, <1>3, <1>4, <1>5, <1>6, <1>8, <1>9, <2>1, <2>2
           DEF Hands, Threads, MineAt, InHand
<1>16. UserVictims' /\ WriterVictims'
  BY <1>1, <1>2, <1>3, <1>4, <1>5, <1>6, <1>8, <1>9
     DEF UserVictims, WriterVictims, Threads, MineAt, InHand, Rescues
<1>17. Statuses(home)'
  BY <1>1, <1>2, <1>3, <1>6, <1>8 DEF Statuses, Threads
<1>18. Words'
  BY <1>1, <1>2, <1>3, <1>6, <1>8 DEF Words, Threads
<1> QED  BY <1>8, <1>10, <1>11, <1>12, <1>13, <1>14, <1>15, <1>16, <1>17, <1>18
         DEF LinksInv

LEMMA WriterLooks ==
  ASSUME NEW F, NEW B, NEW home, LinksInv(F, B, home),
         NEW t \in Threads, SecondLook(t),
         StatusIs(frame[t], OldStatus[region[t]]), region[t] = "writePage"
  PROVE  LinksInv(F, B, home)'
<1>1. /\ TypeInv /\ Circles(F, B, home) /\ StoresLead(F, B)
      /\ StoresInside(home) /\ Control /\ Locking /\ Rounds /\ Hands(home)
      /\ UserVictims /\ WriterVictims /\ Statuses(home) /\ Words
  BY DEF LinksInv
<1>2. PICK r : r = region[t]
  OBVIOUS
<1>3. /\ r = "writePage" /\ r \in RegionsOf[t] /\ pc[t] = "still"
  BY <1>1, <1>2, RegionAt, StepsAre DEF SecondLook, At
<1>4. PICK f \in Frames : f = frame[t]
  BY <1>1, <1>3 DEF Locking, InPage
<1>5. t = "writer"
  BY <1>3, RegionsAre DEF Threads
<1>6. /\ GoTo(t, "read")
      /\ UNCHANGED <<Flink, Blink, word, listLock, pageLocks, region, left, stores,
                     frame, reg, victims>>
  BY <1>1, <1>2, <1>3, <1>4, <1>5, ThenGoes
     DEF SecondLook, links, locks, GoTo, AfterStill
<1>7. "read" \in StepsOf[r]
  BY <1>3, StepsAre, RegionsAre
<1>8. /\ Control' /\ pc' \in [Threads -> Steps]
      /\ pc'[t] = "read" /\ \A u \in Threads \ {t} : pc'[u] = pc[u]
  BY <1>1, <1>2, <1>6, <1>7, Moves
<1>9. TypeInv'
  BY <1>1, <1>6, <1>8 DEF TypeInv
<1>10. Circles(F, B, home)' /\ StoresLead(F, B)'
  BY <1>1, <1>6 DEF Circles, StoresLead
<1>11. StoresInside(home)'
  BY <1>1, <1>3, <1>6, <1>8 DEF StoresInside, May
<1>12. Locking'
  <2>1. ASSUME NEW m \in Lists, NEW u \in Threads
        PROVE  listLock'[m] = u <=> /\ region'[u] \in ListRegions
                                    /\ ListOf[region'[u]] = m
                                    /\ pc'[u] # "enter"
    BY <1>1, <1>2, <1>3, <1>6, <1>8 DEF Locking
  <2>2. ASSUME NEW g \in Frames, NEW u \in Threads
        PROVE  pageLocks'[g] = u <=> frame'[u] = g /\ pc'[u] \in InPage
    BY <1>1, <1>3, <1>6, <1>8 DEF Locking, InPage
  <2>3. ASSUME NEW u \in Threads,
               \/ pc'[u] \in InPage \cup {"enterPage"}
               \/ pc'[u] = "enter" /\ region'[u] \in Rescues
        PROVE  frame'[u] \in Frames
    BY <1>1, <1>3, <1>6, <1>8, <2>3 DEF Locking, InPage
  <2> QED  BY <2>1, <2>2, <2>3 DEF Locking
<1>13. Rounds'
  BY <1>1, <1>2, <1>3, <1>5, <1>6, <1>8 DEF Rounds, Threads
<1>14. Hands(home)'
  <2>1. home[f] = "writer"
    BY <1>2, <1>3, <1>4, LookFinds
  <2> QED  BY <1>1, <1>2, <1>3, <1>4, <1>5, <1>6, <1>8, <2>1
           DEF Hands, Threads, MineAt, InHand
<1>15. UserVictims' /\ WriterVictims'
  BY <1>1, <1>2, <1>3, <1>5, <1>6, <1>8
     DEF UserVictims, WriterVictims, Threads, MineAt, InHand, Rescues
<1>16. Statuses(home)'
  BY <1>1, <1>2, <1>3, <1>6, <1>8 DEF Statuses, Threads
<1>17. Words'
  BY <1>1, <1>2, <1>3, <1>5, <1>6, <1>8 DEF Words, Threads
<1> QED  BY <1>8, <1>9, <1>10, <1>11, <1>12, <1>13, <1>14, <1>15, <1>16, <1>17
         DEF LinksInv

(* The user thread takes the frame from the writer's hands into its own.   *)
LEMMA MidwriteLooks ==
  ASSUME NEW F, NEW B, NEW home, LinksInv(F, B, home),
         NEW t \in Threads, SecondLook(t),
         StatusIs(frame[t], OldStatus[region[t]]), region[t] = "rescueMidwrite"
  PROVE  \E home2 : LinksInv(F, B, home2)'
<1>1. /\ TypeInv /\ Circles(F, B, home) /\ StoresLead(F, B)
      /\ StoresInside(home) /\ Control /\ Locking /\ Rounds /\ Hands(home)
      /\ UserVictims /\ WriterVictims /\ Statuses(home) /\ Words
  BY DEF LinksInv
<1>2. PICK r : r = region[t]
  OBVIOUS
<1>3. /\ r = "rescueMidwrite" /\ r \in RegionsOf[t] /\ pc[t] = "still"
  BY <1>1, <1>2, RegionAt, StepsAre DEF SecondLook, At
<1>4. PICK f \in Frames : f = frame[t]
  BY <1>1, <1>3 DEF Locking, InPage
<1>5. t = "user"
  BY <1>3, RegionsAre DEF Threads
<1>6. /\ GoTo(t, "read")
      /\ victims' = [victims EXCEPT !["user"] = <<f>>]
      /\ UNCHANGED <<Flink, Blink, word, listLock, pageLocks, region, left, stores,
                     frame, reg>>
  BY <1>1, <1>2, <1>3, <1>4, <1>5, ThenGoes
     DEF SecondLook, links, locks, GoTo, AfterStill
<1>7. "read" \in StepsOf[r]
  BY <1>3, StepsAre, RegionsAre
<1>8. /\ Control' /\ pc' \in [Threads -> Steps]
      /\ pc'[t] = "read" /\ \A u \in Threads \ {t} : pc'[u] = pc[u]
  BY <1>1, <1>2, <1>6, <1>7, Moves
<1>9. /\ victims' \in [Threads -> Seq(Frames)]
      /\ victims'["user"] = <<f>> /\ victims["user"] = <<>>
      /\ victims'["trimmer"] = victims["trimmer"]
      /\ victims'["writer"] = victims["writer"]
  BY <1>1, <1>2, <1>3, <1>5, <1>6 DEF TypeInv, UserVictims, Rescues, Threads
<1>10. TypeInv'
  BY <1>1, <1>6, <1>8, <1>9 DEF TypeInv
<1>11. home[f] = "writer" /\ word[f].status = PFN_MIDWRITE
  BY <1>2, <1>3, <1>4, LookFinds
<1>12. \A g \in Frames : home[g] # "user"
  BY <1>1, <1>9, OnNone DEF Hands
<1>13. PICK home2 : home2 = [home EXCEPT ![f] = "user"]
  OBVIOUS
<1>14. /\ home \in [Nodes -> Lists \cup Threads] /\ f \in Nodes
       /\ home2 \in [Nodes -> Lists \cup Threads] /\ home2[f] = "user"
       /\ \A n \in Nodes \ {f} : home2[n] = home[n]
       /\ f \notin Lists
  BY <1>1, <1>11, <1>13 DEF Circles, Nodes, Threads, Lists
<1>15. Circles(F, B, home2)'
  <2>1. ASSUME NEW n \in Nodes, home2[n] \in Lists
        PROVE  home2[F[n]] = home2[n]
    BY <1>1, <1>11, <1>14, <2>1 DEF Circles, Lists, Threads
  <2>2. ASSUME NEW n \in Nodes, home2[n] \in Threads
        PROVE  F[n] = n
    BY <1>1, <1>11, <1>14, <2>2 DEF Circles, Threads
  <2>3. \A l \in Lists : home2[l] = l
    BY <1>1, <1>14 DEF Circles, Nodes
  <2> QED  BY <1>1, <1>14, <2>1, <2>2, <2>3 DEF Circles
<1>16. StoresLead(F, B)'
  BY <1>1, <1>6 DEF StoresLead
<1>17. StoresInside(home2)'
  <2>1. ASSUME NEW u \in Threads, NEW s \in ToSet(stores[u])
        PROVE  s.node # f /\ s.node \in Nodes
    <3>1. s.node \in Nodes
      BY <1>1, StoreIs
    <3>2. ASSUME s.node = f PROVE u = "writer"
      BY <1>1, <1>11, <3>2 DEF StoresInside, May, Lists
    <3>3. ASSUME s.node = f PROVE FALSE
      BY <1>1, <1>11, <3>2, <3>3 DEF StoresInside, PFN_MIDWRITE, PFN_MODIFIED
    <3> QED  BY <3>1, <3>3
  <2>2. ASSUME NEW u \in Threads, NEW s \in ToSet(stores[u])
        PROVE  May(u, home[s.node]) /\ home2[s.node] = home[s.node]
    BY <1>1, <1>14, <2>1 DEF StoresInside
  <2>3. ASSUME NEW s \in ToSet(stores["writer"])
        PROVE  home2[s.node] = "writer" => word[s.node].status = PFN_MODIFIED
    BY <1>1, <2>2 DEF StoresInside, Threads
  <2> QED  BY <1>1, <1>3, <1>6, <1>8, <2>2, <2>3 DEF StoresInside, May
<1>18. Locking'
  <2>1. ASSUME NEW m \in Lists, NEW u \in Threads
        PROVE  listLock'[m] = u <=> /\ region'[u] \in ListRegions
                                    /\ ListOf[region'[u]] = m
                                    /\ pc'[u] # "enter"
    BY <1>1, <1>2, <1>3, <1>6, <1>8 DEF Locking
  <2>2. ASSUME NEW g \in Frames, NEW u \in Threads
        PROVE  pageLocks'[g] = u <=> frame'[u] = g /\ pc'[u] \in InPage
    BY <1>1, <1>3, <1>6, <1>8 DEF Locking, InPage
  <2>3. ASSUME NEW u \in Threads,
               \/ pc'[u] \in InPage \cup {"enterPage"}
               \/ pc'[u] = "enter" /\ region'[u] \in Rescues
        PROVE  frame'[u] \in Frames
    BY <1>1, <1>3, <1>6, <1>8, <2>3 DEF Locking, InPage
  <2> QED  BY <2>1, <2>2, <2>3 DEF Locking
<1>19. Rounds'
  BY <1>1, <1>2, <1>3, <1>5, <1>6, <1>8, <1>9 DEF Rounds, Threads
<1>20. Hands(home2)'
  <2>1. ASSUME NEW u \in Threads, pc'[u] \in MineAt(region'[u])
        PROVE  home2[frame'[u]] = u
    <3>1. CASE u = t
      BY <1>4, <1>5, <1>6, <1>14, <3>1
    <3>2. CASE u # t
      <4>0. pc[u] \in MineAt(region[u])
        BY <1>6, <1>8, <2>1, <3>2
      <4>1. home[frame[u]] = u /\ frame[u] \in Frames /\ u # "user"
        <5>1. home[frame[u]] = u
          BY <1>1, <4>0 DEF Hands
        <5>2. pc[u] \in InPage \cup {"enterPage"}
          BY <4>0 DEF MineAt, InHand, InPage
        <5>3. frame[u] \in Frames
          BY <1>1, <5>2 DEF Locking
        <5> QED  BY <1>5, <3>2, <5>1, <5>3
      <4>2. frame[u] # f
        <5>1. ASSUME frame[u] = f PROVE FALSE
          <6>1. u = "writer"
            BY <1>11, <4>1, <5>1
          <6>2. pc[u] \notin InPage
            BY <1>1, <1>3, <1>4, <3>2, <5>1 DEF Locking, InPage
          <6>3. pc[u] = "enterPage" /\ region[u] = "popModified"
            BY <1>1, <1>6, <1>8, <2>1, <3>2, <6>1, <6>2, RegionAt, RegionsAre
               DEF MineAt, InHand, InPage, Threads
          <6> QED  BY <1>1, <1>11, <5>1, <6>1, <6>3 DEF Words, PFN_MIDWRITE, PFN_MODIFIED
        <5> QED  BY <5>1
      <4> QED  BY <1>6, <1>14, <4>1, <4>2 DEF Nodes
    <3> QED  BY <3>1, <3>2
  <2>2. ASSUME NEW g \in Frames
        PROVE  /\ home2[g] = "user" <=> On(victims'["user"], g) /\ pc'["user"] # "remove"
               /\ home2[g] = "trimmer" <=> On(victims'["trimmer"], g)
    <3>1. On(victims'["user"], g) <=> g = f
      BY <1>9, OnOne
    <3>2. home[g] = "trimmer" <=> On(victims'["trimmer"], g)
      BY <1>1, <1>9 DEF Hands
    <3>3. g # f => home2[g] = home[g]
      BY <1>14 DEF Nodes
    <3> QED  BY <1>5, <1>8, <1>11, <1>12, <1>14, <3>1, <3>2, <3>3
  <2> QED  BY <1>1, <1>5, <1>8, <1>9, <2>1, <2>2 DEF Hands
<1>21. UserVictims' /\ WriterVictims'
  BY <1>1, <1>2, <1>3, <1>4, <1>5, <1>6, <1>8, <1>9
     DEF UserVictims, WriterVictims, Threads, MineAt, InHand, Rescues
<1>22. Statuses(home2)'
  <2>1. \A g \in Frames \ {f} : home2[g] = home[g]
    BY <1>14 DEF Nodes
  <2>2. "user" \notin Lists
    BY DEF Lists
  <2> QED  BY <1>1, <1>2, <1>3, <1>4, <1>5, <1>6, <1>8, <1>12, <1>14, <2>1, <2>2
           DEF Statuses, Threads
<1>23. Words'
  BY <1>1, <1>2, <1>3, <1>5, <1>6, <1>8 DEF Words, Threads
<1>24. LinksInv(F, B, home2)'
  BY <1>8, <1>10, <1>15, <1>16, <1>17, <1>18, <1>19, <1>20, <1>21, <1>22, <1>23
     DEF LinksInv
<1> QED  BY <1>24
------------------------------------------------------------------------------
(* Stores to links.                                                        *)

LEMMA FirstStore ==
  ASSUME NEW S, NEW q \in Seq(S), q # <<>>
  PROVE  /\ Head(q) \in ToSet(q) /\ Tail(q) \in Seq(S)
         /\ \A x : x \in ToSet(q) <=> x = Head(q) \/ x \in ToSet(Tail(q))
<1>1. \A s, x : x \in ToSet(s) <=> On(s, x)
  BY DEF ToSet, On
<1> QED  BY <1>1, PopPage

LEMMA StoreLinkKeeps ==
  ASSUME NEW F, NEW B, NEW home, LinksInv(F, B, home),
         NEW t \in Threads, StoreLink(t)
  PROVE  LinksInv(F, B, home)'
<1>1. /\ TypeInv /\ Circles(F, B, home) /\ StoresLead(F, B)
      /\ StoresInside(home) /\ Control /\ Locking /\ Rounds /\ Hands(home)
      /\ UserVictims /\ WriterVictims /\ Statuses(home) /\ Words
  BY DEF LinksInv
<1>2. PICK r : r = region[t]
  OBVIOUS
<1>3. PICK s : s = Head(stores[t])
  OBVIOUS
<1>4. /\ stores[t] \in Seq(Stores) /\ stores[t] # <<>>
      /\ s \in ToSet(stores[t]) /\ Tail(stores[t]) \in Seq(Stores)
      /\ \A x : x \in ToSet(stores[t]) <=> x = s \/ x \in ToSet(Tail(stores[t]))
  BY <1>1, <1>3, FirstStore DEF TypeInv, StoreLink
<1>5. /\ s.node \in Nodes /\ s.value \in Nodes
      /\ s.field = "Flink" \/ s.field = "Blink"
  BY <1>1, <1>4, StoreIs
<1>6. /\ stores' = [stores EXCEPT ![t] = Tail(stores[t])]
      /\ UNCHANGED <<word, listLock, pageLocks, region, pc, left, frame, reg, victims>>
  BY DEF StoreLink, locks, local
<1>7. /\ s.field = "Flink" =>
           Flink' = [Flink EXCEPT ![s.node] = s.value] /\ Blink' = Blink
      /\ s.field = "Blink" =>
           Blink' = [Blink EXCEPT ![s.node] = s.value] /\ Flink' = Flink
  BY <1>3 DEF StoreLink
<1>8. TypeInv'
  <2>1. stores' \in [Threads -> Seq(Stores)]
    BY <1>1, <1>4, <1>6 DEF TypeInv
  <2>2. Flink' \in [Nodes -> Nodes] /\ Blink' \in [Nodes -> Nodes]
    BY <1>1, <1>5, <1>7 DEF TypeInv
  <2> QED  BY <1>1, <1>6, <2>1, <2>2 DEF TypeInv
<1>9. /\ \A x : x \in ToSet(stores[t]) <=> x = s \/ x \in ToSet(stores'[t])
      /\ \A u \in Threads \ {t} : stores'[u] = stores[u]
      /\ \A u \in Threads : \A x \in ToSet(stores'[u]) : x \in ToSet(stores[u])
  <2>1. stores'[t] = Tail(stores[t]) /\ \A u \in Threads \ {t} : stores'[u] = stores[u]
    BY <1>1, <1>6 DEF TypeInv
  <2> QED  BY <1>4, <2>1
<1>10. Circles(F, B, home)'
  BY <1>1 DEF Circles
<1>11. StoresLead(F, B)'
  <2>1. s.value = IF s.field = "Flink" THEN F[s.node] ELSE B[s.node]
    BY <1>1, <1>4 DEF StoresLead
  <2>2. ASSUME NEW u \in Threads, NEW x \in ToSet(stores'[u])
        PROVE  x.value = IF x.field = "Flink" THEN F[x.node] ELSE B[x.node]
    BY <1>1, <1>9 DEF StoresLead
  <2>3. ASSUME NEW n \in Nodes
        PROVE  Flink'[n] = F[n] \/ \E u \in Threads : \E x \in ToSet(stores'[u]) :
                                    x.node = n /\ x.field = "Flink"
    <3>1. CASE s.field = "Flink" /\ s.node = n
      BY <1>1, <1>5, <1>7, <2>1, <3>1 DEF TypeInv
    <3>2. CASE ~ (s.field = "Flink" /\ s.node = n)
      <4>1. Flink'[n] = Flink[n]
        BY <1>1, <1>5, <1>7, <3>2 DEF TypeInv
      <4>2. ASSUME NEW u \in Threads, NEW x \in ToSet(stores[u]),
                   x.node = n, x.field = "Flink"
            PROVE  x \in ToSet(stores'[u])
        BY <1>9, <3>2, <4>2
      <4> QED  BY <1>1, <4>1, <4>2 DEF StoresLead
    <3> QED  BY <3>1, <3>2
  <2>4. ASSUME NEW n \in Nodes
        PROVE  Blink'[n] = B[n] \/ \E u \in Threads : \E x \in ToSet(stores'[u]) :
                                    x.node = n /\ x.field = "Blink"
    <3>1. CASE s.field = "Blink" /\ s.node = n
      BY <1>1, <1>5, <1>7, <2>1, <3>1 DEF TypeInv
    <3>2. CASE ~ (s.field = "Blink" /\ s.node = n)
      <4>1. Blink'[n] = Blink[n]
        BY <1>1, <1>5, <1>7, <3>2 DEF TypeInv
      <4>2. ASSUME NEW u \in Threads, NEW x \in ToSet(stores[u]),
                   x.node = n, x.field = "Blink"
            PROVE  x \in ToSet(stores'[u])
        BY <1>9, <3>2, <4>2
      <4> QED  BY <1>1, <4>1, <4>2 DEF StoresLead
    <3> QED  BY <3>1, <3>2
  <2> QED  BY <2>2, <2>3, <2>4 DEF StoresLead
<1>12. StoresInside(home)'
  <2>1. \A u \in Threads : pc'[u] = "idle" => stores'[u] = <<>>
    BY <1>1, <1>4, <1>6, <1>9 DEF StoresInside
  <2>2. ASSUME NEW u \in Threads, NEW x \in ToSet(stores'[u])
        PROVE  May(u, home[x.node])'
    BY <1>1, <1>6, <1>9 DEF StoresInside, May
  <2>3. ASSUME NEW x \in ToSet(stores'["writer"]), home[x.node] = "writer"
        PROVE  word'[x.node].status = PFN_MODIFIED
    BY <1>1, <1>6, <1>9, <2>3 DEF StoresInside, Threads
  <2> QED  BY <2>1, <2>2, <2>3 DEF StoresInside
<1>13. Control' /\ Locking'
  BY <1>1, <1>6 DEF Control, Locking
<1>14. Rounds' /\ Hands(home)'
  BY <1>1, <1>6 DEF Rounds, Hands
<1>15. UserVictims' /\ WriterVictims'
  BY <1>1, <1>6 DEF UserVictims, WriterVictims
<1>16. Statuses(home)'
  BY <1>1, <1>6 DEF Statuses
<1>17. Words'
  BY <1>1, <1>6 DEF Words
<1> QED  BY <1>8, <1>10, <1>11, <1>12, <1>13, <1>14, <1>15, <1>16, <1>17
         DEF LinksInv

(* At a node it may store to, a thread without pending stores reads the    *)
(* links as they will be.                                                  *)
LEMMA OwnLinks ==
  ASSUME NEW F, NEW B, NEW home, TypeInv, Circles(F, B, home), StoresLead(F, B),
         StoresInside(home), NEW t \in Threads, stores[t] = <<>>,
         NEW n \in Nodes, May(t, home[n])
  PROVE  Flink[n] = F[n] /\ Blink[n] = B[n]
<1>1. ASSUME NEW u \in Threads, NEW s \in ToSet(stores[u]), s.node = n
      PROVE  FALSE
  <2>1. u # t
    BY <1>1, StoreIs
  <2>2. May(u, home[n])
    BY <1>1 DEF StoresInside
  <2> QED  BY <2>1, <2>2 DEF May, Lists, Threads
<1> QED  BY <1>1 DEF StoresLead

(* A thread that has made all its stores may make new ones, q, to nodes X. *)
Changes(t, X, q, F, B, home, F2, B2, home2) ==
  /\ X \subseteq Nodes
  /\ \A n \in X : May(t, home[n]) /\ May(t, home2[n])
  /\ \A n \in Nodes \ X : F2[n] = F[n] /\ B2[n] = B[n] /\ home2[n] = home[n]
  /\ \A s \in ToSet(q) :
       /\ s.node \in X
       /\ s.value = IF s.field = "Flink" THEN F2[s.node] ELSE B2[s.node]
  /\ \A n \in X :
       /\ F2[n] = F[n] \/ \E s \in ToSet(q) : s.node = n /\ s.field = "Flink"
       /\ B2[n] = B[n] \/ \E s \in ToSet(q) : s.node = n /\ s.field = "Blink"
  /\ t = "writer" => \A s \in ToSet(q) :
       home2[s.node] = "writer" => word[s.node].status = PFN_MODIFIED

LEMMA NewStores ==
  ASSUME NEW F, NEW B, NEW home, TypeInv, Circles(F, B, home), StoresLead(F, B),
         StoresInside(home),
         NEW F2, NEW B2, NEW home2, NEW t \in Threads, stores[t] = <<>>,
         NEW X, NEW q, Changes(t, X, q, F, B, home, F2, B2, home2),
         stores' = [stores EXCEPT ![t] = q],
         UNCHANGED <<Flink, Blink, word, listLock>>,
         pc'[t] # "idle", \A u \in Threads \ {t} : pc'[u] = pc[u]
  PROVE  StoresLead(F2, B2)' /\ StoresInside(home2)'
<1> USE DEF Changes
<1>1. stores'[t] = q /\ \A u \in Threads \ {t} : stores'[u] = stores[u]
  BY DEF TypeInv
<1>2. ASSUME NEW u \in Threads \ {t}, NEW s \in ToSet(stores[u])
      PROVE  s.node \in Nodes \ X
  <2>1. s.node \in Nodes
    BY StoreIs
  <2>2. May(u, home[s.node])
    BY DEF StoresInside
  <2> QED  BY <2>1, <2>2 DEF May, Lists, Threads
<1>3. StoresLead(F2, B2)'
  <2>1. ASSUME NEW u \in Threads, NEW s \in ToSet(stores'[u])
        PROVE  s.value = IF s.field = "Flink" THEN F2[s.node] ELSE B2[s.node]
    <3>1. CASE u = t
      BY <1>1, <2>1, <3>1
    <3>2. CASE u # t
      BY <1>1, <1>2, <2>1, <3>2 DEF StoresLead
    <3> QED  BY <3>1, <3>2
  <2>2. ASSUME NEW n \in Nodes
        PROVE  /\ Flink[n] = F2[n] \/ \E u \in Threads : \E s \in ToSet(stores'[u]) :
                                      s.node = n /\ s.field = "Flink"
               /\ Blink[n] = B2[n] \/ \E u \in Threads : \E s \in ToSet(stores'[u]) :
                                      s.node = n /\ s.field = "Blink"
    <3>1. /\ Flink[n] = F[n] \/ \E u \in Threads : \E s \in ToSet(stores'[u]) :
                                  s.node = n /\ s.field = "Flink"
          /\ Blink[n] = B[n] \/ \E u \in Threads : \E s \in ToSet(stores'[u]) :
                                  s.node = n /\ s.field = "Blink"
      <4>1. \A s : s \notin ToSet(stores[t])
        BY DEF ToSet
      <4> QED  BY <1>1, <4>1 DEF StoresLead
    <3>2. CASE n \in X
      BY <1>1, <3>1, <3>2
    <3>3. CASE n \notin X
      BY <3>1, <3>3
    <3> QED  BY <3>2, <3>3
  <2> QED  BY <2>1, <2>2 DEF StoresLead
<1>4. StoresInside(home2)'
  <2>1. ASSUME NEW u \in Threads, NEW s \in ToSet(stores'[u])
        PROVE  May(u, home2[s.node])'
    <3>1. CASE u = t
      BY <1>1, <2>1, <3>1 DEF May
    <3>2. CASE u # t
      BY <1>1, <1>2, <2>1, <3>2 DEF StoresInside, May
    <3> QED  BY <3>1, <3>2
  <2>2. ASSUME NEW s \in ToSet(stores'["writer"]), home2[s.node] = "writer"
        PROVE  word'[s.node].status = PFN_MODIFIED
    <3>1. CASE t = "writer"
      BY <1>1, <2>2, <3>1
    <3>2. CASE t # "writer"
      BY <1>1, <1>2, <2>2, <3>2 DEF StoresInside, Threads
    <3> QED  BY <3>1, <3>2
  <2>3. \A u \in Threads : pc'[u] = "idle" => stores'[u] = <<>>
    BY <1>1 DEF StoresInside
  <2> QED  BY <2>1, <2>2, <2>3 DEF StoresInside
<1> QED  BY <1>3, <1>4

(* The entry before another is on the same list.                           *)
LEMMA Back ==
  ASSUME NEW F, NEW B, NEW home, Circles(F, B, home), NEW n \in Nodes,
         home[n] \in Lists
  PROVE  B[n] \in Nodes /\ home[B[n]] = home[n]
BY DEF Circles, Lists, Threads

(* Unlinking a frame leaves circles ...                                    *)
LEMMA Unlinked ==
  ASSUME NEW F, NEW B, NEW home, Circles(F, B, home),
         NEW F2 \in [Nodes -> Nodes], NEW B2 \in [Nodes -> Nodes],
         NEW home2 \in [Nodes -> Lists \cup Threads],
         NEW x \in Nodes \ Lists, home[x] \in Lists,
         NEW t \in Threads,
         F2[B[x]] = F[x], F2[x] = x, \A n \in Nodes \ {B[x], x} : F2[n] = F[n],
         B2[F[x]] = B[x], B2[x] = x, \A n \in Nodes \ {F[x], x} : B2[n] = B[n],
         home2[x] = t, \A n \in Nodes \ {x} : home2[n] = home[n]
  PROVE  Circles(F2, B2, home2)
<1>1. /\ F \in [Nodes -> Nodes] /\ B \in [Nodes -> Nodes]
      /\ home \in [Nodes -> Lists \cup Threads]
      /\ \A n \in Nodes : B[F[n]] = n /\ F[B[n]] = n
      /\ \A l \in Lists : home[l] = l
      /\ \A n \in Nodes : home[n] \in Lists => home[F[n]] = home[n]
      /\ \A n \in Nodes : home[n] \in Threads => F[n] = n
  BY DEF Circles
<1>2. F[x] \in Nodes /\ B[x] \in Nodes /\ B[F[x]] = x /\ F[B[x]] = x
  BY <1>1
<1>3. /\ \A m, n \in Nodes : F[m] = F[n] => m = n
      /\ \A m, n \in Nodes : B[m] = B[n] => m = n
  BY <1>1
<1>4. ASSUME NEW n \in Nodes PROVE B2[F2[n]] = n
  <2>1. CASE n = x
    BY <2>1
  <2>2. CASE n = B[x] /\ n # x
    BY <1>2, <2>2
  <2>3. CASE n # B[x] /\ n # x
    <3>1. F2[n] = F[n] /\ F[n] \in Nodes
      BY <1>1, <2>3
    <3>2. F[n] # x /\ F[n] # F[x]
      BY <1>1, <1>2, <1>3, <2>3
    <3> QED  BY <1>1, <3>1, <3>2
  <2> QED  BY <2>1, <2>2, <2>3
<1>5. ASSUME NEW n \in Nodes PROVE F2[B2[n]] = n
  <2>1. CASE n = x
    BY <2>1
  <2>2. CASE n = F[x] /\ n # x
    BY <1>2, <2>2
  <2>3. CASE n # F[x] /\ n # x
    <3>1. B2[n] = B[n] /\ B[n] \in Nodes
      BY <1>1, <2>3
    <3>2. B[n] # x /\ B[n] # B[x]
      BY <1>1, <1>2, <1>3, <2>3
    <3> QED  BY <1>1, <3>1, <3>2
  <2> QED  BY <2>1, <2>2, <2>3
<1>6. \A l \in Lists : home2[l] = l
  BY <1>1 DEF Nodes
<1>7. ASSUME NEW n \in Nodes, home2[n] \in Lists PROVE home2[F2[n]] = home2[n]
  <2>1. n # x
    BY <1>7 DEF Lists, Threads
  <2>2. home[F[n]] = home[n] /\ home2[n] = home[n]
    BY <1>1, <1>7, <2>1
  <2>3. CASE n = B[x]
    <3>1. F[x] # x
      BY <1>1, <1>2, <2>1, <2>3
    <3> QED  BY <1>1, <1>2, <2>2, <2>3, <3>1
  <2>4. CASE n # B[x]
    <3>1. F[n] # x
      BY <1>1, <2>4
    <3> QED  BY <1>1, <2>1, <2>2, <2>4, <3>1
  <2> QED  BY <2>3, <2>4
<1>8. ASSUME NEW n \in Nodes, home2[n] \in Threads PROVE F2[n] = n
  <2>1. CASE n # x
    <3>1. home[n] \in Threads /\ F[n] = n
      BY <1>1, <1>8, <2>1
    <3>2. n # B[x]
      BY <1>2, <2>1, <3>1
    <3> QED  BY <2>1, <3>1, <3>2
  <2> QED  BY <2>1
<1> QED  BY <1>4, <1>5, <1>6, <1>7, <1>8 DEF Circles

(* ... and so does linking it in before the head.                          *)
LEMMA Linked ==
  ASSUME NEW F, NEW B, NEW home, Circles(F, B, home),
         NEW F2 \in [Nodes -> Nodes], NEW B2 \in [Nodes -> Nodes],
         NEW home2 \in [Nodes -> Lists \cup Threads],
         NEW x \in Nodes \ Lists, home[x] \in Threads, NEW l \in Lists,
         F2[B[l]] = x, F2[x] = l, \A n \in Nodes \ {B[l], x} : F2[n] = F[n],
         B2[l] = x, B2[x] = B[l], \A n \in Nodes \ {l, x} : B2[n] = B[n],
         home2[x] = l, \A n \in Nodes \ {x} : home2[n] = home[n]
  PROVE  Circles(F2, B2, home2)
<1>1. /\ F \in [Nodes -> Nodes] /\ B \in [Nodes -> Nodes]
      /\ home \in [Nodes -> Lists \cup Threads]
      /\ \A n \in Nodes : B[F[n]] = n /\ F[B[n]] = n
      /\ \A m \in Lists : home[m] = m
      /\ \A n \in Nodes : home[n] \in Lists => home[F[n]] = home[n]
      /\ \A n \in Nodes : home[n] \in Threads => F[n] = n
  BY DEF Circles
<1>2. l \in Nodes /\ l # x /\ home[l] = l
  BY <1>1 DEF Nodes
<1>3. B[l] \in Nodes /\ F[B[l]] = l /\ home[B[l]] = l
  BY <1>1, <1>2, Back
<1>4. F[x] = x /\ B[x] = x /\ B[l] # x
  BY <1>1, <1>2, <1>3
<1>5. /\ \A m, n \in Nodes : F[m] = F[n] => m = n
      /\ \A m, n \in Nodes : B[m] = B[n] => m = n
  BY <1>1
<1>6. ASSUME NEW n \in Nodes PROVE B2[F2[n]] = n
  <2>1. CASE n = x \/ n = B[l]
    BY <2>1
  <2>2. CASE n # B[l] /\ n # x
    <3>1. F2[n] = F[n] /\ F[n] \in Nodes
      BY <1>1, <2>2
    <3>2. F[n] # x /\ F[n] # l
      BY <1>1, <1>3, <1>4, <1>5, <2>2
    <3> QED  BY <1>1, <3>1, <3>2
  <2> QED  BY <2>1, <2>2
<1>7. ASSUME NEW n \in Nodes PROVE F2[B2[n]] = n
  <2>1. CASE n = x \/ n = l
    BY <2>1
  <2>2. CASE n # l /\ n # x
    <3>1. B2[n] = B[n] /\ B[n] \in Nodes
      BY <1>1, <2>2
    <3>2. B[n] # x /\ B[n] # B[l]
      BY <1>1, <1>2, <1>4, <1>5, <2>2
    <3> QED  BY <1>1, <3>1, <3>2
  <2> QED  BY <2>1, <2>2
<1>8. \A m \in Lists : home2[m] = m
  BY <1>1 DEF Nodes
<1>9. ASSUME NEW n \in Nodes, home2[n] \in Lists PROVE home2[F2[n]] = home2[n]
  <2>1. CASE n = x
    BY <1>2, <1>8, <2>1
  <2>2. CASE n = B[l]
    BY <1>3, <1>4, <2>2
  <2>3. CASE n # x /\ n # B[l]
    <3>1. F[n] # x /\ F2[n] = F[n] /\ F[n] \in Nodes
      BY <1>1, <1>4, <1>5, <2>3
    <3> QED  BY <1>1, <1>9, <2>3, <3>1
  <2> QED  BY <2>1, <2>2, <2>3
<1>10. ASSUME NEW n \in Nodes, home2[n] \in Threads PROVE F2[n] = n
  <2>1. n # x
    BY <1>10 DEF Lists, Threads
  <2>2. home[n] \in Threads /\ F[n] = n
    BY <1>1, <1>10, <2>1
  <2>3. n # B[l]
    BY <1>2, <1>3, <2>2 DEF Lists, Threads
  <2> QED  BY <2>1, <2>2, <2>3
<1> QED  BY <1>6, <1>7, <1>8, <1>9, <1>10 DEF Circles

LEMMA FourStores ==
  ASSUME NEW S, NEW a \in S, NEW b \in S, NEW c \in S, NEW d \in S
  PROVE  /\ <<a, b, c, d>> \in Seq(S)
         /\ ToSet(<<a, b, c, d>>) = {a, b, c, d}
<1> DEFINE q == <<a, b, c, d>>
<1>1. /\ q \in Seq(S) /\ Len(q) = 4
      /\ q[1] = a /\ q[2] = b /\ q[3] = c /\ q[4] = d
  OBVIOUS
<1>2. DOMAIN q = 1 .. 4
  BY <1>1, LenProperties
<1> HIDE DEF q
<1>3. 1 .. 4 = {1, 2, 3, 4}
  OBVIOUS
<1>4. ToSet(q) = {q[i] : i \in {1, 2, 3, 4}}
  BY <1>2, <1>3 DEF ToSet
<1>5. ToSet(q) = {a, b, c, d}
  BY <1>1, <1>4
<1> QED  BY <1>1, <1>5 DEF q

(* A thread makes new stores, and what the links will be after them.       *)
MakesStores(t, q) ==
  /\ stores[t] = <<>> /\ stores' = [stores EXCEPT ![t] = q]
  /\ UNCHANGED <<Flink, Blink, word, listLock>>
  /\ pc'[t] # "idle" /\ \A u \in Threads \ {t} : pc'[u] = pc[u]
LinkedAs(F, B, home) ==
  Circles(F, B, home) /\ StoresLead(F, B) /\ StoresInside(home)
HomeOf(x, place, home, home2) ==
  home2[x] = place /\ \A n \in Nodes \ {x} : home2[n] = home[n]

(* The four stores by which a thread takes a frame from the list it has    *)
(* locked.                                                                 *)
Takes(t, x, l, q, F, B, home) ==
  /\ home[x] = l /\ listLock[l] = t /\ x \notin Lists
  /\ t = "writer" => word[x].status = PFN_MODIFIED
  /\ ToSet(q) = {Store(B[x], "Flink", F[x]), Store(F[x], "Blink", B[x]),
                  Store(x, "Flink", x), Store(x, "Blink", x)}

LEMMA Unlinks ==
  ASSUME NEW F, NEW B, NEW home, TypeInv, LinkedAs(F, B, home),
         NEW t \in Threads, NEW x \in Frames, NEW l \in Lists, NEW q,
         Takes(t, x, l, q, F, B, home), MakesStores(t, q)
  PROVE  \E F2, B2, home2 :
           LinkedAs(F2, B2, home2)' /\ HomeOf(x, t, home, home2)
<1> USE DEF LinkedAs, HomeOf, Takes, MakesStores
<1>1. PICK n, p : n = F[x] /\ p = B[x]
  OBVIOUS
<1>2. /\ F \in [Nodes -> Nodes] /\ B \in [Nodes -> Nodes]
      /\ home \in [Nodes -> Lists \cup Threads]
      /\ x \in Nodes /\ n \in Nodes /\ p \in Nodes
      /\ B[n] = x /\ F[p] = x
      /\ home[n] = l /\ home[p] = l
  BY <1>1, Back DEF Circles, Nodes
<1>3. PICK F2 : F2 = [m \in Nodes |-> IF m = x THEN x ELSE IF m = p THEN n ELSE F[m]]
  OBVIOUS
<1>4. PICK B2 : B2 = [m \in Nodes |-> IF m = x THEN x ELSE IF m = n THEN p ELSE B[m]]
  OBVIOUS
<1>5. PICK home2 : home2 = [m \in Nodes |-> IF m = x THEN t ELSE home[m]]
  OBVIOUS
<1>6. /\ F2 \in [Nodes -> Nodes] /\ B2 \in [Nodes -> Nodes]
      /\ home2 \in [Nodes -> Lists \cup Threads]
      /\ F2[x] = x /\ \A m \in Nodes \ {p, x} : F2[m] = F[m]
      /\ B2[x] = x /\ \A m \in Nodes \ {n, x} : B2[m] = B[m]
      /\ home2[x] = t /\ \A m \in Nodes \ {x} : home2[m] = home[m]
  BY <1>2, <1>3, <1>4, <1>5
<1>7. n = x <=> p = x
  BY <1>1, <1>2
<1>8. F2[p] = n /\ B2[n] = p
  BY <1>2, <1>3, <1>4, <1>7
<1>9. Circles(F2, B2, home2)
  <2>1. /\ F2[B[x]] = F[x] /\ \A m \in Nodes \ {B[x], x} : F2[m] = F[m]
        /\ B2[F[x]] = B[x] /\ \A m \in Nodes \ {F[x], x} : B2[m] = B[m]
    BY <1>1, <1>6, <1>8
  <2>2. x \in Nodes \ Lists /\ home[x] \in Lists /\ Circles(F, B, home)
    BY <1>2
  <2> QED  BY <1>6, <2>1, <2>2, Unlinked
<1>10. PICK X \in SUBSET Nodes : X = {x, n, p}
  BY <1>2
<1>11. \A m \in X : May(t, home[m]) /\ May(t, home2[m])
  <2>1. \A m \in X : home[m] = l /\ (home2[m] = t \/ home2[m] = l)
    BY <1>2, <1>6, <1>10
  <2> QED  BY <2>1 DEF May
<1>12. \A m \in Nodes \ X : F2[m] = F[m] /\ B2[m] = B[m] /\ home2[m] = home[m]
  BY <1>6, <1>10
<1>13. \A s \in ToSet(q) :
         /\ s.node \in X
         /\ s.value = IF s.field = "Flink" THEN F2[s.node] ELSE B2[s.node]
  BY <1>1, <1>6, <1>8, <1>10 DEF Store
<1>14. \A m \in X :
         /\ F2[m] = F[m] \/ \E s \in ToSet(q) : s.node = m /\ s.field = "Flink"
         /\ B2[m] = B[m] \/ \E s \in ToSet(q) : s.node = m /\ s.field = "Blink"
  <2>1. /\ \E s \in ToSet(q) : s.node = x /\ s.field = "Flink"
        /\ \E s \in ToSet(q) : s.node = x /\ s.field = "Blink"
        /\ \E s \in ToSet(q) : s.node = p /\ s.field = "Flink"
        /\ \E s \in ToSet(q) : s.node = n /\ s.field = "Blink"
    BY <1>1 DEF Store
  <2>2. /\ n # x => F2[n] = F[n] \/ n = p
        /\ p # x => B2[p] = B[p] \/ n = p
    BY <1>2, <1>6
  <2> QED  BY <1>10, <2>1, <2>2
<1>15. t = "writer" => \A s \in ToSet(q) :
         home2[s.node] = "writer" => word[s.node].status = PFN_MODIFIED
  <2>1. \A m \in X : home2[m] = "writer" => m = x
    BY <1>2, <1>6, <1>10 DEF Lists
  <2> QED  BY <1>13, <2>1
<1>16. Changes(t, X, q, F, B, home, F2, B2, home2)
  BY <1>11, <1>12, <1>13, <1>14, <1>15 DEF Changes
<1>17. StoresLead(F2, B2)' /\ StoresInside(home2)'
  BY <1>16, NewStores
<1>18. LinkedAs(F2, B2, home2)' /\ HomeOf(x, t, home, home2)
  BY <1>6, <1>9, <1>17 DEF Circles
<1> QED  BY <1>18

(* The four stores by which a thread adds a frame in hand to the list it   *)
(* has locked.                                                             *)
Adds(t, x, l, q, B, home) ==
  /\ home[x] = t /\ listLock[l] = t /\ x \notin Lists
  /\ ToSet(q) = {Store(x, "Blink", B[l]), Store(B[l], "Flink", x),
                  Store(x, "Flink", l), Store(l, "Blink", x)}

LEMMA Links ==
  ASSUME NEW F, NEW B, NEW home, TypeInv, LinkedAs(F, B, home),
         NEW t \in Threads, NEW x \in Frames, NEW l \in Lists, NEW q,
         Adds(t, x, l, q, B, home), MakesStores(t, q)
  PROVE  \E F2, B2, home2 :
           LinkedAs(F2, B2, home2)' /\ HomeOf(x, l, home, home2)
<1> USE DEF LinkedAs, HomeOf, Adds, MakesStores
<1>1. PICK p : p = B[l]
  OBVIOUS
<1>2. /\ F \in [Nodes -> Nodes] /\ B \in [Nodes -> Nodes]
      /\ home \in [Nodes -> Lists \cup Threads]
      /\ x \in Nodes /\ l \in Nodes /\ p \in Nodes
      /\ home[l] = l /\ home[p] = l /\ p # x
  BY <1>1, Back DEF Circles, Nodes, Lists, Threads
<1>3. PICK F2 : F2 = [m \in Nodes |-> IF m = x THEN l ELSE IF m = p THEN x ELSE F[m]]
  OBVIOUS
<1>4. PICK B2 : B2 = [m \in Nodes |-> IF m = x THEN p ELSE IF m = l THEN x ELSE B[m]]
  OBVIOUS
<1>5. PICK home2 : home2 = [m \in Nodes |-> IF m = x THEN l ELSE home[m]]
  OBVIOUS
<1>6. /\ F2 \in [Nodes -> Nodes] /\ B2 \in [Nodes -> Nodes]
      /\ home2 \in [Nodes -> Lists \cup Threads]
      /\ F2[x] = l /\ F2[p] = x /\ \A m \in Nodes \ {p, x} : F2[m] = F[m]
      /\ B2[x] = p /\ B2[l] = x /\ \A m \in Nodes \ {l, x} : B2[m] = B[m]
      /\ home2[x] = l /\ \A m \in Nodes \ {x} : home2[m] = home[m]
  BY <1>2, <1>3, <1>4, <1>5
<1>7. Circles(F2, B2, home2)
  <2>1. /\ F2[B[l]] = x /\ \A m \in Nodes \ {B[l], x} : F2[m] = F[m]
        /\ B2[x] = B[l]
    BY <1>1, <1>6
  <2>2. x \in Nodes \ Lists /\ home[x] \in Threads
    BY <1>2
  <2> QED  BY <1>6, <2>1, <2>2, Linked
<1>8. PICK X \in SUBSET Nodes : X = {x, l, p}
  BY <1>2
<1>9. \A m \in X : May(t, home[m]) /\ May(t, home2[m])
  <2>1. \A m \in X : (home[m] = t \/ home[m] = l) /\ home2[m] = l
    BY <1>2, <1>6, <1>8
  <2> QED  BY <2>1 DEF May
<1>10. \A m \in Nodes \ X : F2[m] = F[m] /\ B2[m] = B[m] /\ home2[m] = home[m]
  BY <1>6, <1>8
<1>11. \A s \in ToSet(q) :
         /\ s.node \in X
         /\ s.value = IF s.field = "Flink" THEN F2[s.node] ELSE B2[s.node]
  BY <1>1, <1>6, <1>8 DEF Store
<1>12. \A m \in X :
         /\ F2[m] = F[m] \/ \E s \in ToSet(q) : s.node = m /\ s.field = "Flink"
         /\ B2[m] = B[m] \/ \E s \in ToSet(q) : s.node = m /\ s.field = "Blink"
  <2>1. /\ \E s \in ToSet(q) : s.node = x /\ s.field = "Flink"
        /\ \E s \in ToSet(q) : s.node = x /\ s.field = "Blink"
        /\ \E s \in ToSet(q) : s.node = p /\ s.field = "Flink"
        /\ \E s \in ToSet(q) : s.node = l /\ s.field = "Blink"
    BY <1>1 DEF Store
  <2>2. /\ F2[l] = F[l] \/ l = p
        /\ B2[p] = B[p] \/ l = p
    BY <1>2, <1>6
  <2> QED  BY <1>8, <2>1, <2>2
<1>13. t = "writer" => \A s \in ToSet(q) :
         home2[s.node] = "writer" => word[s.node].status = PFN_MODIFIED
  <2>1. \A m \in X : home2[m] # "writer"
    BY <1>2, <1>6, <1>8 DEF Lists
  <2> QED  BY <1>11, <2>1
<1>14. Changes(t, X, q, F, B, home, F2, B2, home2)
  BY <1>9, <1>10, <1>11, <1>12, <1>13 DEF Changes
<1>15. StoresLead(F2, B2)' /\ StoresInside(home2)'
  BY <1>14, NewStores
<1>16. LinkedAs(F2, B2, home2)' /\ HomeOf(x, l, home, home2)
  BY <1>6, <1>7, <1>15 DEF Circles
<1> QED  BY <1>16

LEMMA PopNothing ==
  ASSUME NEW F, NEW B, NEW home, LinksInv(F, B, home),
         NEW t \in Threads, pop_page(t),
         Flink[ListOf[region[t]]] = ListOf[region[t]]
  PROVE  LinksInv(F, B, home)'
<1>1. /\ TypeInv /\ Circles(F, B, home) /\ StoresLead(F, B)
      /\ StoresInside(home) /\ Control /\ Locking /\ Rounds /\ Hands(home)
      /\ UserVictims /\ WriterVictims /\ Statuses(home) /\ Words
  BY DEF LinksInv
<1>2. PICK r : r = region[t]
  OBVIOUS
<1>3. r \in Regions /\ pc[t] = "pop" /\ r \in RegionsOf[t]
  BY <1>1, <1>2, RegionAt DEF pop_page, At
<1>4. /\ GoTo(t, "leave")
      /\ UNCHANGED <<Flink, Blink, word, listLock, pageLocks, region, left, stores,
                     frame, reg, victims>>
  BY DEF pop_page, links, locks
<1>5. "leave" \in StepsOf[r]
  BY <1>3, StepsAre
<1>6. /\ Control' /\ pc' \in [Threads -> Steps]
      /\ pc'[t] = "leave" /\ \A u \in Threads \ {t} : pc'[u] = pc[u]
  BY <1>1, <1>2, <1>4, <1>5, Moves
<1>7. TypeInv'
  BY <1>1, <1>4, <1>6 DEF TypeInv
<1>8. Circles(F, B, home)' /\ StoresLead(F, B)'
  BY <1>1, <1>4 DEF Circles, StoresLead
<1>9. StoresInside(home)'
  BY <1>1, <1>3, <1>4, <1>6 DEF StoresInside, May
<1>10. Locking'
  <2>1. ASSUME NEW m \in Lists, NEW u \in Threads
        PROVE  listLock'[m] = u <=> /\ region'[u] \in ListRegions
                                    /\ ListOf[region'[u]] = m
                                    /\ pc'[u] # "enter"
    BY <1>1, <1>2, <1>3, <1>4, <1>6 DEF Locking
  <2>2. ASSUME NEW g \in Frames, NEW u \in Threads
        PROVE  pageLocks'[g] = u <=> frame'[u] = g /\ pc'[u] \in InPage
    BY <1>1, <1>3, <1>4, <1>6 DEF Locking, InPage
  <2>3. ASSUME NEW u \in Threads,
               \/ pc'[u] \in InPage \cup {"enterPage"}
               \/ pc'[u] = "enter" /\ region'[u] \in Rescues
        PROVE  frame'[u] \in Frames
    BY <1>1, <1>3, <1>4, <1>6, <2>3 DEF Locking, InPage
  <2> QED  BY <2>1, <2>2, <2>3 DEF Locking
<1>11. Rounds'
  BY <1>1, <1>2, <1>3, <1>4, <1>6 DEF Rounds, Threads
<1>12. Hands(home)'
  BY <1>1, <1>2, <1>3, <1>4, <1>6 DEF Hands, Threads, MineAt, InHand
<1>13. UserVictims' /\ WriterVictims'
  BY <1>1, <1>2, <1>3, <1>4, <1>6
     DEF UserVictims, WriterVictims, Threads, MineAt, InHand, Rescues
<1>14. Statuses(home)'
  BY <1>1, <1>2, <1>3, <1>4, <1>6 DEF Statuses, Threads
<1>15. Words'
  BY <1>1, <1>2, <1>3, <1>4, <1>6 DEF Words, Threads
<1> QED  BY <1>6, <1>7, <1>8, <1>9, <1>10, <1>11, <1>12, <1>13, <1>14, <1>15
         DEF LinksInv

LEMMA PopKeeps ==
  ASSUME NEW F, NEW B, NEW home, LinksInv(F, B, home),
         NEW t \in Threads, pop_page(t),
         Flink[ListOf[region[t]]] # ListOf[region[t]]
  PROVE  \E F2, B2, home2 : LinksInv(F2, B2, home2)'
<1>1. /\ TypeInv /\ Circles(F, B, home) /\ StoresLead(F, B)
      /\ StoresInside(home) /\ Control /\ Locking /\ Rounds /\ Hands(home)
      /\ UserVictims /\ WriterVictims /\ Statuses(home) /\ Words
  BY DEF LinksInv
<1>2. PICK r : r = region[t]
  OBVIOUS
<1>3. /\ r \in {"popFree", "popStandby", "popVictims", "popModified"}
      /\ r \in RegionsOf[t] /\ pc[t] = "pop" /\ stores[t] = <<>>
      /\ r \in ListRegions
  BY <1>1, <1>2, RegionAt, StepsAre, RegionsAre DEF pop_page, At, ListRegions
<1>4. PICK l \in Lists : l = ListOf[r]
  BY <1>3, ListsOf
<1>5. listLock[l] = t /\ home[l] = l /\ l \in Nodes
  BY <1>1, <1>2, <1>3, <1>4 DEF Locking, Circles, Nodes
<1>6. Flink[l] = F[l]
  BY <1>1, <1>3, <1>5, OwnLinks DEF May
<1>7. PICK x : x = F[l]
  OBVIOUS
<1>8. /\ x \in Nodes /\ x # l /\ home[x] = l /\ B[x] = l
      /\ x \in Frames /\ x \notin Lists
  <2>1. x \in Nodes /\ x # l /\ home[x] = l /\ B[x] = l
    BY <1>1, <1>2, <1>4, <1>5, <1>6, <1>7 DEF Circles
  <2>2. x \notin Lists
    BY <1>1, <2>1 DEF Circles
  <2> QED  BY <2>1, <2>2 DEF Nodes
<1>9. Flink[x] = F[x] /\ F[x] \in Nodes
  BY <1>1, <1>3, <1>5, <1>8, OwnLinks DEF May, Circles
<1>10. PICK n : n = F[x]
  OBVIOUS
<1>11. PICK q : q = << Store(l, "Flink", n), Store(n, "Blink", l),
                       Store(x, "Flink", x), Store(x, "Blink", x) >>
  OBVIOUS
<1>12. PICK step : step = IF After[r]["pop"] # "loop" THEN "enterPage"
                          ELSE IF left[t] = 1 THEN "leave" ELSE "pop"
  OBVIOUS
<1>13. /\ GoTo(t, step)
       /\ left' = [left EXCEPT ![t] = left[t] - 1]
       /\ stores' = [stores EXCEPT ![t] = q]
       /\ frame' = [frame EXCEPT ![t] = x]
       /\ victims' = [victims EXCEPT ![t] = Append(victims[t], x)]
       /\ UNCHANGED <<Flink, Blink, word, listLock, pageLocks, region, reg>>
  BY <1>2, <1>4, <1>6, <1>7, <1>9, <1>10, <1>11, <1>12
     DEF pop_page, GoTo, links, locks
<1>14. left[t] \in Nat \ {0} /\ (t = "user" => left[t] = 1 /\ victims[t] = <<>>)
  <2>1. left[t] \in Nat
    BY <1>1 DEF TypeInv
  <2>2. t = "user" <=> r \in {"popFree", "popStandby"}
    BY <1>3, RegionsAre
  <2>3. r \in {"popFree", "popStandby"} => left[t] = 1
    BY <1>1, <1>2, <1>3 DEF Rounds
  <2>4. r \in {"popVictims", "popModified"} => left[t] > 0
    BY <1>1, <1>2, <1>3 DEF Rounds
  <2>5. t = "user" => victims[t] = <<>>
    BY <1>1, <1>2, <1>3, <2>2 DEF UserVictims
  <2> QED  BY <1>3, <2>1, <2>2, <2>3, <2>4, <2>5
<1>15. /\ step \in {"enterPage", "leave", "pop"} /\ step \in StepsOf[r]
       /\ step = "enterPage" <=> r \in {"popStandby", "popModified"}
       /\ step = "pop" => r = "popVictims" /\ left[t] # 1
  <2>1. After[r]["pop"] = IF r \in {"popStandby", "popModified"} THEN "enterPage"
                          ELSE "loop"
    BY <1>3, StepsAre, RegionsAre, AfterIs
  <2>2. r = "popFree" => left[t] = 1
    BY <1>3, <1>14, RegionsAre DEF Threads
  <2>3. step \in {"enterPage", "leave", "pop"}
        /\ (step = "enterPage" <=> r \in {"popStandby", "popModified"})
        /\ (step = "pop" => r = "popVictims" /\ left[t] # 1)
    BY <1>3, <1>12, <2>1, <2>2
  <2> QED  BY <1>3, <2>3, StepsAre, RegionsAre
<1>16. /\ Control' /\ pc' \in [Threads -> Steps]
       /\ pc'[t] = step /\ \A u \in Threads \ {t} : pc'[u] = pc[u]
  BY <1>1, <1>2, <1>13, <1>15, Moves
<1>17. q \in Seq(Stores) /\
       ToSet(q) = {Store(B[x], "Flink", F[x]), Store(F[x], "Blink", B[x]),
                   Store(x, "Flink", x), Store(x, "Blink", x)}
  <2>1. /\ Store(l, "Flink", n) \in Stores /\ Store(n, "Blink", l) \in Stores
        /\ Store(x, "Flink", x) \in Stores /\ Store(x, "Blink", x) \in Stores
    BY <1>5, <1>8, <1>9, <1>10 DEF Store, Stores
  <2> QED  BY <1>8, <1>10, <1>11, <2>1, FourStores
<1>18. /\ victims[t] \in Seq(Frames) /\ Append(victims[t], x) \in Seq(Frames)
       /\ \A f : On(Append(victims[t], x), f) <=> On(victims[t], f) \/ f = x
       /\ IsInjective(victims[t]) /\ ~ On(victims[t], x) =>
            IsInjective(Append(victims[t], x))
  <2>1. victims[t] \in Seq(Frames)
    BY <1>1 DEF TypeInv
  <2> QED  BY <1>8, <2>1, AddEntry DEF add_entry
<1>19. /\ left'[t] = left[t] - 1 /\ \A u \in Threads \ {t} : left'[u] = left[u]
       /\ frame'[t] = x /\ \A u \in Threads \ {t} : frame'[u] = frame[u]
       /\ victims'[t] = Append(victims[t], x)
       /\ \A u \in Threads \ {t} : victims'[u] = victims[u]
  BY <1>1, <1>13 DEF TypeInv
<1>20. TypeInv'
  <2>1. /\ stores' \in [Threads -> Seq(Stores)]
        /\ victims' \in [Threads -> Seq(Frames)]
        /\ frame' \in [Threads -> Frames \cup {NoFrame}]
        /\ left' \in [Threads -> Nat]
    <3>1. left[t] - 1 \in Nat
      BY <1>14
    <3> QED  BY <1>1, <1>8, <1>13, <1>17, <1>18, <3>1 DEF TypeInv
  <2>2. /\ Flink' = Flink /\ Blink' = Blink /\ word' = word
        /\ listLock' = listLock /\ pageLocks' = pageLocks
        /\ region' = region /\ reg' = reg
    BY <1>13
  <2> QED  BY <1>1, <1>16, <2>1, <2>2 DEF TypeInv
<1>21. word[x].status = StatusOfList[l] /\ OfList(word[x], l)
  BY <1>1, <1>8 DEF Statuses, OfList
<1>22. /\ t = "user" => r \in {"popFree", "popStandby"}
       /\ t = "user" => word[x].status # PFN_MIDWRITE
       /\ t = "trimmer" => word[x].status = PFN_ACTIVE /\ r = "popVictims"
       /\ t = "writer" => word[x].status = PFN_MODIFIED /\ r = "popModified"
  <2>1. /\ t = "user" => r \in {"popFree", "popStandby"}
        /\ t = "trimmer" => r = "popVictims"
        /\ t = "writer" => r = "popModified"
    BY <1>3, RegionsAre
  <2>2. l = IF r = "popFree" THEN "free" ELSE IF r = "popStandby" THEN "standby"
            ELSE IF r = "popVictims" THEN "active" ELSE "modified"
    BY <1>3, <1>4 DEF ListOf
  <2> QED  BY <1>21, <2>1, <2>2
           DEF StatusOfList, PFN_FREE, PFN_STANDBY, PFN_MIDWRITE
<1>23. PICK F2, B2, home2 :
         LinkedAs(F2, B2, home2)' /\ HomeOf(x, t, home, home2)
  <2>1. MakesStores(t, q)
    BY <1>3, <1>13, <1>15, <1>16 DEF MakesStores
  <2>2. Takes(t, x, l, q, F, B, home)
    BY <1>5, <1>8, <1>17, <1>22 DEF Takes
  <2>3. LinkedAs(F, B, home)
    BY <1>1 DEF LinkedAs
  <2> QED  BY <1>1, <1>8, <2>1, <2>2, <2>3, Unlinks
<1>24. /\ Circles(F2, B2, home2)' /\ StoresLead(F2, B2)' /\ StoresInside(home2)'
       /\ home2[x] = t
  BY <1>23 DEF LinkedAs, HomeOf
<1>25. Locking'
  <2>1. ASSUME NEW m \in Lists, NEW u \in Threads
        PROVE  listLock'[m] = u <=> /\ region'[u] \in ListRegions
                                    /\ ListOf[region'[u]] = m
                                    /\ pc'[u] # "enter"
    BY <1>1, <1>2, <1>3, <1>13, <1>15, <1>16 DEF Locking
  <2>2. ASSUME NEW g \in Frames, NEW u \in Threads
        PROVE  pageLocks'[g] = u <=> frame'[u] = g /\ pc'[u] \in InPage
    BY <1>1, <1>3, <1>13, <1>15, <1>16, <1>19 DEF Locking, InPage
  <2>3. ASSUME NEW u \in Threads,
               \/ pc'[u] \in InPage \cup {"enterPage"}
               \/ pc'[u] = "enter" /\ region'[u] \in Rescues
        PROVE  frame'[u] \in Frames
    BY <1>1, <1>3, <1>8, <1>13, <1>15, <1>16, <1>19, <2>3 DEF Locking, InPage
  <2> QED  BY <2>1, <2>2, <2>3 DEF Locking
<1>26. Rounds'
  BY <1>1, <1>2, <1>3, <1>13, <1>14, <1>15, <1>16, <1>19, <1>22
     DEF Rounds, Threads, Rescues
<1>27. \A f \in Frames \ {x} : home2[f] = home[f]
  BY <1>23 DEF HomeOf, Nodes
<1>28. Hands(home2)'
  <2>1. ASSUME NEW u \in Threads, pc'[u] \in MineAt(region'[u])
        PROVE  home2[frame'[u]] = u
    <3>1. CASE u = t
      BY <1>19, <1>24, <3>1
    <3>2. CASE u # t
      <4>1. pc[u] \in MineAt(region[u])
        BY <1>13, <1>16, <2>1, <3>2
      <4>2. pc[u] \in InPage \cup {"enterPage"}
        BY <4>1 DEF MineAt, InHand, InPage
      <4>3. home[frame[u]] = u /\ frame[u] \in Frames
        BY <1>1, <4>1, <4>2 DEF Hands, Locking
      <4>4. frame[u] # x
        BY <1>8, <4>3 DEF Lists, Threads
      <4> QED  BY <1>19, <1>27, <3>2, <4>3, <4>4
    <3> QED  BY <3>1, <3>2
  <2>2. ASSUME NEW f \in Frames
        PROVE  /\ home2[f] = "user" <=> On(victims'["user"], f) /\ pc'["user"] # "remove"
               /\ home2[f] = "trimmer" <=> On(victims'["trimmer"], f)
    <3>1. /\ home[f] = "user" <=> On(victims["user"], f) /\ pc["user"] # "remove"
          /\ home[f] = "trimmer" <=> On(victims["trimmer"], f)
      BY <1>1 DEF Hands
    <3>2. home[x] \notin Threads
      BY <1>8 DEF Lists, Threads
    <3>3. /\ home2[f] = "user" <=> home[f] = "user" \/ (f = x /\ t = "user")
          /\ home2[f] = "trimmer" <=> home[f] = "trimmer" \/ (f = x /\ t = "trimmer")
      BY <1>24, <1>27, <3>2 DEF Threads
    <3>4. ASSUME NEW u \in Threads
          PROVE  On(victims'[u], f) <=> On(victims[u], f) \/ (f = x /\ t = u)
      <4>1. CASE u = t
        BY <1>18, <1>19, <4>1
      <4>2. CASE u # t
        BY <1>19, <4>2
      <4> QED  BY <4>1, <4>2
    <3>5. pc["user"] # "remove" \/ t # "user"
      BY <1>3
    <3>6. pc'["user"] # "remove" <=> pc["user"] # "remove"
      BY <1>3, <1>15, <1>16 DEF Threads
    <3> QED  BY <3>1, <3>3, <3>4, <3>5, <3>6 DEF Threads
  <2>3. IsInjective(victims'["trimmer"])
    <3>1. IsInjective(victims["trimmer"]) /\ ~ On(victims["trimmer"], x)
      BY <1>1, <1>8 DEF Hands, Lists
    <3> QED  BY <1>18, <1>19, <3>1 DEF Threads
  <2>4. pc'["user"] = "remove" => home2[frame'["user"]] = ListOf[region'["user"]]
    <3>1. ASSUME pc'["user"] = "remove" PROVE t # "user" /\ pc["user"] = "remove"
      BY <1>15, <1>16, <3>1 DEF Threads
    <3>2. ASSUME pc["user"] = "remove", t # "user"
          PROVE  home2[frame["user"]] = ListOf[region["user"]]
      <4>1. /\ frame["user"] \in Frames
            /\ home[frame["user"]] = ListOf[region["user"]]
            /\ region["user"] \in {"rescueModified", "rescueStandby"}
        BY <1>1, <3>2, RegionAt, StepsAre DEF Hands, Locking, InPage, Threads
      <4>2. PICK m \in Lists : m = ListOf[region["user"]]
        BY <4>1, ListsOf, RegionsAre DEF ListRegions
      <4>3. listLock[m] = "user"
        BY <1>1, <3>2, <4>1, <4>2, RegionsAre DEF Locking, ListRegions, Threads
      <4>4. frame["user"] # x
        BY <1>5, <1>8, <3>2, <4>1, <4>2, <4>3
      <4> QED  BY <1>27, <4>1, <4>4
    <3> QED  BY <1>13, <1>19, <3>1, <3>2 DEF Threads
  <2> QED  BY <2>1, <2>2, <2>3, <2>4 DEF Hands
<1>29. UserVictims' /\ WriterVictims'
  <2>1. t = "user" => victims'[t] = <<x>>
    <3>1. Append(<<>>, x) = <<x>>
      OBVIOUS
    <3> QED  BY <1>14, <1>19, <3>1
  <2> QED  BY <1>1, <1>2, <1>3, <1>8, <1>13, <1>15, <1>16, <1>19, <1>22, <2>1
         DEF UserVictims, WriterVictims, Threads, MineAt, InHand, Rescues
<1>30. Statuses(home2)'
  <2>1. "user" \notin Lists /\ "trimmer" \notin Lists /\ "writer" \notin Lists
    BY DEF Lists
  <2>2. ASSUME NEW f \in Frames \ {x}
        PROVE  /\ home2[f] \in Lists => OfList(word'[f], home2[f])
               /\ home2[f] = "user" /\ word'[f].status = PFN_MIDWRITE =>
                    /\ region'["user"] = "rescueMidwrite"
                    /\ pc'["user"] \in {"read", "write"}
                    /\ frame'["user"] = f
               /\ home2[f] = "trimmer" =>
                    \/ word'[f].status = PFN_ACTIVE
                    \/ /\ word'[f].status = PFN_MODIFIED
                       /\ pc'["trimmer"] = "add" /\ frame'["trimmer"] = f
               /\ home2[f] = "writer" =>
                    \/ word'[f].status = PFN_MIDWRITE
                    \/ /\ word'[f].status = PFN_MODIFIED
                       /\ region'["writer"] = "popModified" /\ frame'["writer"] = f
                       /\ pc'["writer"] \in {"enterPage", "read", "write"}
                    \/ /\ word'[f].status = PFN_STANDBY
                       /\ region'["writer"] = "writePage" /\ frame'["writer"] = f
                       /\ pc'["writer"] \in {"readSlot", "writeSlot", "add"}
    BY <1>1, <1>3, <1>13, <1>16, <1>19, <1>27 DEF Statuses, Threads
  <2>3. /\ home2[x] \notin Lists
        /\ home2[x] = "user" => word'[x].status # PFN_MIDWRITE
        /\ home2[x] = "trimmer" => word'[x].status = PFN_ACTIVE
        /\ home2[x] = "writer" =>
             /\ word'[x].status = PFN_MODIFIED
             /\ region'["writer"] = "popModified" /\ frame'["writer"] = x
             /\ pc'["writer"] \in {"enterPage", "read", "write"}
    BY <1>2, <1>13, <1>15, <1>16, <1>19, <1>22, <1>24, <2>1 DEF Threads
  <2> QED  BY <2>2, <2>3 DEF Statuses
<1>31. Words'
  BY <1>1, <1>2, <1>3, <1>13, <1>15, <1>16, <1>19, <1>22 DEF Words, Threads
<1>32. LinksInv(F2, B2, home2)'
  BY <1>16, <1>20, <1>24, <1>25, <1>26, <1>28, <1>29, <1>30, <1>31 DEF LinksInv
<1> QED  BY <1>32

LEMMA RemoveKeeps ==
  ASSUME NEW F, NEW B, NEW home, LinksInv(F, B, home),
         NEW t \in Threads, removePage_linked(t)
  PROVE  \E F2, B2, home2 : LinksInv(F2, B2, home2)'
<1>1. /\ TypeInv /\ Circles(F, B, home) /\ StoresLead(F, B)
      /\ StoresInside(home) /\ Control /\ Locking /\ Rounds /\ Hands(home)
      /\ UserVictims /\ WriterVictims /\ Statuses(home) /\ Words
  BY DEF LinksInv
<1>2. PICK r : r = region[t]
  OBVIOUS
<1>3. /\ r \in {"rescueModified", "rescueStandby"} /\ r \in ListRegions
      /\ r \in RegionsOf[t] /\ pc[t] = "remove" /\ stores[t] = <<>>
      /\ t = "user"
  BY <1>1, <1>2, RegionAt, StepsAre, RegionsAre
     DEF removePage_linked, At, ListRegions, Threads
<1>4. PICK l \in Lists : l = ListOf[r]
  BY <1>3, ListsOf
<1>5. listLock[l] = t /\ home[l] = l /\ l \in Nodes
  BY <1>1, <1>2, <1>3, <1>4 DEF Locking, Circles, Nodes
<1>6. PICK x \in Frames : x = frame[t] /\ home[x] = l /\ x \notin Lists
  <2>1. frame[t] \in Frames
    BY <1>1, <1>3 DEF Locking, InPage
  <2>2. home[frame[t]] = l
    BY <1>1, <1>2, <1>3, <1>4 DEF Hands
  <2>3. frame[t] \notin Lists
    BY <2>1, ListsAssumption
  <2> QED  BY <2>1, <2>2, <2>3
<1>7. /\ Flink[x] = F[x] /\ F[x] \in Nodes /\ Blink[x] = B[x] /\ B[x] \in Nodes
      /\ x \in Nodes
  BY <1>1, <1>3, <1>5, <1>6, OwnLinks DEF May, Circles, Nodes
<1>8. PICK q : q = << Store(F[x], "Blink", B[x]), Store(B[x], "Flink", F[x]),
                      Store(x, "Flink", x), Store(x, "Blink", x) >>
  OBVIOUS
<1>9. /\ GoTo(t, "read")
      /\ stores' = [stores EXCEPT ![t] = q]
      /\ UNCHANGED <<Flink, Blink, word, listLock, pageLocks, region, left, frame,
                     reg, victims>>
  BY <1>1, <1>3, <1>6, <1>7, <1>8, ThenGoes
     DEF removePage_linked, RemoveStores, GoTo, links, locks, local
<1>10. "read" \in StepsOf[r]
  BY <1>3, StepsAre, RegionsAre
<1>11. /\ Control' /\ pc' \in [Threads -> Steps]
       /\ pc'[t] = "read" /\ \A u \in Threads \ {t} : pc'[u] = pc[u]
  BY <1>1, <1>2, <1>9, <1>10, Moves
<1>12. /\ q \in Seq(Stores)
       /\ ToSet(q) = {Store(B[x], "Flink", F[x]), Store(F[x], "Blink", B[x]),
                      Store(x, "Flink", x), Store(x, "Blink", x)}
  <2>1. /\ Store(F[x], "Blink", B[x]) \in Stores /\ Store(B[x], "Flink", F[x]) \in Stores
        /\ Store(x, "Flink", x) \in Stores /\ Store(x, "Blink", x) \in Stores
    BY <1>7 DEF Store, Stores
  <2> QED  BY <1>8, <2>1, FourStores
<1>13. TypeInv'
  <2>1. stores' \in [Threads -> Seq(Stores)]
    BY <1>1, <1>9, <1>12 DEF TypeInv
  <2> QED  BY <1>1, <1>9, <1>11, <2>1 DEF TypeInv
<1>14. word[x].status # PFN_MIDWRITE
  <2>1. word[x].status = StatusOfList[l]
    BY <1>1, <1>6 DEF Statuses, OfList
  <2> QED  BY <2>1 DEF StatusOfList, Lists, PFN_FREE, PFN_ACTIVE, PFN_MODIFIED,
                       PFN_STANDBY, PFN_MIDWRITE
<1>15. PICK F2, B2, home2 :
         LinkedAs(F2, B2, home2)' /\ HomeOf(x, t, home, home2)
  <2>1. MakesStores(t, q)
    BY <1>3, <1>9, <1>11 DEF MakesStores
  <2>2. Takes(t, x, l, q, F, B, home)
    BY <1>3, <1>5, <1>6, <1>12 DEF Takes
  <2>3. LinkedAs(F, B, home)
    BY <1>1 DEF LinkedAs
  <2> QED  BY <1>1, <1>6, <2>1, <2>2, <2>3, Unlinks
<1>16. /\ Circles(F2, B2, home2)' /\ StoresLead(F2, B2)' /\ StoresInside(home2)'
       /\ home2[x] = t /\ \A f \in Frames \ {x} : home2[f] = home[f]
  BY <1>15 DEF LinkedAs, HomeOf, Nodes
<1>17. Locking'
  <2>1. ASSUME NEW m \in Lists, NEW u \in Threads
        PROVE  listLock'[m] = u <=> /\ region'[u] \in ListRegions
                                    /\ ListOf[region'[u]] = m
                                    /\ pc'[u] # "enter"
    BY <1>1, <1>2, <1>3, <1>9, <1>11 DEF Locking
  <2>2. ASSUME NEW g \in Frames, NEW u \in Threads
        PROVE  pageLocks'[g] = u <=> frame'[u] = g /\ pc'[u] \in InPage
    BY <1>1, <1>3, <1>9, <1>11 DEF Locking, InPage
  <2>3. ASSUME NEW u \in Threads,
               \/ pc'[u] \in InPage \cup {"enterPage"}
               \/ pc'[u] = "enter" /\ region'[u] \in Rescues
        PROVE  frame'[u] \in Frames
    BY <1>1, <1>3, <1>9, <1>11, <2>3 DEF Locking, InPage
  <2> QED  BY <2>1, <2>2, <2>3 DEF Locking
<1>18. Rounds'
  BY <1>1, <1>2, <1>3, <1>9, <1>11 DEF Rounds, Threads, Rescues
<1>19. victims["user"] = <<x>>
  BY <1>1, <1>2, <1>3, <1>6 DEF UserVictims
<1>20. Hands(home2)'
  <2>1. ASSUME NEW u \in Threads, pc'[u] \in MineAt(region'[u])
        PROVE  home2[frame'[u]] = u
    <3>1. CASE u = t
      BY <1>3, <1>6, <1>9, <1>16, <3>1
    <3>2. CASE u # t
      <4>1. pc[u] \in MineAt(region[u])
        BY <1>9, <1>11, <2>1, <3>2
      <4>2. pc[u] \in InPage \cup {"enterPage"}
        BY <4>1 DEF MineAt, InHand, InPage
      <4>3. home[frame[u]] = u /\ frame[u] \in Frames
        BY <1>1, <4>1, <4>2 DEF Hands, Locking
      <4>4. frame[u] # x
        BY <1>6, <3>2, <4>3 DEF Lists, Threads
      <4> QED  BY <1>9, <1>16, <3>2, <4>3, <4>4
    <3> QED  BY <3>1, <3>2
  <2>2. ASSUME NEW f \in Frames
        PROVE  /\ home2[f] = "user" <=> On(victims'["user"], f) /\ pc'["user"] # "remove"
               /\ home2[f] = "trimmer" <=> On(victims'["trimmer"], f)
    <3>1. /\ home[f] # "user"
          /\ home[f] = "trimmer" <=> On(victims["trimmer"], f)
      BY <1>1, <1>3 DEF Hands
    <3>2. home[x] # "trimmer"
      BY <1>6 DEF Lists
    <3>3. On(victims'["user"], f) <=> f = x
      BY <1>9, <1>19, OnOne
    <3> QED  BY <1>3, <1>9, <1>11, <1>16, <3>1, <3>2, <3>3
  <2> QED  BY <1>1, <1>3, <1>9, <1>11, <2>1, <2>2 DEF Hands
<1>21. UserVictims' /\ WriterVictims'
  BY <1>1, <1>2, <1>3, <1>6, <1>9, <1>11, <1>19
     DEF UserVictims, WriterVictims, Threads, MineAt, InHand, Rescues
<1>22. Statuses(home2)'
  <2>1. ASSUME NEW f \in Frames \ {x}
        PROVE  /\ home2[f] \in Lists => OfList(word'[f], home2[f])
               /\ home2[f] = "user" /\ word'[f].status = PFN_MIDWRITE =>
                    /\ region'["user"] = "rescueMidwrite"
                    /\ pc'["user"] \in {"read", "write"}
                    /\ frame'["user"] = f
               /\ home2[f] = "trimmer" =>
                    \/ word'[f].status = PFN_ACTIVE
                    \/ /\ word'[f].status = PFN_MODIFIED
                       /\ pc'["trimmer"] = "add" /\ frame'["trimmer"] = f
               /\ home2[f] = "writer" =>
                    \/ word'[f].status = PFN_MIDWRITE
                    \/ /\ word'[f].status = PFN_MODIFIED
                       /\ region'["writer"] = "popModified" /\ frame'["writer"] = f
                       /\ pc'["writer"] \in {"enterPage", "read", "write"}
                    \/ /\ word'[f].status = PFN_STANDBY
                       /\ region'["writer"] = "writePage" /\ frame'["writer"] = f
                       /\ pc'["writer"] \in {"readSlot", "writeSlot", "add"}
    BY <1>1, <1>3, <1>9, <1>11, <1>16 DEF Statuses, Threads
  <2>2. "user" \notin Lists
    BY DEF Lists
  <2> QED  BY <1>3, <1>9, <1>14, <1>16, <2>1, <2>2 DEF Statuses
<1>23. Words'
  BY <1>1, <1>2, <1>3, <1>9, <1>11 DEF Words, Threads
<1>24. LinksInv(F2, B2, home2)'
  BY <1>11, <1>13, <1>16, <1>17, <1>18, <1>20, <1>21, <1>22, <1>23 DEF LinksInv
<1> QED  BY <1>24

LEMMA AddKeeps ==
  ASSUME NEW F, NEW B, NEW home, LinksInv(F, B, home),
         NEW t \in Threads, add_entry_linked(t)
  PROVE  \E F2, B2, home2 : LinksInv(F2, B2, home2)'
<1>1. /\ TypeInv /\ Circles(F, B, home) /\ StoresLead(F, B)
      /\ StoresInside(home) /\ Control /\ Locking /\ Rounds /\ Hands(home)
      /\ UserVictims /\ WriterVictims /\ Statuses(home) /\ Words
  BY DEF LinksInv
<1>2. PICK r : r = region[t]
  OBVIOUS
<1>3. /\ r \in {"addActive", "markVictims", "writePage"} /\ r \in ListRegions
      /\ r \in RegionsOf[t] /\ pc[t] = "add" /\ stores[t] = <<>>
  BY <1>1, <1>2, RegionAt, StepsAre, RegionsAre
     DEF add_entry_linked, At, ListRegions, Threads
<1>4. PICK l \in Lists : l = ListOf[r]
  BY <1>3, ListsOf
<1>5. listLock[l] = t /\ home[l] = l /\ l \in Nodes
  BY <1>1, <1>2, <1>3, <1>4 DEF Locking, Circles, Nodes
<1>6. PICK x \in Frames : x = frame[t] /\ home[x] = t /\ x \notin Lists
  <2>1. frame[t] \in Frames
    BY <1>1, <1>3 DEF Locking, InPage
  <2>2. home[frame[t]] = t
    BY <1>1, <1>2, <1>3 DEF Hands, MineAt, InHand
  <2>3. frame[t] \notin Lists
    BY <2>1, ListsAssumption
  <2> QED  BY <2>1, <2>2, <2>3
<1>7. Blink[l] = B[l] /\ B[l] \in Nodes /\ x \in Nodes
  <2>1. May(t, home[l])
    BY <1>5 DEF May
  <2>2. Blink[l] = B[l]
    BY <1>1, <1>3, <1>5, <2>1, OwnLinks
  <2> QED  BY <1>1, <1>5, <1>6, <2>2 DEF Circles, Nodes
<1>8. PICK q : q = << Store(x, "Blink", B[l]), Store(B[l], "Flink", x),
                      Store(x, "Flink", l), Store(l, "Blink", x) >>
  OBVIOUS
<1>9. /\ GoTo(t, "leavePage")
      /\ stores' = [stores EXCEPT ![t] = q]
      /\ victims' = [victims EXCEPT ![t] = Tail(victims[t])]
      /\ UNCHANGED <<Flink, Blink, word, listLock, pageLocks, region, left, frame,
                     reg>>
  BY <1>1, <1>2, <1>3, <1>4, <1>6, <1>7, <1>8, ThenGoes
     DEF add_entry_linked, AddStores, GoTo, links, locks
<1>10. "leavePage" \in StepsOf[r]
  BY <1>3, StepsAre, RegionsAre
<1>11. /\ Control' /\ pc' \in [Threads -> Steps]
       /\ pc'[t] = "leavePage" /\ \A u \in Threads \ {t} : pc'[u] = pc[u]
  BY <1>1, <1>2, <1>9, <1>10, Moves
<1>12. /\ q \in Seq(Stores)
       /\ ToSet(q) = {Store(x, "Blink", B[l]), Store(B[l], "Flink", x),
                      Store(x, "Flink", l), Store(l, "Blink", x)}
  <2>1. /\ Store(x, "Blink", B[l]) \in Stores /\ Store(B[l], "Flink", x) \in Stores
        /\ Store(x, "Flink", l) \in Stores /\ Store(l, "Blink", x) \in Stores
    BY <1>5, <1>7 DEF Store, Stores
  <2> QED  BY <1>8, <2>1, FourStores
<1>13. victims[t] \in Seq(Frames) /\ victims[t] # <<>>
  <2>1. victims[t] \in Seq(Frames)
    BY <1>1 DEF TypeInv
  <2>2. t # "writer" => On(victims[t], x)
    BY <1>1, <1>3, <1>6 DEF Hands, Threads
  <2>3. t = "writer" => victims[t] # <<>>
    BY <1>1, <1>2, <1>3, RegionsAre DEF WriterVictims
  <2> QED  BY <2>1, <2>2, <2>3, OnNone
<1>14. /\ Tail(victims[t]) \in Seq(Frames)
       /\ IsInjective(victims[t]) =>
            /\ IsInjective(Tail(victims[t]))
            /\ \A f : On(Tail(victims[t]), f) <=> On(victims[t], f) /\ f # Head(victims[t])
  BY <1>13, PopPage
<1>15. /\ victims' \in [Threads -> Seq(Frames)]
       /\ victims'[t] = Tail(victims[t])
       /\ \A u \in Threads \ {t} : victims'[u] = victims[u]
  BY <1>1, <1>9, <1>14 DEF TypeInv
<1>16. TypeInv'
  <2>1. stores' \in [Threads -> Seq(Stores)]
    BY <1>1, <1>9, <1>12 DEF TypeInv
  <2> QED  BY <1>1, <1>9, <1>11, <1>15, <2>1 DEF TypeInv
<1>17. PICK F2, B2, home2 :
         LinkedAs(F2, B2, home2)' /\ HomeOf(x, l, home, home2)
  <2>1. MakesStores(t, q)
    BY <1>3, <1>9, <1>11 DEF MakesStores
  <2>2. Adds(t, x, l, q, B, home)
    BY <1>5, <1>6, <1>12 DEF Adds
  <2>3. LinkedAs(F, B, home)
    BY <1>1 DEF LinkedAs
  <2> QED  BY <1>1, <1>6, <2>1, <2>2, <2>3, Links
<1>18. /\ Circles(F2, B2, home2)' /\ StoresLead(F2, B2)' /\ StoresInside(home2)'
       /\ home2[x] = l /\ \A f \in Frames \ {x} : home2[f] = home[f]
  BY <1>17 DEF LinkedAs, HomeOf, Nodes
<1>19. Locking'
  <2>1. ASSUME NEW m \in Lists, NEW u \in Threads
        PROVE  listLock'[m] = u <=> /\ region'[u] \in ListRegions
                                    /\ ListOf[region'[u]] = m
                                    /\ pc'[u] # "enter"
    BY <1>1, <1>2, <1>3, <1>9, <1>11 DEF Locking
  <2>2. ASSUME NEW g \in Frames, NEW u \in Threads
        PROVE  pageLocks'[g] = u <=> frame'[u] = g /\ pc'[u] \in InPage
    BY <1>1, <1>3, <1>9, <1>11 DEF Locking, InPage
  <2>3. ASSUME NEW u \in Threads,
               \/ pc'[u] \in InPage \cup {"enterPage"}
               \/ pc'[u] = "enter" /\ region'[u] \in Rescues
        PROVE  frame'[u] \in Frames
    BY <1>1, <1>3, <1>9, <1>11, <2>3 DEF Locking, InPage
  <2> QED  BY <2>1, <2>2, <2>3 DEF Locking
<1>20. Rounds'
  <2>1. Len(Tail(victims[t])) = Len(victims[t]) - 1
    BY <1>13, HeadTailProperties
  <2>2. r = "markVictims" => left[t] = Len(victims[t]) - 1
    BY <1>1, <1>2, <1>3, RegionsAre DEF Rounds, Threads
  <2>3. t = "trimmer" => r = "markVictims"
    BY <1>3, RegionsAre
  <2> QED  BY <1>1, <1>2, <1>3, <1>9, <1>11, <1>15, <2>1, <2>2, <2>3
           DEF Rounds, Threads
<1>21. t = "user" => victims[t] = <<x>> /\ victims'[t] = <<>>
  <2>1. t = "user" => victims[t] = <<x>>
    BY <1>1, <1>2, <1>3, <1>6 DEF UserVictims, MineAt, InHand
  <2>2. Tail(<<x>>) = <<>>
    OBVIOUS
  <2> QED  BY <1>15, <2>1, <2>2
<1>22. Hands(home2)'
  <2>1. ASSUME NEW u \in Threads, pc'[u] \in MineAt(region'[u])
        PROVE  home2[frame'[u]] = u
    <3>1. u # t
      BY <1>3, <1>11, <2>1 DEF MineAt, InHand
    <3>2. CASE u # t
      <4>1. pc[u] \in MineAt(region[u])
        BY <1>9, <1>11, <2>1, <3>2
      <4>2. pc[u] \in InPage \cup {"enterPage"}
        BY <4>1 DEF MineAt, InHand, InPage
      <4>3. home[frame[u]] = u /\ frame[u] \in Frames
        BY <1>1, <4>1, <4>2 DEF Hands, Locking
      <4>4. frame[u] # x
        BY <1>6, <3>2, <4>3 DEF Lists, Threads
      <4> QED  BY <1>9, <1>18, <3>2, <4>3, <4>4
    <3> QED  BY <3>1, <3>2
  <2>2. ASSUME NEW f \in Frames
        PROVE  home2[f] = "user" <=> On(victims'["user"], f) /\ pc'["user"] # "remove"
    <3>1. home[f] = "user" <=> On(victims["user"], f) /\ pc["user"] # "remove"
      BY <1>1 DEF Hands
    <3>2. home2[x] # "user"
      BY <1>18 DEF Lists
    <3>3. CASE t = "user"
      <4>1. On(victims["user"], f) <=> f = x
        BY <1>21, <3>3, OnOne
      <4>2. ~ On(victims'["user"], f)
        BY <1>21, <3>3, OnNone
      <4> QED  BY <1>18, <3>1, <3>2, <4>1, <4>2
    <3>4. CASE t # "user"
      BY <1>6, <1>11, <1>15, <1>18, <3>1, <3>2, <3>4 DEF Threads
    <3> QED  BY <3>3, <3>4
  <2>3. ASSUME NEW f \in Frames
        PROVE  home2[f] = "trimmer" <=> On(victims'["trimmer"], f)
    <3>1. home[f] = "trimmer" <=> On(victims["trimmer"], f)
      BY <1>1 DEF Hands
    <3>2. home2[x] # "trimmer"
      BY <1>18 DEF Lists
    <3>3. CASE t = "trimmer"
      <4>1. x = Head(victims[t])
        BY <1>1, <1>2, <1>3, <1>6, <3>3, RegionsAre DEF Rounds
      <4>2. IsInjective(victims[t])
        BY <1>1, <3>3 DEF Hands
      <4>3. On(victims'["trimmer"], f) <=> On(victims["trimmer"], f) /\ f # x
        BY <1>14, <1>15, <3>3, <4>1, <4>2
      <4> QED  BY <1>18, <3>1, <3>2, <4>3
    <3>4. CASE t # "trimmer"
      BY <1>6, <1>15, <1>18, <3>1, <3>2, <3>4 DEF Threads
    <3> QED  BY <3>3, <3>4
  <2>4. IsInjective(victims'["trimmer"])
    BY <1>1, <1>14, <1>15 DEF Hands, Threads
  <2>5. pc'["user"] = "remove" => home2[frame'["user"]] = ListOf[region'["user"]]
    <3>1. ASSUME pc'["user"] = "remove" PROVE pc["user"] = "remove"
      BY <1>11, <3>1 DEF Threads
    <3>2. ASSUME pc["user"] = "remove"
          PROVE  home2[frame["user"]] = ListOf[region["user"]]
      <4>1. /\ frame["user"] \in Frames
            /\ home[frame["user"]] = ListOf[region["user"]]
            /\ region["user"] \in {"rescueModified", "rescueStandby"}
        BY <1>1, <3>2, RegionAt, StepsAre DEF Hands, Locking, InPage, Threads
      <4>2. ListOf[region["user"]] \in Lists
        BY <4>1, ListsOf, RegionsAre DEF ListRegions
      <4>3. frame["user"] # x
        BY <1>6, <4>1, <4>2 DEF Lists, Threads
      <4> QED  BY <1>18, <4>1, <4>3
    <3> QED  BY <1>9, <3>1, <3>2
  <2> QED  BY <2>1, <2>2, <2>3, <2>4, <2>5 DEF Hands
<1>23. UserVictims' /\ WriterVictims'
  BY <1>1, <1>2, <1>3, <1>9, <1>11, <1>15, <1>21
     DEF UserVictims, WriterVictims, Threads, MineAt, InHand, Rescues
<1>24. Statuses(home2)'
  <2>1. ASSUME NEW f \in Frames \ {x}
        PROVE  /\ home2[f] \in Lists => OfList(word'[f], home2[f])
               /\ home2[f] = "user" /\ word'[f].status = PFN_MIDWRITE =>
                    /\ region'["user"] = "rescueMidwrite"
                    /\ pc'["user"] \in {"read", "write"}
                    /\ frame'["user"] = f
               /\ home2[f] = "trimmer" =>
                    \/ word'[f].status = PFN_ACTIVE
                    \/ /\ word'[f].status = PFN_MODIFIED
                       /\ pc'["trimmer"] = "add" /\ frame'["trimmer"] = f
               /\ home2[f] = "writer" =>
                    \/ word'[f].status = PFN_MIDWRITE
                    \/ /\ word'[f].status = PFN_MODIFIED
                       /\ region'["writer"] = "popModified" /\ frame'["writer"] = f
                       /\ pc'["writer"] \in {"enterPage", "read", "write"}
                    \/ /\ word'[f].status = PFN_STANDBY
                       /\ region'["writer"] = "writePage" /\ frame'["writer"] = f
                       /\ pc'["writer"] \in {"readSlot", "writeSlot", "add"}
    BY <1>1, <1>3, <1>6, <1>9, <1>11, <1>18 DEF Statuses, Threads
  <2>2. OfList(word[x], l)
    BY <1>1, <1>2, <1>3, <1>4, <1>6 DEF Words
  <2>3. l # "user" /\ l # "trimmer" /\ l # "writer"
    BY DEF Lists
  <2> QED  BY <1>9, <1>18, <2>1, <2>2, <2>3 DEF Statuses
<1>25. Words'
  BY <1>1, <1>2, <1>3, <1>9, <1>11 DEF Words, Threads
<1>26. LinksInv(F2, B2, home2)'
  BY <1>11, <1>16, <1>18, <1>19, <1>20, <1>22, <1>23, <1>24, <1>25 DEF LinksInv
<1> QED  BY <1>26

------------------------------------------------------------------------------
(* The regions begin.                                                      *)

LEMMA StartKeeps ==
  ASSUME NEW F, NEW B, NEW home, LinksInv(F, B, home),
         NEW t \in Threads, NEW r \in Regions, NEW step, NEW rounds \in Nat,
         NEW f \in Frames \cup {NoFrame},
         r \in RegionsOf[t], step = IF r = "rescueMidwrite" THEN "enterPage" ELSE "enter",
         Idle(t), Start(t, r, step, rounds, f),
         r \in Rescues => f \in Frames /\ rounds = 0,
         r \notin Rescues => rounds > 0,
         r \in {"popFree", "popStandby", "addActive", "writePage"} => rounds = 1,
         r = "markVictims" => rounds = Len(victims[t]),
         t = "user" => (r = "addActive" <=> victims[t] # <<>>),
         r = "writePage" => victims[t] # <<>>
  PROVE  LinksInv(F, B, home)'
<1>1. /\ TypeInv /\ Circles(F, B, home) /\ StoresLead(F, B)
      /\ StoresInside(home) /\ Control /\ Locking /\ Rounds /\ Hands(home)
      /\ UserVictims /\ WriterVictims /\ Statuses(home) /\ Words
  BY DEF LinksInv
<1>2. /\ pc[t] = "idle"
      /\ region' = [region EXCEPT ![t] = r]
      /\ pc' = [pc EXCEPT ![t] = step]
      /\ left' = [left EXCEPT ![t] = rounds]
      /\ frame' = [frame EXCEPT ![t] = f]
      /\ UNCHANGED <<Flink, Blink, word, listLock, pageLocks, stores, reg, victims>>
  BY DEF Idle, Start, GoTo, links, locks
<1>3. /\ step \in {"enter", "enterPage"} /\ step \in StepsOf[r] /\ step \in Steps
      /\ step = "enterPage" <=> r = "rescueMidwrite"
      /\ region[t] = "none" /\ r # "none"
  BY <1>1, <1>2, StepsAre, RegionAt, RegionsAre DEF ListRegions
<1>4. TypeInv'
  BY <1>1, <1>2, <1>3 DEF TypeInv
<1>5. /\ pc'[t] = step /\ \A u \in Threads \ {t} : pc'[u] = pc[u]
      /\ region'[t] = r /\ \A u \in Threads \ {t} : region'[u] = region[u]
      /\ left'[t] = rounds /\ \A u \in Threads \ {t} : left'[u] = left[u]
      /\ frame'[t] = f /\ \A u \in Threads \ {t} : frame'[u] = frame[u]
  BY <1>1, <1>2 DEF TypeInv
<1>6. Control'
  BY <1>1, <1>3, <1>5 DEF Control
<1>7. Circles(F, B, home)' /\ StoresLead(F, B)'
  BY <1>1, <1>2 DEF Circles, StoresLead
<1>8. StoresInside(home)'
  BY <1>1, <1>2, <1>3, <1>5 DEF StoresInside, May
<1>9. Locking'
  <2>1. ASSUME NEW m \in Lists, NEW u \in Threads
        PROVE  listLock'[m] = u <=> /\ region'[u] \in ListRegions
                                    /\ ListOf[region'[u]] = m
                                    /\ pc'[u] # "enter"
    BY <1>1, <1>2, <1>3, <1>5, RegionsAre DEF Locking, ListRegions
  <2>2. ASSUME NEW g \in Frames, NEW u \in Threads
        PROVE  pageLocks'[g] = u <=> frame'[u] = g /\ pc'[u] \in InPage
    BY <1>1, <1>2, <1>3, <1>5 DEF Locking, InPage
  <2>3. ASSUME NEW u \in Threads,
               \/ pc'[u] \in InPage \cup {"enterPage"}
               \/ pc'[u] = "enter" /\ region'[u] \in Rescues
        PROVE  frame'[u] \in Frames
    BY <1>1, <1>2, <1>3, <1>5, <2>3 DEF Locking, InPage, Rescues
  <2> QED  BY <2>1, <2>2, <2>3 DEF Locking
<1>10. Rounds'
  <2>1. ASSUME NEW u \in Threads
        PROVE  /\ /\ region'[u] \in {"popFree", "popStandby", "addActive", "writePage"}
                  /\ pc'[u] # "leave"
                  => left'[u] = IF pc'[u] \in {"enter", "pop", "victim"} THEN 1 ELSE 0
               /\ region'[u] \in Rescues => left'[u] = 0
               /\ /\ region'[u] \in {"popVictims", "popModified"}
                  /\ pc'[u] \in {"enter", "pop"}
                  => left'[u] > 0
    <3>1. CASE u = t
      BY <1>3, <1>5, <3>1 DEF Rescues
    <3>2. CASE u # t
      BY <1>1, <1>5, <3>2 DEF Rounds
    <3> QED  BY <3>1, <3>2
  <2>2. region'["trimmer"] = "markVictims" =>
          /\ pc'["trimmer"] \in {"enter", "victim"} =>
               left'["trimmer"] > 0 /\ left'["trimmer"] = Len(victims'["trimmer"])
          /\ pc'["trimmer"] \in {"enterPage", "read", "write", "add"} =>
               /\ left'["trimmer"] = Len(victims'["trimmer"]) - 1
               /\ frame'["trimmer"] = Head(victims'["trimmer"])
          /\ pc'["trimmer"] = "leavePage" =>
               left'["trimmer"] = Len(victims'["trimmer"])
    <3>1. CASE t = "trimmer"
      BY <1>2, <1>3, <1>5, <3>1 DEF Rescues
    <3>2. CASE t # "trimmer"
      BY <1>1, <1>2, <1>5, <3>2 DEF Rounds, Threads
    <3> QED  BY <3>1, <3>2
  <2> QED  BY <2>1, <2>2 DEF Rounds
<1>11. Hands(home)'
  BY <1>1, <1>2, <1>3, <1>5 DEF Hands, Threads, MineAt, InHand
<1>12. UserVictims' /\ WriterVictims'
  BY <1>1, <1>2, <1>3, <1>5
     DEF UserVictims, WriterVictims, Threads, MineAt, InHand, Rescues
<1>13. Statuses(home)'
  BY <1>1, <1>2, <1>3, <1>5 DEF Statuses, Threads
<1>14. Words'
  BY <1>1, <1>2, <1>3, <1>5 DEF Words, Threads
<1> QED  BY <1>4, <1>6, <1>7, <1>8, <1>9, <1>10, <1>11, <1>12, <1>13, <1>14
         DEF LinksInv

LEMMA SkipKeeps ==
  ASSUME NEW F, NEW B, NEW home, LinksInv(F, B, home), SkipVictim
  PROVE  LinksInv(F, B, home)'
<1>1. /\ TypeInv /\ Circles(F, B, home) /\ StoresLead(F, B)
      /\ StoresInside(home) /\ Control /\ Locking /\ Rounds /\ Hands(home)
      /\ UserVictims /\ WriterVictims /\ Statuses(home) /\ Words
  BY DEF LinksInv
<1>2. /\ pc["writer"] = "idle" /\ victims["writer"] # <<>>
      /\ victims' = [victims EXCEPT !["writer"] = Tail(victims["writer"])]
      /\ UNCHANGED <<Flink, Blink, word, listLock, pageLocks, region, pc, left,
                     stores, frame, reg>>
  BY DEF SkipVictim, Full, Idle, links, locks, control
<1>3. /\ victims' \in [Threads -> Seq(Frames)]
      /\ victims'["user"] = victims["user"] /\ victims'["trimmer"] = victims["trimmer"]
  <2>1. victims \in [Threads -> Seq(Frames)] /\ "writer" \in Threads
    BY <1>1 DEF TypeInv, Threads
  <2>2. Tail(victims["writer"]) \in Seq(Frames)
    BY <1>2, <2>1, PopPage
  <2> QED  BY <1>2, <2>1, <2>2 DEF Threads
<1>4. region["writer"] = "none"
  BY <1>1, <1>2, RegionAt DEF Threads
<1>5. TypeInv'
  BY <1>1, <1>2, <1>3 DEF TypeInv
<1>6. Circles(F, B, home)' /\ StoresLead(F, B)' /\ StoresInside(home)'
  BY <1>1, <1>2 DEF Circles, StoresLead, StoresInside, May
<1>7. Control' /\ Locking'
  BY <1>1, <1>2 DEF Control, Locking
<1>8. Rounds' /\ Hands(home)'
  BY <1>1, <1>2, <1>3 DEF Rounds, Hands
<1>9. UserVictims' /\ WriterVictims'
  BY <1>1, <1>2, <1>3, <1>4 DEF UserVictims, WriterVictims
<1>10. Statuses(home)' /\ Words'
  BY <1>1, <1>2 DEF Statuses, Words
<1> QED  BY <1>5, <1>6, <1>7, <1>8, <1>9, <1>10 DEF LinksInv

LEMMA StutterKeeps ==
  ASSUME NEW F, NEW B, NEW home, LinksInv(F, B, home), UNCHANGED vars
  PROVE  LinksInv(F, B, home)'
<1>1. /\ TypeInv /\ Circles(F, B, home) /\ StoresLead(F, B)
      /\ StoresInside(home) /\ Control /\ Locking /\ Rounds /\ Hands(home)
      /\ UserVictims /\ WriterVictims /\ Statuses(home) /\ Words
  BY DEF LinksInv
<1>2. UNCHANGED <<Flink, Blink, word, listLock, pageLocks, region, pc, left, stores,
                  frame, reg, victims>>
  BY DEF vars, links, locks, control, local
<1>3. TypeInv' /\ Circles(F, B, home)' /\ StoresLead(F, B)' /\ StoresInside(home)'
  BY <1>1, <1>2 DEF TypeInv, Circles, StoresLead, StoresInside, May
<1>4. Control' /\ Locking' /\ Rounds' /\ Hands(home)'
  BY <1>1, <1>2 DEF Control, Locking, Rounds, Hands
<1>5. UserVictims' /\ WriterVictims' /\ Statuses(home)' /\ Words'
  BY <1>1, <1>2 DEF UserVictims, WriterVictims, Statuses, Words
<1> QED  BY <1>3, <1>4, <1>5 DEF LinksInv

(* Each thread's region begins as StartKeeps asks.                         *)
LEMMA BeginKeeps ==
  ASSUME NEW F, NEW B, NEW home, LinksInv(F, B, home),
         \/ PopFree \/ PopStandby \/ PopVictims \/ PopModified
         \/ \E f \in Frames : \/ RescueFromList(f, "rescueModified")
                              \/ RescueFromList(f, "rescueStandby")
                              \/ RescueMidwrite(f)
         \/ AddActive \/ MarkVictims \/ WritePage
  PROVE  LinksInv(F, B, home)'
<1>1. Threads = {"user", "trimmer", "writer"}
  BY DEF Threads
<1> USE RegionsAre
<1>2. CASE PopFree \/ PopStandby
  <2>1. PICK r \in {"popFree", "popStandby"} :
          Empty("user") /\ Start("user", r, "enter", 1, NoFrame)
    BY <1>2 DEF PopFree, PopStandby
  <2> QED  BY <1>1, <2>1, StartKeeps DEF Empty, Rescues
<1>3. CASE PopVictims
  <2>1. MAXIMUM_TRIM_BATCH \in Nat \ {0}
    BY ListsAssumption
  <2> QED  BY <1>1, <1>3, <2>1, StartKeeps DEF PopVictims, Empty, Rescues
<1>4. CASE PopModified
  <2>1. PICK slots \in Nat \ {0} :
          Empty("writer") /\ Start("writer", "popModified", "enter", slots, NoFrame)
    BY <1>4, ListsAssumption DEF PopModified
  <2> QED  BY <1>1, <2>1, StartKeeps DEF Empty, Rescues
<1>5. ASSUME NEW f \in Frames, NEW r \in {"rescueModified", "rescueStandby"},
             RescueFromList(f, r)
      PROVE  LinksInv(F, B, home)'
  BY <1>1, <1>5, StartKeeps DEF RescueFromList, Empty, Rescues
<1>6. ASSUME NEW f \in Frames, RescueMidwrite(f)
      PROVE  LinksInv(F, B, home)'
  BY <1>1, <1>6, StartKeeps DEF RescueMidwrite, Empty, Rescues
<1>7. CASE AddActive
  BY <1>1, <1>7, StartKeeps DEF AddActive, Full, Rescues
<1>8. CASE MarkVictims
  <2>1. victims["trimmer"] \in Seq(Frames)
    BY <1>1 DEF LinksInv, TypeInv
  <2>2. Len(victims["trimmer"]) \in Nat \ {0}
    BY <1>8, <2>1, EmptySeq, LenProperties DEF MarkVictims, Full
  <2> QED  BY <1>1, <1>8, <2>2, StartKeeps DEF MarkVictims, Full, Rescues
<1>9. CASE WritePage
  BY <1>1, <1>9, StartKeeps DEF WritePage, Full, Rescues
<1> QED  BY <1>2, <1>3, <1>4, <1>5, <1>6, <1>7, <1>8, <1>9
------------------------------------------------------------------------------
(* The invariant holds at first ...                                        *)

(* The circle of the free list.                                            *)
LEMMA FirstCircle ==
  LET n == Len(physical_page_numbers) IN
  /\ n \in Nat /\ Len(Circle) = n + 1 /\ DOMAIN Circle = 1 .. n + 1
  /\ Circle[1] = "free"
  /\ \A i \in 1 .. n : Circle[i + 1] = physical_page_numbers[i]
  /\ \A i \in DOMAIN Circle : Circle[i] \in {"free"} \cup Frames
  /\ \A i, j \in DOMAIN Circle : Circle[i] = Circle[j] => i = j
  /\ \A f \in Frames : \E i \in DOMAIN Circle : Circle[i] = f
<1> DEFINE p == physical_page_numbers
           n == Len(p)
<1>1. /\ p \in Seq(Frames) /\ ToSet(p) = Frames /\ IsInjective(p)
      /\ "free" \notin Frames
  BY ListsAssumption DEF Lists
<1>2. n \in Nat /\ DOMAIN p = 1 .. n /\ \A i \in 1 .. n : p[i] \in Frames
  BY <1>1, LenProperties, ElementOfSeq
<1>3. PICK c : c = Circle
  OBVIOUS
<1>4. /\ Len(c) = n + 1 /\ c[1] = "free"
      /\ \A i \in 1 .. n : c[i + 1] = p[i]
      /\ c \in Seq({"free"} \cup Frames)
  <2>1. <<"free">> \in Seq({"free"} \cup Frames) /\ p \in Seq({"free"} \cup Frames)
    BY <1>1
  <2>2. Len(<<"free">>) = 1 /\ <<"free">>[1] = "free"
    OBVIOUS
  <2>3. /\ <<"free">> \o p \in Seq({"free"} \cup Frames)
        /\ Len(<<"free">> \o p) = 1 + n
        /\ \A i \in 1 .. 1 + n :
             (<<"free">> \o p)[i] = IF i <= 1 THEN <<"free">>[i] ELSE p[i - 1]
    BY <2>1, <2>2, ConcatProperties
  <2>4. ASSUME NEW i \in 1 .. n PROVE (<<"free">> \o p)[i + 1] = p[i]
    <3>1. i + 1 \in 1 .. 1 + n /\ ~ (i + 1 <= 1) /\ i + 1 - 1 = i
      BY <1>2
    <3> QED  BY <2>3, <3>1
  <2>5. (<<"free">> \o p)[1] = "free"
    <3>1. 1 \in 1 .. 1 + n
      BY <1>2
    <3> QED  BY <2>2, <2>3, <3>1
  <2> QED  BY <1>2, <1>3, <2>3, <2>4, <2>5 DEF Circle
<1>5. DOMAIN c = 1 .. n + 1 /\ \A i \in 1 .. n + 1 : c[i] \in {"free"} \cup Frames
  BY <1>4, LenProperties, ElementOfSeq
<1> HIDE DEF p
<1>6. ASSUME NEW i \in 1 .. n + 1
      PROVE  i = 1 \/ (i - 1 \in 1 .. n /\ c[i] = p[i - 1])
  <2>1. i # 1 => i - 1 \in 1 .. n /\ (i - 1) + 1 = i
    BY <1>2
  <2> QED  BY <1>4, <2>1
<1>7. ASSUME NEW i \in 1 .. n + 1, NEW j \in 1 .. n + 1, c[i] = c[j]
      PROVE  i = j
  <2>1. CASE i = 1 \/ j = 1
    BY <1>1, <1>2, <1>4, <1>6, <1>7, <2>1
  <2>2. CASE i # 1 /\ j # 1
    <3>1. i - 1 \in 1 .. n /\ j - 1 \in 1 .. n /\ p[i - 1] = p[j - 1]
      BY <1>6, <1>7, <2>2
    <3>2. i - 1 = j - 1
      BY <1>1, <1>2, <3>1 DEF IsInjective
    <3> QED  BY <3>2
  <2> QED  BY <2>1, <2>2
<1>8. ASSUME NEW f \in Frames PROVE \E i \in 1 .. n + 1 : c[i] = f
  <2>1. PICK i \in 1 .. n : p[i] = f
    BY <1>1, <1>2 DEF ToSet
  <2>2. i + 1 \in 1 .. n + 1 /\ c[i + 1] = f
    BY <1>2, <1>4, <2>1
  <2> QED  BY <2>2
<1>9. n \in Nat /\ Len(c) = n + 1 /\ c[1] = "free" /\ \A i \in 1 .. n : c[i + 1] = p[i]
  BY <1>2, <1>4
<1> QED  BY <1>3, <1>5, <1>7, <1>8, <1>9 DEF p

LEMMA InitLinks ==
  ASSUME Init
  PROVE  \E F, B, home : LinksInv(F, B, home)
<1>1. PICK n \in Nat \ {0} : n = Len(Circle) /\ DOMAIN Circle = 1 .. n
  BY FirstCircle
<1>2. PICK c : c = Circle
  OBVIOUS
<1>3. /\ \A i \in 1 .. n : c[i] \in {"free"} \cup Frames
      /\ \A i, j \in 1 .. n : c[i] = c[j] => i = j
      /\ \A f \in Frames : \E i \in 1 .. n : c[i] = f
      /\ c[1] = "free"
  BY <1>1, <1>2, FirstCircle
<1>4. PICK C : C = {"free"} \cup Frames
  OBVIOUS
<1>5. /\ \A m \in Nodes : InCircle(m) <=> m \in C
      /\ C \subseteq Nodes /\ ToSet(Circle) = C
  <2>1. \A m \in C : \E i \in 1 .. n : c[i] = m
    BY <1>3, <1>4
  <2>2. \A i \in 1 .. n : c[i] \in C
    BY <1>3, <1>4
  <2>3. ToSet(Circle) = C
    BY <1>1, <1>2, <2>1, <2>2 DEF ToSet
  <2>4. C \subseteq Nodes
    BY <1>4 DEF Nodes, Lists
  <2> QED  BY <2>3, <2>4 DEF InCircle
<1>6. PICK pos : pos = [m \in C |-> Position(m)]
  OBVIOUS
<1>7. \A m \in C : pos[m] \in 1 .. n /\ c[pos[m]] = m
  <2>1. ASSUME NEW m \in C PROVE Position(m) \in 1 .. n /\ c[Position(m)] = m
    <3>1. \E i \in DOMAIN Circle : Circle[i] = m
      BY <1>1, <1>2, <1>3, <1>4, <2>1
    <3> QED  BY <1>1, <1>2, <3>1 DEF Position
  <2> QED  BY <1>6, <2>1
<1>8. PICK next : next = [i \in 1 .. n |-> IF i = n THEN 1 ELSE i + 1]
  OBVIOUS
<1>9. /\ \A i \in 1 .. n : next[i] \in 1 .. n /\ next[i] = Next1(i)
      /\ \A i, j \in 1 .. n : next[i] = next[j] => i = j
      /\ \A j \in 1 .. n : \E i \in 1 .. n : next[i] = j
  <2>1. \A i \in 1 .. n : next[i] = (IF i = n THEN 1 ELSE i + 1)
    BY <1>8
  <2>2. ASSUME NEW i \in 1 .. n PROVE next[i] \in 1 .. n /\ next[i] = Next1(i)
    BY <1>1, <2>1 DEF Next1
  <2>3. ASSUME NEW i \in 1 .. n, NEW j \in 1 .. n, next[i] = next[j] PROVE i = j
    <3>1. next[i] = (IF i = n THEN 1 ELSE i + 1) /\ next[j] = (IF j = n THEN 1 ELSE j + 1)
      BY <2>1
    <3>2. CASE i = n /\ j # n
      <4>1. 1 = j + 1
        BY <2>3, <3>1, <3>2
      <4> QED  BY <4>1
    <3>3. CASE i # n /\ j = n
      <4>1. 1 = i + 1
        BY <2>3, <3>1, <3>3
      <4> QED  BY <4>1
    <3>4. CASE i # n /\ j # n
      <4>1. i + 1 = j + 1
        BY <2>3, <3>1, <3>4
      <4> QED  BY <4>1
    <3> QED  BY <3>2, <3>3, <3>4
  <2>4. ASSUME NEW j \in 1 .. n PROVE \E i \in 1 .. n : next[i] = j
    <3>1. CASE j = 1
      <4>1. n \in 1 .. n /\ next[n] = 1
        BY <2>1
      <4> QED  BY <3>1, <4>1
    <3>2. CASE j # 1
      <4>1. j - 1 \in 1 .. n /\ j - 1 # n
        BY <3>2
      <4>2. next[j - 1] = j
        BY <2>1, <4>1
      <4> QED  BY <4>1, <4>2
    <3> QED  BY <3>1, <3>2
  <2> QED  BY <2>2, <2>3, <2>4
<1>10. PICK F, B : F = Flink /\ B = Blink
  OBVIOUS
<1>11. /\ F \in [Nodes -> Nodes] /\ \A m \in C : F[m] = c[next[pos[m]]] /\ F[m] \in C
       /\ \A m \in Nodes \ C : F[m] = m
  <2>1. /\ F = [m \in Nodes |-> IF InCircle(m) THEN Circle[Next1(Position(m))] ELSE m]
    BY <1>10 DEF Init
  <2>2. ASSUME NEW m \in C PROVE F[m] = c[next[pos[m]]] /\ F[m] \in C
    <3>1. pos[m] = Position(m) /\ next[pos[m]] = Next1(Position(m)) /\ next[pos[m]] \in 1 .. n
      BY <1>6, <1>7, <1>9
    <3>2. F[m] = Circle[Next1(Position(m))]
      BY <1>5, <2>1
    <3> QED  BY <1>2, <1>3, <1>4, <3>1, <3>2
  <2>3. ASSUME NEW m \in Nodes \ C PROVE F[m] = m
    BY <1>5, <2>1
  <2>4. \A m \in Nodes : F[m] \in Nodes
    BY <1>5, <2>2, <2>3
  <2>5. F \in [Nodes -> Nodes]
    BY <2>1, <2>4
  <2> QED  BY <2>2, <2>3, <2>5
<1>12. /\ B \in [Nodes -> Nodes] /\ \A m \in C : B[m] \in C /\ F[B[m]] = m
       /\ \A m \in Nodes \ C : B[m] = m
  <2>1. B = [m \in Nodes |->
               IF InCircle(m)
               THEN CHOOSE k \in ToSet(Circle) : Circle[Next1(Position(k))] = m
               ELSE m]
    BY <1>10 DEF Init
  <2>2. ASSUME NEW m \in C PROVE B[m] \in C /\ F[B[m]] = m
    <3>1. \E k \in C : Circle[Next1(Position(k))] = m
      <4>1. PICK i \in 1 .. n : next[i] = pos[m]
        BY <1>7, <1>9
      <4>2. PICK k \in C : k = c[i]
        BY <1>3, <1>4
      <4>3. pos[k] = i
        BY <1>3, <1>7, <4>2
      <4>4. Next1(Position(k)) = pos[m]
        BY <1>6, <1>9, <4>1, <4>3
      <4> QED  BY <1>2, <1>7, <4>4
    <3>2. B[m] = CHOOSE k \in C : Circle[Next1(Position(k))] = m
      BY <1>5, <2>1
    <3>3. B[m] \in C /\ Circle[Next1(Position(B[m]))] = m
      BY <3>1, <3>2
    <3>4. F[B[m]] = Circle[Next1(Position(B[m]))]
      BY <1>2, <1>6, <1>7, <1>9, <1>11, <3>3
    <3> QED  BY <3>3, <3>4
  <2>3. ASSUME NEW m \in Nodes \ C PROVE B[m] = m
    BY <1>5, <2>1
  <2>4. \A m \in Nodes : B[m] \in Nodes
    BY <1>5, <2>2, <2>3
  <2>5. B \in [Nodes -> Nodes]
    BY <2>1, <2>4
  <2> QED  BY <2>2, <2>3, <2>5
<1>13. \A m, k \in C : F[m] = F[k] => m = k
  <2>1. ASSUME NEW m \in C, NEW k \in C, F[m] = F[k] PROVE m = k
    <3>1. next[pos[m]] = next[pos[k]]
      <4>1. c[next[pos[m]]] = c[next[pos[k]]]
        BY <1>11, <2>1
      <4>2. next[pos[m]] \in 1 .. n /\ next[pos[k]] \in 1 .. n
        BY <1>7, <1>9
      <4> QED  BY <1>3, <4>1, <4>2
    <3>2. pos[m] = pos[k]
      BY <1>7, <1>9, <3>1
    <3> QED  BY <1>7, <3>2
  <2> QED  BY <2>1
<1>14. PICK home : home = [m \in Nodes |-> IF m \in Lists THEN m ELSE "free"]
  OBVIOUS
<1>15. /\ home \in [Nodes -> Lists \cup Threads]
       /\ \A l \in Lists : home[l] = l
       /\ \A f \in Frames : home[f] = "free"
       /\ \A m \in C : home[m] = "free"
       /\ \A m \in Nodes : home[m] \in Lists
  <2>1. Frames \cap Lists = {}
    BY ListsAssumption
  <2> QED  BY <1>4, <1>14, <2>1 DEF Nodes, Lists
<1>16. Circles(F, B, home)
  <2>1. \A m \in Nodes : B[F[m]] = m /\ F[B[m]] = m
    BY <1>11, <1>12, <1>13
  <2>2. \A m \in Nodes : home[F[m]] = home[m]
    BY <1>11, <1>15
  <2>3. \A m \in Nodes : home[m] \notin Threads
    BY <1>15 DEF Lists, Threads
  <2> QED  BY <1>11, <1>12, <1>15, <2>1, <2>2, <2>3 DEF Circles
<1>17. /\ word = [f \in Frames |-> NoWord]
       /\ listLock = [l \in Lists |-> NoThread]
       /\ pageLocks = [f \in Frames |-> NoThread]
       /\ region = [t \in Threads |-> "none"]
       /\ pc = [t \in Threads |-> "idle"]
       /\ left = [t \in Threads |-> 0]
       /\ stores = [t \in Threads |-> <<>>]
       /\ frame = [t \in Threads |-> NoFrame]
       /\ reg = [t \in Threads |-> NoWord]
       /\ victims = [t \in Threads |-> <<>>]
  BY DEF Init
<1>18. NoWord \in Word /\ NoWord.status = PFN_FREE /\ NoWord.diskIndex = 0
  BY DEF NoWord, Word, PfnStatus
<1>19. TypeInv
  <2>1. "idle" \in Steps
    BY DEF Steps, StepsOf
  <2> QED  BY <1>10, <1>11, <1>12, <1>17, <1>18, <2>1 DEF TypeInv
<1>20. StoresLead(F, B) /\ StoresInside(home)
  BY <1>10, <1>17 DEF StoresLead, StoresInside, ToSet, Threads
<1>21. Control
  BY <1>17 DEF Control, StepsOf
<1>22. Locking
  BY <1>17, RegionsAre DEF Locking, ListRegions, InPage, NoThread, Threads
<1>23. Rounds /\ WriterVictims /\ UserVictims
  BY <1>17 DEF Rounds, WriterVictims, UserVictims, Threads, MineAt, InHand, Rescues
<1>24. Hands(home)
  <2>1. IsInjective(<<>>)
    BY DEF IsInjective
  <2> QED  BY <1>15, <1>17, <2>1, OnNone DEF Hands, Threads, MineAt, InHand, Lists
<1>25. Statuses(home)
  BY <1>15, <1>17, <1>18 DEF Statuses, OfList, StatusOfList, Lists
<1>26. Words
  BY <1>17 DEF Words, Threads
<1>27. LinksInv(F, B, home)
  BY <1>16, <1>19, <1>20, <1>21, <1>22, <1>23, <1>24, <1>25, <1>26 DEF LinksInv
<1> QED  BY <1>27

LEMMA StepKeeps ==
  ASSUME NEW F, NEW B, NEW home, LinksInv(F, B, home),
         NEW t \in Threads, Step(t)
  PROVE  IndInv'
<1>1. ASSUME LinksInv(F, B, home)' PROVE IndInv'
  BY <1>1 DEF IndInv
<1>2. ASSUME \E F2, B2, home2 : LinksInv(F2, B2, home2)' PROVE IndInv'
  BY <1>2 DEF IndInv
<1>3. CASE EnterCriticalSection(t)
  BY <1>1, <1>3, EnterKeeps
<1>4. CASE EnterPageLock(t)
  BY <1>1, <1>4, EnterPageKeeps
<1>5. CASE LeavePageLock(t)
  BY <1>1, <1>5, LeavePageKeeps
<1>6. CASE LeaveCriticalSection(t)
  BY <1>1, <1>6, LeaveKeeps
<1>7. CASE pop_page(t)
  <2>1. CASE Flink[ListOf[region[t]]] = ListOf[region[t]]
    BY <1>1, <1>7, <2>1, PopNothing
  <2>2. CASE Flink[ListOf[region[t]]] # ListOf[region[t]]
    BY <1>2, <1>7, <2>2, PopKeeps
  <2> QED  BY <2>1, <2>2
<1>8. CASE add_entry_linked(t)
  BY <1>2, <1>8, AddKeeps
<1>9. CASE removePage_linked(t)
  BY <1>2, <1>9, RemoveKeeps
<1>10. CASE StoreLink(t)
  BY <1>1, <1>10, StoreLinkKeeps
<1>11. CASE ReadWord(t)
  BY <1>1, <1>11, ReadKeeps
<1>12. CASE WriteWord(t)
  <2>1. pc[t] = "write" \/ pc[t] = "writeSlot"
    BY <1>12 DEF WriteWord, At
  <2>2. CASE pc[t] = "write"
    BY <1>1, <1>12, <2>2, WriteStatusKeeps
  <2>3. CASE pc[t] = "writeSlot"
    BY <1>1, <1>12, <2>3, WriteSlotKeeps
  <2> QED  BY <2>1, <2>2, <2>3
<1>13. CASE TakeVictim(t)
  BY <1>1, <1>13, TakeVictimKeeps
<1>14. CASE SecondLook(t)
  <2>1. CASE ~ StatusIs(frame[t], OldStatus[region[t]])
    BY <1>1, <1>14, <2>1, LookFails
  <2>2. CASE StatusIs(frame[t], OldStatus[region[t]])
    <3>1. region[t] \in Rescues \cup {"writePage"}
      <4>1. TypeInv /\ Control /\ pc[t] = "still"
        BY <1>14 DEF LinksInv, SecondLook, At
      <4>2. region[t] \in Regions \cup {"none"} /\ "still" \in StepsOf[region[t]]
        BY <4>1, RegionAt
      <4> QED  BY <4>2, StepsAre
    <3>2. CASE region[t] \in {"rescueModified", "rescueStandby"}
      BY <1>1, <1>14, <2>2, <3>2, RescueLooks
    <3>3. CASE region[t] = "rescueMidwrite"
      <4>1. \E home2 : LinksInv(F, B, home2)'
        BY <1>14, <2>2, <3>3, MidwriteLooks
      <4> QED  BY <1>2, <4>1
    <3>4. CASE region[t] = "writePage"
      BY <1>1, <1>14, <2>2, <3>4, WriterLooks
    <3> QED  BY <3>1, <3>2, <3>3, <3>4 DEF Rescues
  <2> QED  BY <2>1, <2>2
<1> QED
  BY <1>3, <1>4, <1>5, <1>6, <1>7, <1>8, <1>9, <1>10, <1>11, <1>12, <1>13, <1>14
  DEF Step

LEMMA IndStep ==
  IndInv /\ [Next]_vars => IndInv'
<1> SUFFICES ASSUME NEW F, NEW B, NEW home, LinksInv(F, B, home), [Next]_vars
             PROVE  IndInv'
  BY DEF IndInv
<1>1. ASSUME LinksInv(F, B, home)' PROVE IndInv'
  BY <1>1 DEF IndInv
<1>2. CASE \E t \in Threads : Step(t)
  BY <1>2, StepKeeps
<1>3. CASE \/ PopFree \/ PopStandby \/ PopVictims \/ PopModified
           \/ \E f \in Frames : \/ RescueFromList(f, "rescueModified")
                                \/ RescueFromList(f, "rescueStandby")
                                \/ RescueMidwrite(f)
           \/ AddActive \/ MarkVictims \/ WritePage
  BY <1>1, <1>3, BeginKeeps
<1>4. CASE SkipVictim
  BY <1>1, <1>4, SkipKeeps
<1>5. CASE UNCHANGED vars
  BY <1>1, <1>5, StutterKeeps
<1> QED  BY <1>2, <1>3, <1>4, <1>5 DEF Next

LEMMA IndHolds == Spec => []IndInv
<1>1. Init => IndInv
  BY InitLinks DEF IndInv
<1>2. IndInv /\ [Next]_vars => IndInv'
  BY IndStep
<1> QED  BY <1>1, <1>2, PTL DEF Spec
------------------------------------------------------------------------------
(* What the invariant says of the properties that the runs check.          *)

LEMMA SettledIs ==
  ASSUME NEW F, NEW B, TypeInv, StoresLead(F, B)
  PROVE  \A n \in Nodes : SettledFlink(n) = F[n] /\ SettledBlink(n) = B[n]
<1>1. ASSUME NEW n \in Nodes PROVE SettledFlink(n) = F[n]
  <2>1. PICK last : last = {s \in Pending : s.node = n /\ s.field = "Flink"}
    OBVIOUS
  <2>2. SettledFlink(n) = IF last = {} THEN Flink[n] ELSE (CHOOSE s \in last : TRUE).value
    BY <2>1 DEF SettledFlink, Settled
  <2>3. \A s \in last : s.value = F[n]
    BY <2>1 DEF Pending, StoresLead
  <2>4. CASE last = {}
    <3>1. ~ \E t \in Threads : \E s \in ToSet(stores[t]) :
              s.node = n /\ s.field = "Flink"
      BY <2>1, <2>4 DEF Pending
    <3> QED  BY <2>2, <2>4, <3>1 DEF StoresLead
  <2>5. CASE last # {}
    <3>1. (CHOOSE s \in last : TRUE) \in last
      BY <2>5
    <3> QED  BY <2>2, <2>3, <2>5, <3>1
  <2> QED  BY <2>4, <2>5
<1>2. ASSUME NEW n \in Nodes PROVE SettledBlink(n) = B[n]
  <2>1. PICK last : last = {s \in Pending : s.node = n /\ s.field = "Blink"}
    OBVIOUS
  <2>2. SettledBlink(n) = IF last = {} THEN Blink[n] ELSE (CHOOSE s \in last : TRUE).value
    BY <2>1 DEF SettledBlink, Settled
  <2>3. \A s \in last : s.value = B[n]
    BY <2>1 DEF Pending, StoresLead
  <2>4. CASE last = {}
    <3>1. ~ \E t \in Threads : \E s \in ToSet(stores[t]) :
              s.node = n /\ s.field = "Blink"
      BY <2>1, <2>4 DEF Pending
    <3> QED  BY <2>2, <2>4, <3>1 DEF StoresLead
  <2>5. CASE last # {}
    <3>1. (CHOOSE s \in last : TRUE) \in last
      BY <2>5
    <3> QED  BY <2>2, <2>3, <2>5, <3>1
  <2> QED  BY <2>4, <2>5
<1> QED  BY <1>1, <1>2

LEMMA IndInverse == IndInv => LinksAreInverse
<1> SUFFICES ASSUME NEW F, NEW B, NEW home, LinksInv(F, B, home)
             PROVE  LinksAreInverse
  BY DEF IndInv
<1>1. TypeInv /\ Circles(F, B, home) /\ StoresLead(F, B)
  BY DEF LinksInv
<1>2. \A n \in Nodes : SettledFlink(n) = F[n] /\ SettledBlink(n) = B[n]
  BY <1>1, SettledIs
<1>3. \A n \in Nodes : F[n] \in Nodes /\ B[n] \in Nodes /\ B[F[n]] = n /\ F[B[n]] = n
  BY <1>1 DEF Circles
<1> QED  BY <1>2, <1>3 DEF LinksAreInverse

LEMMA IndUnlinked == IndInv => HandledFrameIsUnlinked
<1> SUFFICES ASSUME NEW F, NEW B, NEW home, LinksInv(F, B, home),
                    NEW f \in ToSet(victims["user"]), Idle("user")
             PROVE  Flink[f] = f /\ Blink[f] = f
  BY DEF IndInv, HandledFrameIsUnlinked
<1>1. /\ TypeInv /\ Circles(F, B, home) /\ StoresLead(F, B) /\ StoresInside(home)
      /\ Hands(home)
  BY DEF LinksInv
<1>2. "user" \in Threads
  BY DEF Threads
<1>3. f \in Frames /\ On(victims["user"], f)
  <2>1. victims["user"] \in Seq(Frames)
    BY <1>1, <1>2 DEF TypeInv
  <2>2. PICK i \in DOMAIN victims["user"] : victims["user"][i] = f
    BY DEF ToSet
  <2>3. f \in Frames
    BY <2>1, <2>2, ElementOfSeq, LenProperties
  <2> QED  BY <2>2, <2>3 DEF On, ToSet
<1>4. stores["user"] = <<>> /\ pc["user"] # "remove"
  BY <1>1, <1>2 DEF StoresInside, Idle
<1>5. home[f] = "user" /\ f \in Nodes
  BY <1>1, <1>3, <1>4 DEF Hands, Nodes
<1>6. Flink[f] = F[f] /\ Blink[f] = B[f]
  BY <1>1, <1>2, <1>4, <1>5, OwnLinks DEF May
<1>7. F[f] = f /\ B[f] = f
  <2>1. F[f] = f
    BY <1>1, <1>2, <1>5 DEF Circles
  <2>2. B[F[f]] = f
    BY <1>1, <1>5 DEF Circles
  <2> QED  BY <2>1, <2>2
<1> QED  BY <1>6, <1>7

LEMMA IndTells == IndInv => WordTellsList
<1> SUFFICES ASSUME NEW F, NEW B, NEW home, LinksInv(F, B, home),
                    NEW n \in Nodes, SettledFlink(n) # n
             PROVE  /\ Tells(SettledFlink(n)) = Tells(n)
                    /\ n \in Frames /\ Tells(n) \in {PFN_FREE, PFN_STANDBY} =>
                         word[n].diskIndex = IF Tells(n) = PFN_STANDBY THEN 1 ELSE 0
  BY DEF IndInv, WordTellsList
<1>1. TypeInv /\ Circles(F, B, home) /\ StoresLead(F, B) /\ Statuses(home)
  BY DEF LinksInv
<1>2. PICK m : m = SettledFlink(n)
  OBVIOUS
<1>3. m = F[n] /\ m # n
  BY <1>1, <1>2, SettledIs
<1>4. m \in Nodes /\ home[n] \in Lists /\ home[m] = home[n]
  BY <1>1, <1>3 DEF Circles
<1>5. ASSUME NEW k \in Nodes, home[k] \in Lists
      PROVE  Tells(k) = StatusOfList[home[k]]
  <2>1. CASE k \in Lists
    BY <1>1, <1>5, <2>1 DEF Tells, Circles
  <2>2. CASE k \in Frames
    <3>1. k \notin Lists
      BY <2>2, ListsAssumption
    <3>2. word[k].status = StatusOfList[home[k]]
      BY <1>1, <1>5, <2>2 DEF Statuses, OfList
    <3> QED  BY <3>1, <3>2 DEF Tells
  <2> QED  BY <2>1, <2>2 DEF Nodes
<1>6. Tells(m) = Tells(n)
  BY <1>4, <1>5
<1>7. ASSUME n \in Frames, Tells(n) \in {PFN_FREE, PFN_STANDBY}
      PROVE  word[n].diskIndex = IF Tells(n) = PFN_STANDBY THEN 1 ELSE 0
  <2>1. StatusOfList[home[n]] = Tells(n)
    BY <1>4, <1>5
  <2>2. OfList(word[n], home[n])
    BY <1>1, <1>4, <1>7 DEF Statuses
  <2>3. CASE home[n] = "free"
    <3>1. Tells(n) = PFN_FREE /\ PFN_FREE # PFN_STANDBY
      BY <2>1, <2>3 DEF StatusOfList, PFN_FREE, PFN_STANDBY
    <3> QED  BY <2>2, <2>3, <3>1 DEF OfList
  <2>4. CASE home[n] = "standby"
    <3>1. Tells(n) = PFN_STANDBY
      BY <2>1, <2>4 DEF StatusOfList
    <3> QED  BY <2>2, <2>4, <3>1 DEF OfList
  <2>5. home[n] \notin {"active", "modified"}
    BY <1>7, <2>1 DEF StatusOfList, PFN_FREE, PFN_STANDBY, PFN_ACTIVE, PFN_MODIFIED
  <2> QED  BY <1>4, <2>3, <2>4, <2>5 DEF Lists
<1> QED  BY <1>2, <1>6, <1>7
------------------------------------------------------------------------------
(* Whatever store is still to be made, going back along the links of a     *)
(* page list is the inverse of going forward, so that no entry is lost or  *)
(* on two lists (lists.c:8-39, 106-117).                                   *)
THEOREM LinksAreAlwaysInverse == Spec => []LinksAreInverse
BY IndHolds, IndInverse, PTL

(* The entry of a frame that the user thread has taken and holds between   *)
(* its locked regions points to itself (lists.c:35, and the ASSERTs at     *)
(* pagefaulthandler.c:10, 25 and 113, which look without a lock).          *)
THEOREM HandledFrameIsAlwaysUnlinked == Spec => []HandledFrameIsUnlinked
BY IndHolds, IndUnlinked, PTL

(* No read and write back of the word that holds a frame's status and      *)
(* diskIndex undoes another thread's: the frames that are linked to each   *)
(* other always have one status, that of their list, and the slot that     *)
(* goes with it.                                                           *)
THEOREM WordAlwaysTellsList == Spec => []WordTellsList
BY IndHolds, IndTells, PTL
==============================================================================

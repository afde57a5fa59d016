----------------------------- MODULE Tsd_proofs -----------------------------
(***************************************************************************)
(* The safety properties of Tsd, for any users and any number of calls,    *)
(* posts and restarts, and its refinement of SocialGraph.  Where a theorem *)
(* needs clients of different users it says so (OneClientEach).            *)
(***************************************************************************)
EXTENDS Tsd, FiniteSetTheorems, TLAPS

OneClientEach == \A c, d \in Clients : OwnerOf[c] = OwnerOf[d] => c = d

FollowSteps   == {"write follow", "add following", "add follower"}
UnFollowSteps == {"write unfollow", "drop following", "drop follower"}

\* A handler past its checks acts for two different users; one that distributes
\* a post has one of its user; a server that is down runs no handler.
HandlersBusy ==
    \A c \in Clients :
        /\ task[c] \in FollowSteps \cup UnFollowSteps => arg[c] # OwnerOf[c]
        /\ task[c] \in {"write own", "write followers"} =>
               post[c] \in Posts /\ post[c][1] = OwnerOf[c]
        /\ server = "down" => task[c] = "idle"

-----------------------------------------------------------------------------
LEMMA LineTypes ==
    /\ \A k \in {"newuser", "follow", "unfollow"}, u, v \in Users : Line(k, u, v) \in Lines
    /\ \A l \in Lines : l.a \in Users /\ l.b \in Users
    /\ \A c \in Clients : OwnerOf[c] \in Users
    /\ \A k, u, v, m, x, y : Line(k, u, v) = Line(m, x, y) => k = m /\ u = x /\ v = y
    /\ \A k, u, v : Line(k, u, v).kind = k /\ Line(k, u, v).a = u /\ Line(k, u, v).b = v
    /\ \A l \in Lines : l = Line(l.kind, l.a, l.b)
  BY TsdAssumption DEF Line, Lines

\* How often a line stands among the first k of a sequence.
CountOf(txt, l, k) == Cardinality({j \in 1..k : txt[j] = l})

LEMMA CountFacts ==
    ASSUME NEW txt \in Seq(Lines), NEW l, NEW k \in Nat
    PROVE  /\ CountOf(txt, l, k) \in Nat
           /\ IsFiniteSet({j \in 1..k : txt[j] = l})
           /\ CountOf(txt, l, k) > 0 <=> \E j \in 1..k : txt[j] = l
<1> DEFINE S == {j \in 1..k : txt[j] = l}
<1>1. IsFiniteSet(1..k)
  BY FS_Interval
<1>2. IsFiniteSet(S)
  BY <1>1, FS_Subset
<1>3. Cardinality(S) \in Nat /\ (Cardinality(S) = 0 <=> S = {})
  BY <1>2, FS_CardinalityType, FS_EmptySet
<1>. QED  BY <1>2, <1>3 DEF CountOf

LEMMA AppendFacts ==
    ASSUME NEW txt \in Seq(Lines), NEW l \in Lines
    PROVE  /\ Append(txt, l) \in Seq(Lines)
           /\ Len(txt) + 1 \in DOMAIN Append(txt, l)
           /\ Append(txt, l)[Len(txt) + 1] = l
<1>1. /\ Append(txt, l) \in Seq(Lines) /\ Len(txt) \in Nat
      /\ DOMAIN Append(txt, l) = 1..(Len(txt) + 1)
      /\ Append(txt, l)[Len(txt) + 1] = l
  OBVIOUS
<1>. QED  BY <1>1

LEMMA CountBefore ==
    ASSUME NEW txt \in Seq(Lines), NEW n \in Lines, NEW l, NEW k \in 0..Len(txt)
    PROVE  CountOf(Append(txt, n), l, k) = CountOf(txt, l, k)
<1>1. \A j \in 1..k : Append(txt, n)[j] = txt[j]
  OBVIOUS
<1>. QED  BY <1>1 DEF CountOf

LEMMA CountAppend ==
    ASSUME NEW txt \in Seq(Lines), NEW n \in Lines, NEW l
    PROVE  CountOf(Append(txt, n), l, Len(txt) + 1) =
               CountOf(txt, l, Len(txt)) + IF n = l THEN 1 ELSE 0
<1>0. /\ Len(txt) \in Nat
      /\ \A j \in 1..Len(txt) : Append(txt, n)[j] = txt[j]
      /\ Append(txt, n)[Len(txt) + 1] = n
  OBVIOUS
<1> DEFINE S == {j \in 1..Len(txt) : txt[j] = l}
<1> DEFINE T == {j \in 1..(Len(txt) + 1) : Append(txt, n)[j] = l}
<1>2. IsFiniteSet(S)
  BY <1>0, CountFacts
<1>3. CASE n = l
  <2>1. T = S \cup {Len(txt) + 1}
    BY <1>0, <1>3
  <2>2. Len(txt) + 1 \notin S
    BY <1>0
  <2>3. Cardinality(T) = Cardinality(S) + 1
    BY <1>2, <2>1, <2>2, FS_AddElement
  <2>. QED  BY <1>3, <2>3 DEF CountOf
<1>4. CASE n # l
  <2>1. T = S
    BY <1>0, <1>4
  <2>2. Cardinality(S) \in Nat
    BY <1>2, FS_CardinalityType
  <2>3. Cardinality(T) = Cardinality(S) + 0
    <3> HIDE DEF S, T
    <3>. QED  BY <2>1, <2>2
  <2>. QED  BY <1>4, <2>3 DEF CountOf
<1>. QED  BY <1>3, <1>4

-----------------------------------------------------------------------------
LEMMA NetTypes ==
    ASSUME users_txt \in Seq(Lines)
    PROVE  /\ \A l : \A k \in Nat : Occurs(l, k) = CountOf(users_txt, l, k) /\ Occurs(l, k) \in Nat
           /\ \A u, v : \A k \in Nat : Net(u, v, k) \in Int
           /\ \A u, v : Net(u, v, Len(users_txt)) \in Int
<1>1. \A l : \A k \in Nat : Occurs(l, k) = CountOf(users_txt, l, k)
  BY DEF Occurs, CountOf
<1>2. ASSUME NEW l, NEW k \in Nat PROVE Occurs(l, k) \in Nat
  <2>1. CountOf(users_txt, l, k) \in Nat
    BY CountFacts
  <2>. QED  BY <1>1, <2>1
<1>3. Len(users_txt) \in Nat
  OBVIOUS
<1>. QED  BY <1>1, <1>2, <1>3 DEF Net

LEMMA TypeStep == TypeOK /\ HandlersBusy /\ [Next]_vars => TypeOK'
<1> SUFFICES ASSUME TypeOK, HandlersBusy, [Next]_vars PROVE TypeOK'
  OBVIOUS
<1> USE DEF TypeOK, memory, user, posts
<1>o. \A c \in Clients : OwnerOf[c] \in Users /\ arg[c] \in Users
  BY LineTypes
<1>c. ASSUME calls < MaxCalls, calls' = calls + 1 PROVE calls' \in 0..MaxCalls
  BY <1>c, TsdAssumption
<1>s. /\ {"idle", "check", "enter", "record", "activate", "check follow", "write follow",
          "add following", "add follower", "check unfollow", "write unfollow",
          "drop following", "drop follower", "read", "write own", "write followers"} \subseteq Steps
      /\ \A c \in Clients : \A there \in Steps :
             Goto(c, there) => task' \in [Clients -> Steps]
  BY DEF Steps, Goto
<1>n. \A c \in [Users -> [Users -> Nat]], u \in Users, v \in Users :
          /\ [c EXCEPT ![u][v] = @ + 1] \in [Users -> [Users -> Nat]]
          /\ c[u][v] # 0 => [c EXCEPT ![u][v] = @ - 1] \in [Users -> [Users -> Nat]]
  OBVIOUS
<1>w. \A c \in [Clients -> [Users -> Nat]], d \in Clients, v \in Users :
          /\ [c EXCEPT ![d][v] = @ + 1] \in [Clients -> [Users -> Nat]]
          /\ c[d][v] # 0 => [c EXCEPT ![d][v] = @ - 1] \in [Clients -> [Users -> Nat]]
  OBVIOUS
<1>x. \A l \in Lines : Append(users_txt, l) \in Seq(Lines)
  OBVIOUS
<1>1. ASSUME NEW c \in Clients, connectTo(c) PROVE TypeOK'
  BY <1>1, <1>c, <1>s DEF connectTo
<1>2. ASSUME NEW c \in Clients, NEW v \in Users, Command(c, v) PROVE TypeOK'
  BY <1>2, <1>c, <1>s DEF Command
<1>3. ASSUME NEW c \in Clients, EnterTimeline(c) PROVE TypeOK'
  BY <1>3, <1>s DEF EnterTimeline
<1>4. ASSUME NEW c \in Clients, Poll(c) PROVE TypeOK'
  BY <1>4, <1>o DEF Poll, Unread
<1>5. ASSUME NEW c \in Clients, Quit(c) PROVE TypeOK'
  BY <1>5 DEF Quit
<1>6. ASSUME NEW c \in Clients, LoginCheck(c) PROVE TypeOK'
  BY <1>6, <1>s DEF LoginCheck
<1>7. ASSUME NEW c \in Clients, LoginEnter(c) PROVE TypeOK'
  BY <1>7, <1>o, <1>s DEF LoginEnter
<1>8. ASSUME NEW c \in Clients, LoginRecord(c) PROVE TypeOK'
  BY <1>8, <1>o, <1>s, <1>x, LineTypes DEF LoginRecord
<1>9. ASSUME NEW c \in Clients, LoginActivate(c) PROVE TypeOK'
  BY <1>9, <1>o, <1>s DEF LoginActivate, Activated
<1>10. ASSUME NEW c \in Clients, FollowCheck(c) \/ UnFollowCheck(c) PROVE TypeOK'
  BY <1>10, <1>s DEF FollowCheck, UnFollowCheck
<1>11. ASSUME NEW c \in Clients, FollowWrite(c) PROVE TypeOK'
  BY <1>11, <1>o, <1>s, <1>x, LineTypes DEF FollowWrite, AfterFollow
<1>12. ASSUME NEW c \in Clients, FollowAddFollowing(c) PROVE TypeOK'
  <2>1. following' \in Counts /\ task' \in [Clients -> Steps]
    BY <1>12, <1>o, <1>s, <1>n DEF FollowAddFollowing, Counts
  <2>. QED  BY <1>12, <2>1 DEF FollowAddFollowing
<1>13. ASSUME NEW c \in Clients, FollowAddFollower(c) PROVE TypeOK'
  <2>1. followers' \in Counts /\ task' \in [Clients -> Steps]
    BY <1>13, <1>o, <1>s, <1>n DEF FollowAddFollower, Counts
  <2>2. owed' \in [Clients -> [Users -> Nat]]
    BY <1>13, <1>o, <1>w DEF FollowAddFollower
  <2>. QED  BY <1>13, <2>1, <2>2 DEF FollowAddFollower
<1>14. ASSUME NEW c \in Clients, UnFollowWrite(c) PROVE TypeOK'
  <2>1. users_txt' \in Seq(Lines) /\ task' \in [Clients -> Steps]
    BY <1>14, <1>o, <1>s, <1>x, LineTypes DEF UnFollowWrite
  <2>2. owed' \in [Clients -> [Users -> Nat]] /\ careless' \in BOOLEAN
    <3>1. CASE owed[c][arg[c]] = 0
      BY <1>14, <3>1 DEF UnFollowWrite
    <3>2. CASE owed[c][arg[c]] # 0
      <4>1. owed' = [owed EXCEPT ![c][arg[c]] = @ - 1] /\ UNCHANGED careless
        BY <1>14, <3>2 DEF UnFollowWrite
      <4>. QED  BY <3>2, <4>1, <1>o, <1>w
    <3>. QED  BY <3>1, <3>2
  <2>. QED  BY <1>14, <2>1, <2>2 DEF UnFollowWrite
<1>15. ASSUME NEW c \in Clients, UnFollowDropFollowing(c) PROVE TypeOK'
  <2>1. following' \in Counts /\ task' \in [Clients -> Steps] /\ server' \in {"up", "down", "wrecked"}
    <3>1. CASE following[OwnerOf[c]][arg[c]] > 0
      <4>1. /\ following' = [following EXCEPT ![OwnerOf[c]][arg[c]] = @ - 1]
            /\ Goto(c, "drop follower") /\ UNCHANGED server
        BY <1>15, <3>1 DEF UnFollowDropFollowing
      <4>2. following[OwnerOf[c]][arg[c]] # 0
        BY <3>1
      <4>. QED  BY <4>1, <4>2, <1>o, <1>s, <1>n DEF Counts
    <3>2. CASE ~(following[OwnerOf[c]][arg[c]] > 0)
      BY <1>15, <3>2 DEF UnFollowDropFollowing
    <3>. QED  BY <3>1, <3>2
  <2>. QED  BY <1>15, <2>1 DEF UnFollowDropFollowing
<1>16. ASSUME NEW c \in Clients, UnFollowDropFollower(c) PROVE TypeOK'
  <2>1. followers' \in Counts /\ task' \in [Clients -> Steps] /\ server' \in {"up", "down", "wrecked"}
    <3>1. CASE followers[arg[c]][OwnerOf[c]] > 0
      <4>1. /\ followers' = [followers EXCEPT ![arg[c]][OwnerOf[c]] = @ - 1]
            /\ Goto(c, "idle") /\ UNCHANGED server
        BY <1>16, <3>1 DEF UnFollowDropFollower, WithoutFollower
      <4>2. followers[arg[c]][OwnerOf[c]] # 0
        BY <3>1
      <4>. QED  BY <4>1, <4>2, <1>o, <1>s, <1>n DEF Counts
    <3>2. CASE ~(followers[arg[c]][OwnerOf[c]] > 0)
      BY <1>16, <3>2 DEF UnFollowDropFollower
    <3>. QED  BY <3>1, <3>2
  <2>. QED  BY <1>16, <2>1 DEF UnFollowDropFollower
<1>17. ASSUME NEW c \in Clients, List(c) PROVE TypeOK'
  BY <1>17 DEF List, Followed
<1>18. ASSUME NEW c \in Clients, ReadPost(c) PROVE TypeOK'
  <2>1. calls' \in 0..MaxCalls
    BY <1>18, <1>c DEF ReadPost
  <2>2. typed[OwnerOf[c]] + 1 \in 0..MaxPosts
    <3>1. typed[OwnerOf[c]] \in 0..MaxPosts /\ typed[OwnerOf[c]] < MaxPosts
      BY <1>18, <1>o DEF ReadPost
    <3>. QED  BY <3>1, TsdAssumption
  <2>3. /\ typed' \in [Users -> 0..MaxPosts] /\ post' \in [Clients -> Users \X (0..MaxPosts)]
        /\ task' \in [Clients -> Steps]
    BY <1>18, <1>o, <1>s, <2>2 DEF ReadPost
  <2>. QED  BY <1>18, <2>1, <2>3 DEF ReadPost
<1>22. ASSUME NEW c \in Clients, WriteOwn(c) PROVE TypeOK'
  <2>1. post[c] \in Posts /\ Recipients(OwnerOf[c]) \subseteq Users
    BY <1>22 DEF WriteOwn, At, HandlersBusy, Recipients
  <2>2. file' \in [Users -> SUBSET Posts] /\ todo' \in [Clients -> SUBSET Users]
    BY <1>22, <1>o, <2>1 DEF WriteOwn
  <2>. QED  BY <1>22, <1>s, <2>2 DEF WriteOwn
<1>23. ASSUME NEW c \in Clients, NEW v \in Users, WriteFollower(c, v) PROVE TypeOK'
  <2>1. post[c] \in Posts
    BY <1>23 DEF WriteFollower, At, HandlersBusy
  <2>. QED  BY <1>23, <2>1 DEF WriteFollower
<1>24. ASSUME NEW c \in Clients, NextRead(c) PROVE TypeOK'
  BY <1>24, <1>s DEF NextRead
<1>19. CASE Kill
  BY <1>19, <1>s DEF Kill, NoCounts, Counts
<1>20. CASE RunServer
  <2>1. restarts' \in 0..MaxRestarts
    BY <1>20, TsdAssumption DEF RunServer
  <2>2. Entered \subseteq Users
    BY LineTypes DEF Entered
  <2>3. \A u, v \in Users : Net(u, v, Len(users_txt)) \in Int
    BY NetTypes
  <2>4. Recorded \in Counts /\ RecordedFollowers \in Counts
    <3>1. \A u, v \in Users : Recorded[u][v] \in Nat
      BY <2>3 DEF Recorded
    <3>2. Recorded \in [Users -> [Users -> Nat]]
      <4>1. \A u \in Users : Recorded[u] \in [Users -> Nat]
        BY <2>3 DEF Recorded
      <4>. QED  BY <4>1 DEF Recorded
    <3>. QED  BY <3>1, <3>2 DEF RecordedFollowers, Counts
  <2>. QED  BY <1>20, <2>1, <2>2, <2>4 DEF RunServer
<1>21. CASE UNCHANGED vars
  BY <1>21 DEF vars
<1>. QED
  BY <1>1, <1>2, <1>3, <1>4, <1>5, <1>6, <1>7, <1>8, <1>9, <1>10, <1>11, <1>12, <1>13,
     <1>14, <1>15, <1>16, <1>17, <1>18, <1>19, <1>20, <1>21, <1>22, <1>23, <1>24
     DEF Next, Distribute

LEMMA HandlersBusyStep == TypeOK /\ HandlersBusy /\ [Next]_vars => HandlersBusy'
<1> SUFFICES ASSUME TypeOK, HandlersBusy, [Next]_vars, NEW d \in Clients
             PROVE  /\ task'[d] \in FollowSteps \cup UnFollowSteps => arg'[d] # OwnerOf[d]
                    /\ task'[d] \in {"write own", "write followers"} =>
                           post'[d] \in Posts /\ post'[d][1] = OwnerOf[d]
                    /\ server' = "down" => task'[d] = "idle"
  BY DEF HandlersBusy
<1> DEFINE Goal == /\ task'[d] \in FollowSteps \cup UnFollowSteps => arg'[d] # OwnerOf[d]
                   /\ task'[d] \in {"write own", "write followers"} =>
                          post'[d] \in Posts /\ post'[d][1] = OwnerOf[d]
                   /\ server' = "down" => task'[d] = "idle"
<1> USE DEF posts
<1>t. task \in [Clients -> Steps] /\ server \in {"up", "down", "wrecked"}
  BY DEF TypeOK
<1>0. ASSUME UNCHANGED <<arg, post>>, task'[d] = task[d] \/ task'[d] = "idle",
             server' = "down" => server = "down" \/ task'[d] = "idle"
      PROVE  Goal
  BY <1>0 DEF HandlersBusy, FollowSteps, UnFollowSteps
<1>1. ASSUME NEW c \in Clients, connectTo(c) PROVE Goal
  BY <1>0, <1>1, <1>t DEF connectTo, Goto, FollowSteps, UnFollowSteps
<1>2. ASSUME NEW c \in Clients, NEW v \in Users, Command(c, v) PROVE Goal
  <2>1. CASE c = d
    BY <1>2, <1>t, <2>1 DEF Command, Goto, FollowSteps, UnFollowSteps
  <2>2. CASE c # d
    <3>1. task'[d] = task[d] /\ arg'[d] = arg[d] /\ UNCHANGED <<post, server>>
      BY <1>2, <1>t, <2>2 DEF Command, Goto, TypeOK
    <3>. QED  BY <3>1 DEF HandlersBusy
  <2>. QED  BY <2>1, <2>2
<1>3. ASSUME NEW c \in Clients, EnterTimeline(c) PROVE Goal
  BY <1>0, <1>3, <1>t DEF EnterTimeline, Goto, FollowSteps, UnFollowSteps
<1>4. ASSUME NEW c \in Clients, NEW here, At(c, here), NEW there, Goto(c, there),
             UNCHANGED <<arg, post>>, server' # "down",
             there \in FollowSteps \cup UnFollowSteps => arg[c] # OwnerOf[c],
             there \in {"write own", "write followers"} =>
                 post[c] \in Posts /\ post[c][1] = OwnerOf[c]
      PROVE  Goal
  <2>1. CASE c = d
    BY <1>4, <1>t, <2>1 DEF Goto
  <2>2. CASE c # d
    BY <1>0, <1>4, <1>t, <2>2 DEF Goto
  <2>. QED  BY <2>1, <2>2
<1>5. ASSUME NEW c \in Clients,
             LoginCheck(c) \/ LoginEnter(c) \/ LoginRecord(c) \/ LoginActivate(c)
      PROVE  Goal
  <2>1. PICK there \in Steps : /\ Goto(c, there) /\ UNCHANGED <<arg, post, server>>
                              /\ server = "up"
                              /\ there \in {"idle", "check", "enter", "record", "activate"}
    BY <1>5 DEF LoginCheck, LoginEnter, LoginRecord, LoginActivate, At, Steps
  <2>. QED  BY <1>0, <1>t, <2>1 DEF Goto, FollowSteps, UnFollowSteps
<1>6. ASSUME NEW c \in Clients, FollowCheck(c) \/ UnFollowCheck(c) PROVE Goal
  <2>1. CASE Refused(c)
    BY <1>0, <1>6, <1>t, <2>1 DEF FollowCheck, UnFollowCheck, At, Goto
  <2>2. CASE ~Refused(c)
    <3>1. arg[c] # OwnerOf[c] /\ server' = "up" /\ UNCHANGED <<arg, post>>
      BY <1>6, <2>2 DEF Refused, FollowCheck, UnFollowCheck, At
    <3>2. CASE FollowCheck(c)
      BY <1>4, <2>2, <3>1, <3>2 DEF FollowCheck
    <3>3. CASE UnFollowCheck(c)
      BY <1>4, <2>2, <3>1, <3>3 DEF UnFollowCheck
    <3>. QED  BY <1>6, <3>2, <3>3
  <2>. QED  BY <2>1, <2>2
<1>7. ASSUME NEW c \in Clients,
             FollowWrite(c) \/ FollowAddFollowing(c) \/ FollowAddFollower(c)
               \/ UnFollowWrite(c) \/ UnFollowDropFollowing(c) \/ UnFollowDropFollower(c)
      PROVE  Goal
  <2>1. UNCHANGED <<arg, post>> /\ server' # "down"
    BY <1>7 DEF FollowWrite, FollowAddFollowing, FollowAddFollower, UnFollowWrite,
                UnFollowDropFollowing, UnFollowDropFollower, At
  <2>2. arg[c] # OwnerOf[c]
    BY <1>7 DEF FollowWrite, FollowAddFollowing, FollowAddFollower, UnFollowWrite,
                UnFollowDropFollowing, UnFollowDropFollower, At, HandlersBusy, FollowSteps,
                UnFollowSteps
  <2>3. \/ task' = task
        \/ \E there \in FollowSteps \cup UnFollowSteps \cup {"idle"} : Goto(c, there)
    BY <1>7 DEF FollowWrite, FollowAddFollowing, FollowAddFollower, UnFollowWrite,
                UnFollowDropFollowing, UnFollowDropFollower, FollowSteps, UnFollowSteps
  <2>4. CASE task' = task
    BY <1>0, <2>1, <2>4
  <2>5. ASSUME NEW there \in FollowSteps \cup UnFollowSteps \cup {"idle"}, Goto(c, there)
        PROVE  Goal
    <3>1. CASE c = d
      BY <1>t, <2>1, <2>2, <2>5, <3>1 DEF Goto, FollowSteps, UnFollowSteps
    <3>2. CASE c # d
      BY <1>0, <1>t, <2>1, <2>5, <3>2 DEF Goto
    <3>. QED  BY <3>1, <3>2
  <2>. QED  BY <2>3, <2>4, <2>5
<1>8. ASSUME NEW c \in Clients, ReadPost(c) PROVE Goal
  <2>1. CASE c = d
    <3>1. /\ task'[d] = "write own" /\ post'[d] = <<OwnerOf[d], typed[OwnerOf[d]] + 1>>
          /\ server' = "up"
      BY <1>8, <1>t, <2>1 DEF ReadPost, At, Goto, TypeOK
    <3>2. typed[OwnerOf[d]] + 1 \in 1..MaxPosts /\ OwnerOf[d] \in Users
      <4>1. /\ typed[OwnerOf[d]] \in 0..MaxPosts /\ typed[OwnerOf[d]] < MaxPosts
            /\ OwnerOf[d] \in Users
        BY <1>8, <2>1, LineTypes DEF ReadPost, TypeOK
      <4>. QED  BY <4>1, TsdAssumption
    <3>3. <<OwnerOf[d], typed[OwnerOf[d]] + 1>> \in Posts
      BY <3>2 DEF Posts
    <3>6. post'[d][1] = OwnerOf[d]
      <4>1. \A n : <<OwnerOf[d], n>>[1] = OwnerOf[d]
        OBVIOUS
      <4>. QED  BY <3>1, <4>1, Zenon
    <3>7. post'[d] \in Posts
      BY <3>1, <3>3, Zenon
    <3>4. post'[d] \in Posts /\ post'[d][1] = OwnerOf[d]
      BY <3>6, <3>7
    <3>5. task'[d] \notin FollowSteps \cup UnFollowSteps
      BY <3>1 DEF FollowSteps, UnFollowSteps
    <3>. QED  BY <3>1, <3>4, <3>5
  <2>2. CASE c # d
    <3>1. task'[d] = task[d] /\ post'[d] = post[d] /\ UNCHANGED <<arg, server>>
      BY <1>8, <1>t, <2>2 DEF ReadPost, Goto, TypeOK
    <3>. QED  BY <3>1 DEF HandlersBusy
  <2>. QED  BY <2>1, <2>2
<1>9. ASSUME NEW c \in Clients, WriteOwn(c) PROVE Goal
  <2>1. post[c] \in Posts /\ post[c][1] = OwnerOf[c]
    BY <1>9 DEF WriteOwn, At, HandlersBusy
  <2>. QED  BY <1>4, <1>9, <2>1 DEF WriteOwn, At, FollowSteps, UnFollowSteps
<1>10. ASSUME NEW c \in Clients, NextRead(c) PROVE Goal
  <2>1. /\ UNCHANGED <<arg, post, server>> /\ server = "up"
        /\ Goto(c, "read") \/ Goto(c, "idle")
    BY <1>10 DEF NextRead, At
  <2>. QED  BY <1>0, <1>t, <2>1 DEF Goto, FollowSteps, UnFollowSteps
<1>11. CASE Kill
  BY <1>0, <1>11 DEF Kill
<1>12. CASE RunServer
  BY <1>0, <1>12 DEF RunServer
<1>13. CASE UNCHANGED <<arg, post, task, server>>
  BY <1>0, <1>13
<1>. QED
  BY <1>1, <1>2, <1>3, <1>5, <1>6, <1>7, <1>8, <1>9, <1>10, <1>11, <1>12, <1>13
     DEF Next, Distribute, WriteFollower, Poll, Quit, List, vars

\* What the other proofs rest on.
Strong == TypeOK /\ HandlersBusy

LEMMA InitStrong == Init => Strong
<1> SUFFICES ASSUME Init PROVE Strong
  OBVIOUS
<1>1. /\ following \in Counts /\ followers \in Counts
      /\ owed \in [Clients -> [Users -> Nat]]
  BY DEF Init, NoCounts, Counts
<1>2. /\ typed \in [Users -> 0..MaxPosts] /\ post \in [Clients -> Users \X (0..MaxPosts)]
      /\ calls \in 0..MaxCalls /\ restarts \in 0..MaxRestarts
  BY TsdAssumption DEF Init
<1>3. /\ arg \in [Clients -> Users]
      /\ conn \in [Clients -> {"out", "in", "timeline"}]
      /\ task \in [Clients -> Steps]
      /\ shown \in [Clients -> SUBSET Users]
      /\ file \in [Users -> SUBSET Posts]
      /\ todo \in [Clients -> SUBSET Users]
      /\ lines \in [Clients -> SUBSET Posts]
  BY TsdAssumption DEF Init, Steps
<1>4. TypeOK
  <2>1. server \in {"up", "down", "wrecked"} /\ usernames \subseteq Users
    BY DEF Init
  <2>2. active_users \subseteq Users /\ careless \in BOOLEAN
    BY DEF Init
  <2>3. users_txt \in Seq(Lines)
    BY DEF Init
  <2>. QED  BY <1>1, <1>2, <1>3, <2>1, <2>2, <2>3 DEF TypeOK
<1>5. HandlersBusy
  BY DEF Init, HandlersBusy, FollowSteps, UnFollowSteps
<1>. QED  BY <1>4, <1>5 DEF Strong

LEMMA StrongStep == Strong /\ [Next]_vars => Strong'
  BY TypeStep, HandlersBusyStep DEF Strong

\* Every variable of the single server keeps its type: in particular no count of
\* follows falls below zero while the server runs.
THEOREM TypeCorrect == Spec => []TypeOK
<1>. QED  BY InitStrong, StrongStep, PTL DEF Spec, Strong

-----------------------------------------------------------------------------
\* Follows less unfollows, in a file as a value.
NetOf(txt, u, v, k) == CountOf(txt, Line("follow", u, v), k) - CountOf(txt, Line("unfollow", u, v), k)
NetIn(txt, u, v) == NetOf(txt, u, v, Len(txt))
NetNow(u, v) == NetIn(users_txt, u, v)
ReplayableFile(txt) ==
    \A k \in DOMAIN txt : txt[k].kind = "unfollow" => NetOf(txt, txt[k].a, txt[k].b, k - 1) > 0

One(b) == IF b THEN 1 ELSE 0

LEMMA FileForms ==
    ASSUME users_txt \in Seq(Lines)
    PROVE  /\ Replayable <=> ReplayableFile(users_txt)
           /\ \A u, v \in Users : NetNow(u, v) \in Int
           /\ \A u, v \in Users : Recorded[u][v] = IF NetNow(u, v) > 0 THEN NetNow(u, v) ELSE 0
<1>1. \A u, v, k : Net(u, v, k) = NetOf(users_txt, u, v, k)
  BY DEF Net, NetOf, Occurs, CountOf
<1>2. Len(users_txt) \in Nat
  OBVIOUS
<1>3. ASSUME NEW u \in Users, NEW v \in Users PROVE NetNow(u, v) \in Int
  BY <1>1, <1>2, NetTypes DEF NetNow, NetIn
<1>4. ASSUME NEW u \in Users, NEW v \in Users
      PROVE  Recorded[u][v] = IF NetNow(u, v) > 0 THEN NetNow(u, v) ELSE 0
  BY <1>1 DEF Recorded, NetNow, NetIn
<1>. QED  BY <1>1, <1>3, <1>4 DEF Replayable, ReplayableFile

\* What one more line does.
LEMMA NetAppend ==
    ASSUME NEW txt \in Seq(Lines), NEW l \in Lines
    PROVE  /\ \A u, v \in Users :
                  NetOf(Append(txt, l), u, v, Len(Append(txt, l))) =
                      NetOf(txt, u, v, Len(txt)) + One(l = Line("follow", u, v))
                                                 - One(l = Line("unfollow", u, v))
           /\ ReplayableFile(Append(txt, l)) <=>
                  /\ ReplayableFile(txt)
                  /\ l.kind = "unfollow" => NetOf(txt, l.a, l.b, Len(txt)) > 0
<1> DEFINE app == Append(txt, l)
<1>0. /\ Len(txt) \in Nat /\ Len(app) = Len(txt) + 1
      /\ DOMAIN txt = 1..Len(txt) /\ DOMAIN app = 1..(Len(txt) + 1)
      /\ \A j \in 1..Len(txt) : app[j] = txt[j]
      /\ app[Len(txt) + 1] = l
  OBVIOUS
<1>1. ASSUME NEW u \in Users, NEW v \in Users
      PROVE  NetOf(app, u, v, Len(app)) =
                 NetOf(txt, u, v, Len(txt)) + One(l = Line("follow", u, v))
                                            - One(l = Line("unfollow", u, v))
  <2> DEFINE f == CountOf(txt, Line("follow", u, v), Len(txt))
  <2> DEFINE g == CountOf(txt, Line("unfollow", u, v), Len(txt))
  <2>1. f \in Nat /\ g \in Nat
    BY <1>0, CountFacts
  <2>2. CountOf(app, Line("follow", u, v), Len(app)) = f + One(l = Line("follow", u, v))
    BY <1>0, CountAppend DEF One
  <2>3. CountOf(app, Line("unfollow", u, v), Len(app)) = g + One(l = Line("unfollow", u, v))
    BY <1>0, CountAppend DEF One
  <2>4. One(l = Line("follow", u, v)) \in Nat /\ One(l = Line("unfollow", u, v)) \in Nat
    BY DEF One
  <2> HIDE DEF f, g
  <2>5. NetOf(app, u, v, Len(app)) = (f + One(l = Line("follow", u, v)))
                                       - (g + One(l = Line("unfollow", u, v)))
    BY <2>2, <2>3 DEF NetOf
  <2>6. NetOf(txt, u, v, Len(txt)) = f - g
    BY DEF NetOf, f, g
  <2>. QED  BY <2>1, <2>4, <2>5, <2>6
<1>2. ASSUME NEW u, NEW v, NEW k \in 0..Len(txt)
      PROVE  NetOf(app, u, v, k) = NetOf(txt, u, v, k)
  <2>1. CountOf(app, Line("follow", u, v), k) = CountOf(txt, Line("follow", u, v), k)
    BY CountBefore
  <2>2. CountOf(app, Line("unfollow", u, v), k) = CountOf(txt, Line("unfollow", u, v), k)
    BY CountBefore
  <2>. QED  BY <2>1, <2>2 DEF NetOf
<1>3. \A k \in 1..Len(txt) : k - 1 \in 0..Len(txt)
  BY <1>0
<1>4. ReplayableFile(app) <=> ReplayableFile(txt)
                              /\ (l.kind = "unfollow" => NetOf(txt, l.a, l.b, Len(txt)) > 0)
  <2> HIDE DEF app
  <2>1. Len(txt) + 1 - 1 = Len(txt) /\ Len(txt) \in 0..Len(txt)
        /\ 1..(Len(txt) + 1) = 1..Len(txt) \cup {Len(txt) + 1}
    BY <1>0
  <2>2. NetOf(app, l.a, l.b, Len(txt) + 1 - 1) = NetOf(txt, l.a, l.b, Len(txt))
    BY <1>2, <2>1
  <2>3. \A k \in 1..Len(txt) : NetOf(app, txt[k].a, txt[k].b, k - 1)
                                  = NetOf(txt, txt[k].a, txt[k].b, k - 1)
    BY <1>2, <1>3
  <2>. QED  BY <1>0, <2>1, <2>2, <2>3 DEF ReplayableFile
<1>. QED  BY <1>1, <1>4

-----------------------------------------------------------------------------
\* A user has a follow of another in a file.
Asks(txt, u, v) == \E j \in DOMAIN txt : txt[j] = Line("follow", u, v)

LEMMA HeldFacts ==
    ASSUME users_txt \in Seq(Lines), NEW u \in Users, NEW v \in Users
    PROVE  /\ Asks(users_txt, u, v) <=> Occurs(Line("follow", u, v), Len(users_txt)) > 0
           /\ Recorded[u][v] > 0 => Asks(users_txt, u, v)
<1> DEFINE l == Line("follow", u, v)
<1> DEFINE n == Len(users_txt)
<1>0. n \in Nat /\ DOMAIN users_txt = 1..n
  OBVIOUS
<1>1. Occurs(l, n) = CountOf(users_txt, l, n)
  BY <1>0, NetTypes
<1>2. CountOf(users_txt, l, n) > 0 <=> \E j \in 1..n : users_txt[j] = l
  BY <1>0, CountFacts
<1>3. Asks(users_txt, u, v) <=> Occurs(l, n) > 0
  BY <1>0, <1>1, <1>2 DEF Asks
<1>4. Occurs(l, n) \in Nat /\ Occurs(Line("unfollow", u, v), n) \in Nat
  BY <1>0, NetTypes
<1>5. Recorded[u][v] = IF Net(u, v, n) > 0 THEN Net(u, v, n) ELSE 0
  BY DEF Recorded
<1>6. Recorded[u][v] > 0 => Occurs(l, n) > 0
  BY <1>4, <1>5 DEF Net
<1>. QED  BY <1>3, <1>6

\* The only steps that write to users.txt.
LEMMA FileSteps ==
    ASSUME [Next]_vars
    PROVE  \/ users_txt' = users_txt
           \/ \E c \in Clients : LoginRecord(c) \/ FollowWrite(c) \/ UnFollowWrite(c)
  BY DEF Next, Distribute, vars, connectTo, Command, EnterTimeline, Poll, Quit, LoginCheck,
     LoginEnter, LoginActivate, FollowCheck, FollowAddFollowing, FollowAddFollower,
     UnFollowCheck, UnFollowDropFollowing, UnFollowDropFollower, List, ReadPost, WriteOwn,
     WriteFollower, NextRead, Kill, RunServer

LEMMA FileGrows ==
    ASSUME TypeOK, [Next]_vars
    PROVE  users_txt' = users_txt \/ \E l \in Lines : users_txt' = Append(users_txt, l)
<1>1. ASSUME NEW c \in Clients
      PROVE  OwnerOf[c] \in Users /\ arg[c] \in Users
  BY LineTypes DEF TypeOK
<1>. QED  BY <1>1, FileSteps, LineTypes DEF LoginRecord, FollowWrite, AfterFollow, UnFollowWrite

LEMMA AskedKeeps ==
    ASSUME TypeOK, [Next]_vars
    PROVE  \A u, v : Asks(users_txt, u, v) => Asks(users_txt', u, v)
<1>1. CASE users_txt' = users_txt
  BY <1>1
<1>2. ASSUME NEW l \in Lines, users_txt' = Append(users_txt, l)
      PROVE  \A u, v : Asks(users_txt, u, v) => Asks(users_txt', u, v)
  <2>1. \A j \in DOMAIN users_txt : /\ j \in DOMAIN Append(users_txt, l)
                                    /\ Append(users_txt, l)[j] = users_txt[j]
    BY DEF TypeOK
  <2>. QED  BY <1>2, <2>1 DEF Asks
<1>. QED  BY <1>1, <1>2, FileGrows

-----------------------------------------------------------------------------
\* Where a handler has begun to change what others see.
MidSteps == {"add following", "add follower", "drop following", "drop follower", "write followers"}

\* What a step may do to the handler of a client: leave it, end it, bring it to
\* another step, or move it along those.
LEMMA HandlerMoves ==
    ASSUME TypeOK, [Next]_vars, NEW d \in Clients
    PROVE  \/ /\ task'[d] = task[d] /\ arg'[d] = arg[d] /\ post'[d] = post[d]
              /\ todo'[d] \subseteq todo[d]
           \/ task'[d] \in Steps \ MidSteps
           \/ FollowWrite(d) \/ FollowAddFollowing(d) \/ UnFollowWrite(d)
           \/ UnFollowDropFollowing(d) \/ WriteOwn(d)
<1> DEFINE Stays == /\ task'[d] = task[d] /\ arg'[d] = arg[d] /\ post'[d] = post[d]
                    /\ todo'[d] \subseteq todo[d]
<1> DEFINE Goal == \/ Stays \/ task'[d] \in Steps \ MidSteps
                   \/ FollowWrite(d) \/ FollowAddFollowing(d) \/ UnFollowWrite(d)
                   \/ UnFollowDropFollowing(d) \/ WriteOwn(d)
<1> SUFFICES Goal
  OBVIOUS
<1>t. /\ task \in [Clients -> Steps] /\ arg \in [Clients -> Users]
      /\ post \in [Clients -> Users \X (0..MaxPosts)] /\ todo \in [Clients -> SUBSET Users]
  BY DEF TypeOK
<1>m. {"idle", "check", "enter", "record", "activate", "check follow", "write follow",
       "check unfollow", "write unfollow", "read", "write own"} \subseteq Steps \ MidSteps
  BY DEF Steps, MidSteps
<1>s. ASSUME NEW c \in Clients, UNCHANGED <<arg, post, todo>>,
             \/ task' = task
             \/ \E there \in Steps \ MidSteps : Goto(c, there)
             \/ c # d /\ \E there : Goto(c, there)
      PROVE  Goal
  BY <1>s, <1>t DEF Goto
<1> HIDE DEF Goal
<1> USE DEF posts
<1>1. ASSUME NEW c \in Clients, connectTo(c) PROVE Goal
  <2>1. UNCHANGED <<arg, post, todo>> /\ Goto(c, "check")
    BY <1>1 DEF connectTo
  <2>. QED  BY <1>m, <1>s, <2>1
<1>2. ASSUME NEW c \in Clients, NEW v \in Users, Command(c, v) PROVE Goal
  <2>1. CASE c = d
    BY <1>2, <1>t, <1>m, <2>1 DEF Command, Goto, Goal
  <2>2. CASE c # d
    BY <1>2, <1>t, <2>2 DEF Command, Goto, Goal
  <2>. QED  BY <2>1, <2>2
<1>3. ASSUME NEW c \in Clients, EnterTimeline(c) PROVE Goal
  <2>1. UNCHANGED <<arg, post, todo>> /\ (Goto(c, "read") \/ Goto(c, "idle"))
    BY <1>3 DEF EnterTimeline
  <2>. QED  BY <1>m, <1>s, <2>1
<1>4. ASSUME NEW c \in Clients, Poll(c) \/ Quit(c) \/ List(c) PROVE Goal
  <2>1. UNCHANGED <<arg, post, todo, task>>
    BY <1>4 DEF Poll, Quit, List
  <2>. QED  BY <1>s, <1>4, <2>1
<1>5. ASSUME NEW c \in Clients,
             LoginCheck(c) \/ LoginEnter(c) \/ LoginRecord(c) \/ LoginActivate(c)
      PROVE  Goal
  <2>1. /\ UNCHANGED <<arg, post, todo>>
        /\ \E there \in {"idle", "enter", "record", "activate"} : Goto(c, there)
    BY <1>5 DEF LoginCheck, LoginEnter, LoginRecord, LoginActivate
  <2>. QED  BY <1>m, <1>s, <2>1
<1>6. ASSUME NEW c \in Clients, FollowCheck(c) \/ UnFollowCheck(c) PROVE Goal
  <2>1. /\ UNCHANGED <<arg, post, todo>>
        /\ \E there \in {"idle", "write follow", "write unfollow"} : Goto(c, there)
    BY <1>6 DEF FollowCheck, UnFollowCheck
  <2>. QED  BY <1>m, <1>s, <2>1
<1>7. ASSUME NEW c \in Clients,
             FollowWrite(c) \/ FollowAddFollowing(c) \/ UnFollowWrite(c) \/ UnFollowDropFollowing(c)
      PROVE  Goal
  <2>1. CASE c = d
    BY <1>7, <2>1 DEF Goal
  <2>2. CASE c # d
    <3>1. UNCHANGED <<arg, post, todo>> /\ (task' = task \/ \E there : Goto(c, there))
      BY <1>7 DEF FollowWrite, FollowAddFollowing, UnFollowWrite, UnFollowDropFollowing
    <3>. QED  BY <1>s, <2>2, <3>1
  <2>. QED  BY <2>1, <2>2
<1>8. ASSUME NEW c \in Clients, FollowAddFollower(c) \/ UnFollowDropFollower(c) PROVE Goal
  <2>1. UNCHANGED <<arg, post, todo>> /\ (task' = task \/ Goto(c, "idle"))
    BY <1>8 DEF FollowAddFollower, UnFollowDropFollower
  <2>. QED  BY <1>m, <1>s, <2>1
<1>9. ASSUME NEW c \in Clients, ReadPost(c) PROVE Goal
  <2>1. CASE c = d
    BY <1>9, <1>t, <1>m, <2>1 DEF ReadPost, Goto, Goal
  <2>2. CASE c # d
    BY <1>9, <1>t, <2>2 DEF ReadPost, Goto, Goal
  <2>. QED  BY <2>1, <2>2
<1>10. ASSUME NEW c \in Clients, WriteOwn(c) PROVE Goal
  <2>1. CASE c = d
    BY <1>10, <2>1 DEF Goal
  <2>2. CASE c # d
    BY <1>10, <1>t, <2>2 DEF WriteOwn, Goto, Goal
  <2>. QED  BY <2>1, <2>2
<1>11. ASSUME NEW c \in Clients, NEW v \in Users, WriteFollower(c, v) PROVE Goal
  BY <1>11, <1>t DEF WriteFollower, Goal
<1>12. ASSUME NEW c \in Clients, NextRead(c) PROVE Goal
  <2>1. UNCHANGED <<arg, post, todo>> /\ (Goto(c, "read") \/ Goto(c, "idle"))
    BY <1>12 DEF NextRead
  <2>. QED  BY <1>m, <1>s, <2>1
<1>13. CASE Kill
  BY <1>13, <1>m DEF Kill, Goal
<1>14. CASE RunServer \/ UNCHANGED vars
  BY <1>14 DEF RunServer, vars, Goal
<1>. QED
  BY <1>1, <1>2, <1>3, <1>4, <1>5, <1>6, <1>7, <1>8, <1>9, <1>10, <1>11, <1>12, <1>13, <1>14
     DEF Next, Distribute

-----------------------------------------------------------------------------
(* FilesJustified                                                           *)

FollowersAsked == \A u, v \in Users : followers[v][u] > 0 => Asks(users_txt, u, v)
AddersAsked ==
    \A c \in Clients : task[c] \in {"add following", "add follower"} => Asks(users_txt, OwnerOf[c], arg[c])
ReadersAsked ==
    \A c \in Clients :
        task[c] = "write followers" =>
            /\ post[c] \in file[OwnerOf[c]]
            /\ \A v \in todo[c] : Asks(users_txt, v, OwnerOf[c])
FilesAsked ==
    \A u \in Users : \A p \in file[u] :
        p \in file[p[1]] /\ (u # p[1] => Asks(users_txt, u, p[1]))

Asked == FollowersAsked /\ AddersAsked /\ ReadersAsked /\ FilesAsked

LEMMA InitAsked == Init => Asked
  BY LineTypes DEF Init, NoCounts, Asked, FollowersAsked, AddersAsked, ReadersAsked, FilesAsked

LEMMA FollowersAskedStep ==
    ASSUME Strong, Asked, [Next]_vars
    PROVE  FollowersAsked'
<1>k. \A u, v : Asks(users_txt, u, v) => Asks(users_txt', u, v)
  BY AskedKeeps DEF Strong
<1>t. /\ followers \in [Users -> [Users -> Nat]] /\ users_txt \in Seq(Lines)
      /\ \A c \in Clients : OwnerOf[c] \in Users /\ arg[c] \in Users
  BY LineTypes DEF Strong, TypeOK, Counts
<1>1. CASE followers' = followers
  BY <1>1, <1>k DEF Asked, FollowersAsked
<1>2. ASSUME NEW c \in Clients, FollowAddFollower(c) PROVE FollowersAsked'
  <2>1. Asks(users_txt, OwnerOf[c], arg[c])
    BY <1>2 DEF FollowAddFollower, At, Asked, AddersAsked
  <2>2. ASSUME NEW u \in Users, NEW v \in Users, followers'[v][u] > 0
        PROVE  followers[v][u] > 0 \/ (u = OwnerOf[c] /\ v = arg[c])
    BY <1>2, <1>t, <2>2 DEF FollowAddFollower
  <2>. QED  BY <1>k, <2>1, <2>2 DEF Asked, FollowersAsked
<1>3. ASSUME NEW c \in Clients, UnFollowDropFollower(c) PROVE FollowersAsked'
  <2>1. ASSUME NEW u \in Users, NEW v \in Users, followers'[v][u] > 0
        PROVE  followers[v][u] > 0
    <3>1. \/ followers' = followers
          \/ followers' = [followers EXCEPT ![arg[c]][OwnerOf[c]] = @ - 1]
      BY <1>3 DEF UnFollowDropFollower, WithoutFollower
    <3>2. CASE followers' = followers
      BY <2>1, <3>2
    <3>3. CASE followers' = [followers EXCEPT ![arg[c]][OwnerOf[c]] = @ - 1]
      <4>1. followers'[v][u] = followers[v][u] \/ followers'[v][u] = followers[v][u] - 1
        BY <1>t, <3>3
      <4>2. followers[v][u] \in Nat
        BY <1>t
      <4>. QED  BY <2>1, <4>1, <4>2
    <3>. QED  BY <3>1, <3>2, <3>3
  <2>. QED  BY <1>k, <2>1 DEF Asked, FollowersAsked
<1>4. CASE Kill
  BY <1>4 DEF Kill, NoCounts, FollowersAsked
<1>5. CASE RunServer
  <2>1. CASE followers' = RecordedFollowers
    <3>1. \A u, v \in Users : followers'[v][u] = Recorded[u][v]
      BY <2>1 DEF RecordedFollowers
    <3>2. \A u, v \in Users : Recorded[u][v] > 0 => Asks(users_txt, u, v)
      BY <1>t, HeldFacts
    <3>. QED  BY <3>1, <3>2, <1>k DEF FollowersAsked
  <2>. QED  BY <1>1, <1>5, <2>1 DEF RunServer
<1>. QED
  BY <1>1, <1>2, <1>3, <1>4, <1>5
     DEF Next, Distribute, vars, memory, connectTo, Command, EnterTimeline, Poll, Quit,
         LoginCheck, LoginEnter, LoginRecord, LoginActivate, FollowCheck, FollowWrite,
         FollowAddFollowing, UnFollowCheck, UnFollowWrite, UnFollowDropFollowing, List,
         ReadPost, WriteOwn, WriteFollower, NextRead

LEMMA AddersAskedStep ==
    ASSUME Strong, Asked, [Next]_vars
    PROVE  AddersAsked'
<1> SUFFICES ASSUME NEW d \in Clients, task'[d] \in {"add following", "add follower"}
             PROVE  Asks(users_txt', OwnerOf[d], arg'[d])
  BY DEF AddersAsked
<1>k. \A u, v : Asks(users_txt, u, v) => Asks(users_txt', u, v)
  BY AskedKeeps DEF Strong
<1>t. task \in [Clients -> Steps] /\ arg \in [Clients -> Users] /\ users_txt \in Seq(Lines)
  BY DEF Strong, TypeOK
<1>1. CASE task'[d] = task[d] /\ arg'[d] = arg[d]
  BY <1>1, <1>k DEF Asked, AddersAsked
<1>2. CASE FollowWrite(d)
  <2>1. /\ arg'[d] = arg[d] /\ users_txt' = Append(users_txt, Line("follow", OwnerOf[d], arg[d]))
        /\ Line("follow", OwnerOf[d], arg[d]) \in Lines
    BY <1>2, <1>t, LineTypes DEF FollowWrite, AfterFollow
  <2>2. Len(users_txt) + 1 \in DOMAIN Append(users_txt, Line("follow", OwnerOf[d], arg[d]))
        /\ Append(users_txt, Line("follow", OwnerOf[d], arg[d]))[Len(users_txt) + 1] =
               Line("follow", OwnerOf[d], arg[d])
    <3>1. \A l \in Lines : /\ Len(users_txt) + 1 \in DOMAIN Append(users_txt, l)
                           /\ Append(users_txt, l)[Len(users_txt) + 1] = l
      BY <1>t, AppendFacts
    <3>. QED  BY <2>1, <3>1
  <2>. QED  BY <2>1, <2>2 DEF Asks
<1>3. CASE FollowAddFollowing(d)
  <2>1. arg'[d] = arg[d] /\ task[d] = "add following"
    BY <1>3 DEF FollowAddFollowing, At
  <2>. QED  BY <1>k, <2>1 DEF Asked, AddersAsked
<1>4. task'[d] \in MidSteps
  BY DEF MidSteps
<1>5. ~UnFollowWrite(d) /\ ~UnFollowDropFollowing(d) /\ ~WriteOwn(d)
  BY <1>t DEF UnFollowWrite, UnFollowDropFollowing, WriteOwn, Goto, At
<1>. QED  BY <1>1, <1>2, <1>3, <1>4, <1>5, HandlerMoves DEF Strong

LEMMA FilesStep ==
    ASSUME Strong, Asked, [Next]_vars
    PROVE  ReadersAsked' /\ FilesAsked'
<1>k. \A u, v : Asks(users_txt, u, v) => Asks(users_txt', u, v)
  BY AskedKeeps DEF Strong
<1>t. /\ file \in [Users -> SUBSET Posts] /\ task \in [Clients -> Steps]
      /\ post \in [Clients -> Users \X (0..MaxPosts)] /\ todo \in [Clients -> SUBSET Users]
      /\ \A c \in Clients : OwnerOf[c] \in Users
      /\ \A p \in Posts : p[1] \in Users
  BY LineTypes DEF Strong, TypeOK, Posts
<1>f. \/ file' = file
      \/ \E c \in Clients : WriteOwn(c) \/ \E v \in Users : WriteFollower(c, v)
  BY DEF Next, Distribute, vars, posts, connectTo, Command, EnterTimeline, Poll, Quit,
         LoginCheck, LoginEnter, LoginRecord, LoginActivate, FollowCheck, FollowWrite,
         FollowAddFollowing, FollowAddFollower, UnFollowCheck, UnFollowWrite,
         UnFollowDropFollowing, UnFollowDropFollower, List, ReadPost, NextRead, Kill, RunServer
<1>g. \A u \in Users : file[u] \subseteq file'[u]
  <2>1. ASSUME NEW c \in Clients, WriteOwn(c) PROVE \A u \in Users : file[u] \subseteq file'[u]
    BY <1>t, <2>1 DEF WriteOwn
  <2>2. ASSUME NEW c \in Clients, NEW v \in Users, WriteFollower(c, v)
        PROVE  \A u \in Users : file[u] \subseteq file'[u]
    BY <1>t, <2>2 DEF WriteFollower
  <2>. QED  BY <1>f, <2>1, <2>2
<1>1. ReadersAsked'
  <2> SUFFICES ASSUME NEW d \in Clients, task'[d] = "write followers"
               PROVE  /\ post'[d] \in file'[OwnerOf[d]]
                      /\ \A v \in todo'[d] : Asks(users_txt', v, OwnerOf[d])
    BY DEF ReadersAsked
  <2>1. CASE task'[d] = task[d] /\ post'[d] = post[d] /\ todo'[d] \subseteq todo[d]
    BY <1>k, <1>t, <1>g, <2>1 DEF Asked, ReadersAsked
  <2>2. CASE WriteOwn(d)
    <3>1. /\ post'[d] = post[d] /\ post[d] \in file'[OwnerOf[d]] /\ users_txt' = users_txt
          /\ todo'[d] = Recipients(OwnerOf[d])
      BY <1>t, <2>2 DEF WriteOwn
    <3>2. \A v \in Recipients(OwnerOf[d]) : Asks(users_txt, v, OwnerOf[d])
      BY <1>t DEF Recipients, Asked, FollowersAsked
    <3>. QED  BY <3>1, <3>2
  <2>3. /\ ~FollowWrite(d) /\ ~FollowAddFollowing(d) /\ ~UnFollowWrite(d)
        /\ ~UnFollowDropFollowing(d) /\ task'[d] \in MidSteps
    BY <1>t DEF FollowWrite, FollowAddFollowing, UnFollowWrite, UnFollowDropFollowing, Goto,
                At, MidSteps
  <2>. QED  BY <2>1, <2>2, <2>3, HandlerMoves DEF Strong
<1>2. ASSUME NEW c \in Clients, NEW v \in Users,
             file' = [file EXCEPT ![v] = @ \cup {post[c]}], users_txt' = users_txt,
             post[c] \in Posts, post[c][1] = OwnerOf[c],
             v = OwnerOf[c] \/ (post[c] \in file[OwnerOf[c]] /\ Asks(users_txt, v, OwnerOf[c]))
      PROVE  FilesAsked'
  <2> SUFFICES ASSUME NEW u \in Users, NEW p \in file'[u]
               PROVE  p \in file'[p[1]] /\ (u # p[1] => Asks(users_txt', u, p[1]))
    BY DEF FilesAsked
  <2>1. CASE p \in file[u]
    <3>1. p \in file[p[1]] /\ (u # p[1] => Asks(users_txt, u, p[1])) /\ p[1] \in Users
      BY <1>t, <2>1 DEF Asked, FilesAsked
    <3>. QED  BY <1>g, <1>k, <3>1
  <2>2. CASE p \notin file[u]
    <3>1. u = v /\ p = post[c] /\ p[1] = OwnerOf[c]
      BY <1>2, <1>t, <2>2
    <3>2. CASE v = OwnerOf[c]
      BY <1>2, <1>t, <3>1, <3>2
    <3>3. CASE post[c] \in file[OwnerOf[c]] /\ Asks(users_txt, v, OwnerOf[c])
      BY <1>2, <1>t, <1>g, <3>1, <3>3
    <3>. QED  BY <1>2, <3>2, <3>3
  <2>. QED  BY <2>1, <2>2
<1>3. FilesAsked'
  <2>1. CASE file' = file
    BY <1>k, <2>1 DEF Asked, FilesAsked
  <2>2. ASSUME NEW c \in Clients, WriteOwn(c) PROVE FilesAsked'
    <3>1. post[c] \in Posts /\ post[c][1] = OwnerOf[c]
      BY <2>2 DEF WriteOwn, At, Strong, HandlersBusy
    <3>. QED  BY <1>2, <1>t, <2>2, <3>1 DEF WriteOwn
  <2>3. ASSUME NEW c \in Clients, NEW v \in Users, WriteFollower(c, v) PROVE FilesAsked'
    <3>1. post[c] \in Posts /\ post[c][1] = OwnerOf[c]
      BY <2>3 DEF WriteFollower, At, Strong, HandlersBusy
    <3>2. post[c] \in file[OwnerOf[c]] /\ Asks(users_txt, v, OwnerOf[c])
      BY <2>3 DEF WriteFollower, At, Asked, ReadersAsked
    <3>. QED  BY <1>2, <1>t, <2>3, <3>1, <3>2 DEF WriteFollower
  <2>. QED  BY <1>f, <2>1, <2>2, <2>3
<1>. QED  BY <1>1, <1>3

LEMMA AskedStep == Strong /\ Asked /\ [Next]_vars => Asked'
  BY FollowersAskedStep, AddersAskedStep, FilesStep DEF Asked

\* A timeline file of the single server holds only posts of its user and of the
\* users he has followed, and none before the author's own file has it.
THEOREM FilesAreJustified == Spec => []FilesJustified
<1>1. Strong /\ Asked => FilesJustified
  <2> SUFFICES ASSUME Strong, Asked, NEW u \in Users, NEW p \in file[u]
               PROVE  /\ p \in file[p[1]]
                      /\ u # p[1] => Occurs(Line("follow", u, p[1]), Len(users_txt)) > 0
    BY DEF FilesJustified
  <2>1. p \in file[p[1]] /\ (u # p[1] => Asks(users_txt, u, p[1])) /\ p[1] \in Users
    BY DEF Strong, TypeOK, Posts, Asked, FilesAsked
  <2>. QED  BY <2>1, HeldFacts DEF Strong, TypeOK
<1>. QED  BY <1>1, InitStrong, StrongStep, InitAsked, AskedStep, PTL DEF Spec

-----------------------------------------------------------------------------
(* Mirror, ReplayAgrees                                                     *)

LEMMA NetMoves ==
    ASSUME NEW txt \in Seq(Lines), NEW l \in Lines
    PROVE  /\ \A u, v \in Users : NetIn(txt, u, v) \in Int
           /\ \A u, v \in Users :
                  NetIn(Append(txt, l), u, v) =
                      NetIn(txt, u, v) + One(l = Line("follow", u, v))
                                       - One(l = Line("unfollow", u, v))
           /\ ReplayableFile(Append(txt, l)) <=>
                  /\ ReplayableFile(txt)
                  /\ l.kind = "unfollow" => NetIn(txt, l.a, l.b) > 0
<1>1. ASSUME NEW u \in Users, NEW v \in Users PROVE NetIn(txt, u, v) \in Int
  <2>1. Len(txt) \in Nat
    OBVIOUS
  <2>2. /\ CountOf(txt, Line("follow", u, v), Len(txt)) \in Nat
        /\ CountOf(txt, Line("unfollow", u, v), Len(txt)) \in Nat
    BY <2>1, CountFacts
  <2>. QED  BY <2>2 DEF NetIn, NetOf
<1>. QED  BY <1>1, NetAppend DEF NetIn

\* What each of the three lines does to the net of two users.
LEMMA LineMoves ==
    ASSUME NEW txt \in Seq(Lines), NEW a \in Users, NEW b \in Users
    PROVE  /\ \A u, v \in Users : NetIn(Append(txt, Line("newuser", a, a)), u, v) = NetIn(txt, u, v)
           /\ \A u, v \in Users :
                  NetIn(Append(txt, Line("follow", a, b)), u, v) =
                      NetIn(txt, u, v) + One(a = u /\ b = v)
           /\ \A u, v \in Users :
                  NetIn(Append(txt, Line("unfollow", a, b)), u, v) =
                      NetIn(txt, u, v) - One(a = u /\ b = v)
<1>1. \A k, u, v : Line(k, a, b) = Line("follow", u, v) <=> (k = "follow" /\ a = u /\ b = v)
  BY DEF Line
<1>2. \A k, u, v : Line(k, a, b) = Line("unfollow", u, v) <=> (k = "unfollow" /\ a = u /\ b = v)
  BY DEF Line
<1>3. \A u, v : Line("newuser", a, a) # Line("follow", u, v) /\ Line("newuser", a, a) # Line("unfollow", u, v)
  BY DEF Line
<1>4. /\ Line("newuser", a, a) \in Lines /\ Line("follow", a, b) \in Lines
      /\ Line("unfollow", a, b) \in Lines
  BY LineTypes
<1>. SUFFICES ASSUME NEW u \in Users, NEW v \in Users
              PROVE /\ NetIn(Append(txt, Line("newuser", a, a)), u, v) = NetIn(txt, u, v)
                    /\ NetIn(Append(txt, Line("follow", a, b)), u, v) =
                           NetIn(txt, u, v) + One(a = u /\ b = v)
                    /\ NetIn(Append(txt, Line("unfollow", a, b)), u, v) =
                           NetIn(txt, u, v) - One(a = u /\ b = v)
  OBVIOUS
<1>5. \A l \in Lines : NetIn(Append(txt, l), u, v) =
          NetIn(txt, u, v) + One(l = Line("follow", u, v)) - One(l = Line("unfollow", u, v))
  BY NetMoves
<1>6. NetIn(txt, u, v) \in Int
  BY <1>4, NetMoves
<1>7. NetIn(Append(txt, Line("newuser", a, a)), u, v) = NetIn(txt, u, v)
  BY <1>3, <1>4, <1>5, <1>6 DEF One
<1>8. NetIn(Append(txt, Line("follow", a, b)), u, v) = NetIn(txt, u, v) + One(a = u /\ b = v)
  <2>1. NetIn(Append(txt, Line("follow", a, b)), u, v) =
            NetIn(txt, u, v) + One(Line("follow", a, b) = Line("follow", u, v))
                             - One(Line("follow", a, b) = Line("unfollow", u, v))
    BY <1>4, <1>5
  <2>2. One(Line("follow", a, b) = Line("unfollow", u, v)) = 0
    BY <1>2 DEF One
  <2>3. One(Line("follow", a, b) = Line("follow", u, v)) = One(a = u /\ b = v)
    BY <1>1 DEF One
  <2>4. One(a = u /\ b = v) \in Int
    BY DEF One
  <2>. QED  BY <1>6, <2>1, <2>2, <2>3, <2>4
<1>9. NetIn(Append(txt, Line("unfollow", a, b)), u, v) = NetIn(txt, u, v) - One(a = u /\ b = v)
  <2>1. NetIn(Append(txt, Line("unfollow", a, b)), u, v) =
            NetIn(txt, u, v) + One(Line("unfollow", a, b) = Line("follow", u, v))
                             - One(Line("unfollow", a, b) = Line("unfollow", u, v))
    BY <1>4, <1>5
  <2>2. One(Line("unfollow", a, b) = Line("follow", u, v)) = 0
    BY <1>1 DEF One
  <2>3. One(Line("unfollow", a, b) = Line("unfollow", u, v)) = One(a = u /\ b = v)
    BY <1>2 DEF One
  <2>4. One(a = u /\ b = v) \in Int
    BY DEF One
  <2>. QED  BY <1>6, <2>1, <2>2, <2>3, <2>4
<1>. QED  BY <1>7, <1>8, <1>9

\* A file that replays never has more unfollows than follows.
NonNegative == ReplayableFile(users_txt) => \A u, v \in Users : NetIn(users_txt, u, v) >= 0

LEMMA NonNegativeInit == Init => NonNegative
<1> SUFFICES ASSUME Init, NEW u \in Users, NEW v \in Users PROVE NetIn(users_txt, u, v) >= 0
  BY DEF NonNegative
<1>1. users_txt = <<>> /\ Len(users_txt) = 0 /\ 1..0 = {}
  BY DEF Init
<1>2. \A l : {j \in 1..Len(users_txt) : users_txt[j] = l} = {}
  BY <1>1
<1>3. \A l : CountOf(users_txt, l, Len(users_txt)) = 0
  BY <1>2, FS_EmptySet DEF CountOf
<1>. QED  BY <1>3 DEF NetIn, NetOf

LEMMA NonNegativeStep ==
    ASSUME TypeOK, NonNegative, [Next]_vars
    PROVE  NonNegative'
<1> SUFFICES ASSUME ReplayableFile(users_txt'), NEW u \in Users, NEW v \in Users
             PROVE  NetIn(users_txt', u, v) >= 0
  BY DEF NonNegative
<1>1. CASE users_txt' = users_txt
  BY <1>1 DEF NonNegative
<1>2. ASSUME NEW l \in Lines, users_txt' = Append(users_txt, l)
      PROVE  NetIn(users_txt', u, v) >= 0
  <2>t. users_txt \in Seq(Lines)
    BY DEF TypeOK
  <2>1. /\ ReplayableFile(users_txt) /\ (l.kind = "unfollow" => NetIn(users_txt, l.a, l.b) > 0)
        /\ NetIn(users_txt', u, v) = NetIn(users_txt, u, v) + One(l = Line("follow", u, v))
                                         - One(l = Line("unfollow", u, v))
        /\ NetIn(users_txt, u, v) \in Int
    BY <1>2, <2>t, NetMoves
  <2>2. NetIn(users_txt, u, v) >= 0
    BY <2>1 DEF NonNegative
  <2>3. CASE l = Line("unfollow", u, v)
    <3>1. NetIn(users_txt, u, v) > 0
      BY <2>1, <2>3, LineTypes
    <3>. QED  BY <2>1, <3>1 DEF One
  <2>4. CASE l # Line("unfollow", u, v)
    BY <2>1, <2>2, <2>4 DEF One
  <2>. QED  BY <2>3, <2>4
<1>. QED  BY <1>1, <1>2, FileGrows

\* The step that a user's handler has reached with what concerns another user.
About(t, a, c, v) == IF a[c] = v THEN t[c] ELSE "idle"

\* How far both maps and the file are apart while a handler is at a step h.
Balanced(f, g, n, h) ==
    /\ f = n - One(h = "add following") + One(h = "drop following")
    /\ g = f - One(h = "add follower") + One(h = "drop follower")

OwnBalance ==
    \A c \in Clients : \A v \in Users :
        Balanced(following[OwnerOf[c]][v], followers[v][OwnerOf[c]],
                 NetIn(users_txt, OwnerOf[c], v), About(task, arg, c, v))
OtherBalance ==
    \A u \in Users : (\A c \in Clients : OwnerOf[c] # u) =>
        \A v \in Users : Balanced(following[u][v], followers[v][u], NetIn(users_txt, u, v), "idle")
Balance == server = "up" => OwnBalance /\ OtherBalance

UpdateSteps == {"add following", "add follower", "drop following", "drop follower"}

LEMMA BalanceIdle ==
    /\ \A f, g, n : \A h : h \notin UpdateSteps /\ n \in Int =>
           (Balanced(f, g, n, h) <=> f = n /\ g = n)
<1> SUFFICES ASSUME NEW f, NEW g, NEW n \in Int, NEW h, h \notin UpdateSteps
             PROVE  Balanced(f, g, n, h) <=> f = n /\ g = n
  OBVIOUS
<1>1. /\ One(h = "add following") = 0 /\ One(h = "drop following") = 0
      /\ One(h = "add follower") = 0 /\ One(h = "drop follower") = 0
  BY DEF One, UpdateSteps
<1>2. Balanced(f, g, n, h) <=> f = n - 0 + 0 /\ g = f - 0 + 0
  BY <1>1 DEF Balanced
<1>3. n - 0 + 0 = n
  OBVIOUS
<1>4. Balanced(f, g, n, h) <=> f = n /\ g = n - 0 + 0
  BY <1>2, <1>3
<1>. QED  BY <1>3, <1>4

\* A step that leaves both maps, and what the file adds up to, leaves the
\* balance, if no handler enters or leaves the updates.
LEMMA BalanceQuiet ==
    ASSUME Strong, Balance, server = "up", UNCHANGED <<following, followers>>,
           \A u, v \in Users : NetIn(users_txt', u, v) = NetIn(users_txt, u, v),
           \A c \in Clients : \/ task'[c] = task[c] /\ arg'[c] = arg[c]
                              \/ task[c] \notin UpdateSteps /\ task'[c] \notin UpdateSteps
    PROVE  Balance'
<1>t. /\ \A c \in Clients : OwnerOf[c] \in Users
      /\ \A u, v \in Users : NetIn(users_txt, u, v) \in Int
  BY LineTypes, NetMoves DEF Strong, TypeOK
<1>1. OwnBalance /\ OtherBalance
  BY DEF Balance
<1>2. OtherBalance'
  BY <1>1 DEF OtherBalance
<1>3. ASSUME NEW c \in Clients, NEW v \in Users
      PROVE  Balanced(following[OwnerOf[c]][v], followers[v][OwnerOf[c]],
                      NetIn(users_txt, OwnerOf[c], v), About(task', arg', c, v))
  <2>1. Balanced(following[OwnerOf[c]][v], followers[v][OwnerOf[c]],
                 NetIn(users_txt, OwnerOf[c], v), About(task, arg, c, v))
    BY <1>1 DEF OwnBalance
  <2>2. CASE task'[c] = task[c] /\ arg'[c] = arg[c]
    BY <2>1, <2>2 DEF About
  <2>3. CASE task[c] \notin UpdateSteps /\ task'[c] \notin UpdateSteps
    <3>1. About(task, arg, c, v) \notin UpdateSteps /\ About(task', arg', c, v) \notin UpdateSteps
      BY <2>3 DEF About, UpdateSteps
    <3>. QED  BY <1>t, <2>1, <3>1, BalanceIdle
  <2>. QED  BY <2>2, <2>3
<1>4. OwnBalance'
  BY <1>t, <1>3 DEF OwnBalance
<1>. QED  BY <1>2, <1>4 DEF Balance

\* A step of one client's handler that touches only the entry of its two users
\* leaves the balance if that entry stays balanced.
LEMMA BalanceMove ==
    ASSUME OneClientEach, Strong, Balance, server = "up", NEW c \in Clients,
           arg' = arg, \A d \in Clients : d # c => task'[d] = task[d],
           \A u, v \in Users : u # OwnerOf[c] \/ v # arg[c] =>
               /\ following'[u][v] = following[u][v]
               /\ followers'[v][u] = followers[v][u]
               /\ NetIn(users_txt', u, v) = NetIn(users_txt, u, v),
           Balanced(following'[OwnerOf[c]][arg[c]], followers'[arg[c]][OwnerOf[c]],
                    NetIn(users_txt', OwnerOf[c], arg[c]), task'[c])
    PROVE  Balance'
<1>t. \A d \in Clients : OwnerOf[d] \in Users
  BY LineTypes
<1>1. OwnBalance /\ OtherBalance
  BY DEF Balance
<1>2. ASSUME NEW u \in Users, \A d \in Clients : OwnerOf[d] # u, NEW v \in Users
      PROVE  Balanced(following'[u][v], followers'[v][u], NetIn(users_txt', u, v), "idle")
  BY <1>1, <1>2 DEF OtherBalance
<1>3. ASSUME NEW d \in Clients, NEW v \in Users
      PROVE  Balanced(following'[OwnerOf[d]][v], followers'[v][OwnerOf[d]],
                      NetIn(users_txt', OwnerOf[d], v), About(task', arg, d, v))
  <2>1. Balanced(following[OwnerOf[d]][v], followers[v][OwnerOf[d]],
                 NetIn(users_txt, OwnerOf[d], v), About(task, arg, d, v))
    BY <1>1 DEF OwnBalance
  <2>2. CASE d # c
    <3>1. OwnerOf[d] # OwnerOf[c] /\ About(task', arg, d, v) = About(task, arg, d, v)
      BY <2>2 DEF OneClientEach, About
    <3>. QED  BY <1>t, <2>1, <3>1
  <2>3. CASE d = c /\ v # arg[c]
    <3>1. About(task', arg, d, v) = About(task, arg, d, v)
      BY <2>3 DEF About
    <3>. QED  BY <1>t, <2>1, <2>3, <3>1
  <2>4. CASE d = c /\ v = arg[c]
    BY <2>4 DEF About
  <2>. QED  BY <2>2, <2>3, <2>4
<1>4. OwnBalance' /\ OtherBalance'
  BY <1>2, <1>3 DEF OwnBalance, OtherBalance
<1>. QED  BY <1>4 DEF Balance

LEMMA BalanceArithmetic ==
    ASSUME NEW f \in Int, NEW g \in Int, NEW n \in Int
    PROVE  /\ Balanced(f, g, n, "write follow") => Balanced(f, g, n + 1, "add following")
           /\ Balanced(f, g, n, "write unfollow") => Balanced(f, g, n - 1, "drop following")
           /\ Balanced(f, g, n, "add following") => Balanced(f + 1, g, n, "add follower")
           /\ Balanced(f, g, n, "add follower") => Balanced(f, g + 1, n, "idle")
           /\ Balanced(f, g, n, "drop following") => Balanced(f - 1, g, n, "drop follower")
           /\ Balanced(f, g, n, "drop follower") => Balanced(f, g - 1, n, "idle")
<1>1. Balanced(f, g, n, "write follow") => Balanced(f, g, n + 1, "add following")
  BY DEF Balanced, One
<1>2. Balanced(f, g, n, "write unfollow") => Balanced(f, g, n - 1, "drop following")
  BY DEF Balanced, One
<1>3. Balanced(f, g, n, "add following") => Balanced(f + 1, g, n, "add follower")
  BY DEF Balanced, One
<1>4. Balanced(f, g, n, "add follower") => Balanced(f, g + 1, n, "idle")
  BY DEF Balanced, One
<1>5. Balanced(f, g, n, "drop following") => Balanced(f - 1, g, n, "drop follower")
  BY DEF Balanced, One
<1>6. Balanced(f, g, n, "drop follower") => Balanced(f, g - 1, n, "idle")
  BY DEF Balanced, One
<1>. QED  BY <1>1, <1>2, <1>3, <1>4, <1>5, <1>6

\* What a line of one client does to the net of everybody else: nothing.
\* A file with one more line.
With(txt, l) == Append(txt, l)

LEMMA LineElsewhere ==
    ASSUME NEW txt \in Seq(Lines), NEW a \in Users, NEW b \in Users
    PROVE  /\ NetIn(With(txt, Line("follow", a, b)), a, b) = NetIn(txt, a, b) + 1
           /\ NetIn(With(txt, Line("unfollow", a, b)), a, b) = NetIn(txt, a, b) - 1
           /\ \A u, v \in Users : u # a \/ v # b =>
                  /\ NetIn(With(txt, Line("follow", a, b)), u, v) = NetIn(txt, u, v)
                  /\ NetIn(With(txt, Line("unfollow", a, b)), u, v) = NetIn(txt, u, v)
<1>e. ASSUME NEW u \in Users, NEW v \in Users
      PROVE  /\ NetIn(With(txt, Line("follow", a, b)), a, b) = NetIn(txt, a, b) + 1
             /\ NetIn(With(txt, Line("unfollow", a, b)), a, b) = NetIn(txt, a, b) - 1
             /\ u # a \/ v # b =>
                    /\ NetIn(With(txt, Line("follow", a, b)), u, v) = NetIn(txt, u, v)
                    /\ NetIn(With(txt, Line("unfollow", a, b)), u, v) = NetIn(txt, u, v)
  <2>1. NetIn(txt, a, b) \in Int /\ NetIn(txt, u, v) \in Int
    <3>1. Line("newuser", a, a) \in Lines
      BY LineTypes
    <3>. QED  BY <3>1, NetMoves
  <2>2. /\ NetIn(With(txt, Line("follow", a, b)), a, b) = NetIn(txt, a, b) + One(a = a /\ b = b)
        /\ NetIn(With(txt, Line("unfollow", a, b)), a, b) = NetIn(txt, a, b) - One(a = a /\ b = b)
    BY LineMoves DEF With
  <2>3. /\ NetIn(With(txt, Line("follow", a, b)), u, v) = NetIn(txt, u, v) + One(a = u /\ b = v)
        /\ NetIn(With(txt, Line("unfollow", a, b)), u, v) = NetIn(txt, u, v) - One(a = u /\ b = v)
    BY LineMoves DEF With
  <2>4. One(a = a /\ b = b) = 1 /\ (u # a \/ v # b => One(a = u /\ b = v) = 0)
    BY DEF One
  <2>. QED  BY <2>1, <2>2, <2>3, <2>4
<1>. QED  BY <1>e

LEMMA EntryMoves ==
    ASSUME NEW m \in [Users -> [Users -> Nat]], NEW a \in Users, NEW b \in Users, NEW k,
           NEW w, w = [m EXCEPT ![a][b] = k]
    PROVE  /\ w[a][b] = k
           /\ \A x, y \in Users : x # a \/ y # b => w[x][y] = m[x][y]
           /\ \A x, y \in Users : x # b \/ y # a => w[y][x] = m[y][x]
  OBVIOUS

\* The six updates.
LEMMA BalanceUpdates ==
    ASSUME OneClientEach, Strong, Balance, server = "up", server' = "up", NEW c \in Clients,
           \/ FollowWrite(c) \/ FollowAddFollowing(c) \/ FollowAddFollower(c)
           \/ UnFollowWrite(c) \/ UnFollowDropFollowing(c) \/ UnFollowDropFollower(c)
    PROVE  Balance'
<1>p. PICK u \in Users : \E y \in Users : u = OwnerOf[c] /\ y = arg[c]
  BY LineTypes DEF Strong, TypeOK
<1>q. PICK v \in Users : u = OwnerOf[c] /\ v = arg[c]
  BY <1>p
<1>t. /\ users_txt \in Seq(Lines)
      /\ task \in [Clients -> Steps]
      /\ following \in [Users -> [Users -> Nat]] /\ followers \in [Users -> [Users -> Nat]]
  BY DEF Strong, TypeOK, Counts
<1>r. PICK n \in Int : n = NetIn(users_txt, u, v)
  <2>1. Line("newuser", u, u) \in Lines
    BY LineTypes
  <2>. QED  BY <1>t, <2>1, NetMoves
<1>f. PICK f \in Nat : \E y \in Nat : f = following[u][v] /\ y = followers[v][u]
  BY <1>t
<1>h. PICK g \in Nat : f = following[u][v] /\ g = followers[v][u]
  BY <1>f
<1>b. Balanced(f, g, n, task[c])
  BY <1>q, <1>r, <1>h DEF Balance, OwnBalance, About
<1>g. \A there : Goto(c, there) => /\ task'[c] = there
                                   /\ \A d \in Clients : d # c => task'[d] = task[d]
  BY <1>t DEF Goto
<1>a. /\ Balanced(f, g, n, "write follow") => Balanced(f, g, n + 1, "add following")
      /\ Balanced(f, g, n, "write unfollow") => Balanced(f, g, n - 1, "drop following")
      /\ Balanced(f, g, n, "add following") => Balanced(f + 1, g, n, "add follower")
      /\ Balanced(f, g, n, "add follower") => Balanced(f, g + 1, n, "idle")
      /\ Balanced(f, g, n, "drop following") => Balanced(f - 1, g, n, "drop follower")
      /\ Balanced(f, g, n, "drop follower") => Balanced(f, g - 1, n, "idle")
  <2>1. f \in Int /\ g \in Int
    OBVIOUS
  <2>. QED  BY <2>1, BalanceArithmetic
<1>m. ASSUME arg' = arg, \A d \in Clients : d # c => task'[d] = task[d],
             \A x, y \in Users : x # u \/ y # v =>
                 /\ following'[x][y] = following[x][y]
                 /\ followers'[y][x] = followers[y][x]
                 /\ NetIn(users_txt', x, y) = NetIn(users_txt, x, y),
             Balanced(following'[u][v], followers'[v][u], NetIn(users_txt', u, v), task'[c])
      PROVE  Balance'
  BY <1>m, <1>q, BalanceMove
<1>1. CASE FollowWrite(c)
  <2>1. /\ arg' = arg /\ following' = following /\ followers' = followers
        /\ task[c] = "write follow" /\ Goto(c, "add following")
        /\ users_txt' = With(users_txt, Line("follow", u, v))
    BY <1>1, <1>q DEF FollowWrite, AfterFollow, At, memory, With
  <2>2. /\ NetIn(users_txt', u, v) = NetIn(users_txt, u, v) + 1
        /\ \A x, y \in Users : x # u \/ y # v => NetIn(users_txt', x, y) = NetIn(users_txt, x, y)
    <3>1. users_txt \in Seq(Lines) /\ u \in Users /\ v \in Users
      BY <1>t
    <3>2. NetIn(With(users_txt, Line("follow", u, v)), u, v) = NetIn(users_txt, u, v) + 1
      BY <3>1, LineElsewhere
    <3>3. ASSUME NEW x \in Users, NEW y \in Users, x # u \/ y # v
          PROVE  NetIn(With(users_txt, Line("follow", u, v)), x, y) = NetIn(users_txt, x, y)
      BY <3>1, <3>3, LineElsewhere
    <3>. QED  BY <2>1, <3>2, <3>3
  <2>. QED  BY <1>a, <1>b, <1>g, <1>h, <1>m, <1>r, <2>1, <2>2
<1>2. CASE UnFollowWrite(c)
  <2>1. /\ arg' = arg /\ following' = following /\ followers' = followers
        /\ task[c] = "write unfollow" /\ Goto(c, "drop following")
        /\ users_txt' = With(users_txt, Line("unfollow", u, v))
    BY <1>2, <1>q DEF UnFollowWrite, At, memory, With
  <2>2. /\ NetIn(users_txt', u, v) = NetIn(users_txt, u, v) - 1
        /\ \A x, y \in Users : x # u \/ y # v => NetIn(users_txt', x, y) = NetIn(users_txt, x, y)
    <3>1. users_txt \in Seq(Lines) /\ u \in Users /\ v \in Users
      BY <1>t
    <3>2. NetIn(With(users_txt, Line("unfollow", u, v)), u, v) = NetIn(users_txt, u, v) - 1
      BY <3>1, LineElsewhere
    <3>3. ASSUME NEW x \in Users, NEW y \in Users, x # u \/ y # v
          PROVE  NetIn(With(users_txt, Line("unfollow", u, v)), x, y) = NetIn(users_txt, x, y)
      BY <3>1, <3>3, LineElsewhere
    <3>. QED  BY <2>1, <3>2, <3>3
  <2>. QED  BY <1>a, <1>b, <1>g, <1>h, <1>m, <1>r, <2>1, <2>2
<1>3. CASE FollowAddFollowing(c)
  <2>1. /\ arg' = arg /\ users_txt' = users_txt /\ followers' = followers
        /\ task[c] = "add following" /\ Goto(c, "add follower")
        /\ following' = [following EXCEPT ![u][v] = f + 1]
    BY <1>3, <1>q, <1>h DEF FollowAddFollowing, At
  <2>2. /\ following'[u][v] = f + 1
        /\ \A x, y \in Users : x # u \/ y # v => following'[x][y] = following[x][y]
    BY <1>t, <2>1, EntryMoves
  <2>. QED  BY <1>a, <1>b, <1>g, <1>h, <1>r, <1>m, <2>1, <2>2
<1>4. CASE FollowAddFollower(c)
  <2>1. /\ arg' = arg /\ users_txt' = users_txt /\ following' = following
        /\ task[c] = "add follower" /\ Goto(c, "idle")
        /\ followers' = [followers EXCEPT ![v][u] = g + 1]
    BY <1>4, <1>q, <1>h DEF FollowAddFollower, At
  <2>2. /\ followers'[v][u] = g + 1
        /\ \A x, y \in Users : x # u \/ y # v => followers'[y][x] = followers[y][x]
    BY <1>t, <2>1, EntryMoves
  <2>. QED  BY <1>a, <1>b, <1>g, <1>h, <1>r, <1>m, <2>1, <2>2
<1>5. CASE UnFollowDropFollowing(c)
  <2>1. /\ arg' = arg /\ users_txt' = users_txt /\ followers' = followers
        /\ task[c] = "drop following" /\ Goto(c, "drop follower")
        /\ following' = [following EXCEPT ![u][v] = f - 1]
    BY <1>5, <1>q, <1>h DEF UnFollowDropFollowing, At
  <2>2. /\ following'[u][v] = f - 1
        /\ \A x, y \in Users : x # u \/ y # v => following'[x][y] = following[x][y]
    BY <1>t, <2>1, EntryMoves
  <2>. QED  BY <1>a, <1>b, <1>g, <1>h, <1>r, <1>m, <2>1, <2>2
<1>6. CASE UnFollowDropFollower(c)
  <2>1. /\ arg' = arg /\ users_txt' = users_txt /\ following' = following
        /\ task[c] = "drop follower" /\ Goto(c, "idle")
        /\ followers' = [followers EXCEPT ![v][u] = g - 1]
    BY <1>6, <1>q, <1>h DEF UnFollowDropFollower, WithoutFollower, At
  <2>2. /\ followers'[v][u] = g - 1
        /\ \A x, y \in Users : x # u \/ y # v => followers'[y][x] = followers[y][x]
    BY <1>t, <2>1, EntryMoves
  <2>. QED  BY <1>a, <1>b, <1>g, <1>h, <1>r, <1>m, <2>1, <2>2
<1>. QED  BY <1>1, <1>2, <1>3, <1>4, <1>5, <1>6

\* The steps that move none of the counts.
LEMMA BalanceElse ==
    ASSUME Strong, Balance, server = "up", NEW c \in Clients,
           \/ connectTo(c) \/ (\E v \in Users : Command(c, v)) \/ EnterTimeline(c) \/ Poll(c)
           \/ Quit(c) \/ LoginCheck(c) \/ LoginEnter(c) \/ LoginRecord(c) \/ LoginActivate(c)
           \/ FollowCheck(c) \/ UnFollowCheck(c) \/ List(c) \/ ReadPost(c) \/ Distribute(c)
    PROVE  Balance'
<1>t. /\ task \in [Clients -> Steps] /\ arg \in [Clients -> Users]
      /\ users_txt \in Seq(Lines) /\ OwnerOf[c] \in Users
  BY LineTypes DEF Strong, TypeOK
<1>1. UNCHANGED <<following, followers>>
  BY DEF memory, connectTo, Command, EnterTimeline, Poll, Quit, LoginCheck, LoginEnter,
         LoginRecord, LoginActivate, FollowCheck, UnFollowCheck, List, ReadPost, Distribute,
         WriteOwn, WriteFollower, NextRead
<1>2. ASSUME NEW u \in Users, NEW v \in Users
      PROVE  NetIn(users_txt', u, v) = NetIn(users_txt, u, v)
  <2>1. CASE users_txt' = users_txt
    BY <2>1
  <2>2. CASE LoginRecord(c)
    <3>1. users_txt' = Append(users_txt, Line("newuser", OwnerOf[c], OwnerOf[c]))
      BY <2>2 DEF LoginRecord
    <3>2. NetIn(Append(users_txt, Line("newuser", OwnerOf[c], OwnerOf[c])), u, v) = NetIn(users_txt, u, v)
      BY <1>t, LineMoves
    <3>. QED  BY <3>1, <3>2
  <2>. QED
    BY <2>1, <2>2
       DEF connectTo, Command, EnterTimeline, Poll, Quit, LoginCheck, LoginEnter,
           LoginActivate, FollowCheck, UnFollowCheck, List, ReadPost, Distribute, WriteOwn,
           WriteFollower, NextRead
<1>3. ASSUME NEW d \in Clients
      PROVE  \/ task'[d] = task[d] /\ arg'[d] = arg[d]
             \/ task[d] \notin UpdateSteps /\ task'[d] \notin UpdateSteps
  <2>g. ASSUME NEW there, Goto(c, there)
        PROVE  /\ d # c => task'[d] = task[d]
               /\ d = c => task'[d] = there
    BY <1>t, <2>g DEF Goto
  <2>1. CASE task' = task /\ arg' = arg
    BY <2>1
  <2>2. ASSUME NEW here, NEW there, here \notin UpdateSteps, there \notin UpdateSteps,
               task[c] = here, Goto(c, there), arg' = arg
        PROVE  \/ task'[d] = task[d] /\ arg'[d] = arg[d]
               \/ task[d] \notin UpdateSteps /\ task'[d] \notin UpdateSteps
    BY <2>2, <2>g
  <2>u. {"idle", "check", "enter", "record", "activate", "check follow", "check unfollow",
         "write follow", "write unfollow", "read", "write own", "write followers"}
            \cap UpdateSteps = {}
    BY DEF UpdateSteps
  <2>3. CASE connectTo(c)
    BY <2>2, <2>3, <2>u DEF connectTo
  <2>4. ASSUME NEW v \in Users, Command(c, v)
        PROVE  \/ task'[d] = task[d] /\ arg'[d] = arg[d]
               \/ task[d] \notin UpdateSteps /\ task'[d] \notin UpdateSteps
    <3>1. /\ task[c] = "idle" /\ arg' = [arg EXCEPT ![c] = v]
          /\ Goto(c, "check follow") \/ Goto(c, "check unfollow")
      BY <2>4 DEF Command
    <3>2. CASE d = c
      BY <3>1, <3>2, <2>g, <2>u
    <3>3. CASE d # c
      BY <3>1, <3>3, <2>g, <1>t
    <3>. QED  BY <3>2, <3>3
  <2>5. CASE EnterTimeline(c)
    BY <2>2, <2>5, <2>u DEF EnterTimeline
  <2>6. CASE Poll(c) \/ Quit(c) \/ List(c)
    BY <2>1, <2>6 DEF Poll, Quit, List
  <2>7. CASE LoginCheck(c) \/ LoginEnter(c) \/ LoginRecord(c) \/ LoginActivate(c)
    <3>1. arg' = arg /\ task[c] \in LoginSteps
          /\ \E there \in {"idle", "enter", "record", "activate"} : Goto(c, there)
      BY <2>7 DEF LoginCheck, LoginEnter, LoginRecord, LoginActivate, At, LoginSteps
    <3>. QED  BY <2>2, <2>u, <3>1 DEF LoginSteps
  <2>8. CASE FollowCheck(c) \/ UnFollowCheck(c)
    <3>1. arg' = arg /\ task[c] \in {"check follow", "check unfollow"}
          /\ \E there \in {"idle", "write follow", "write unfollow"} : Goto(c, there)
      BY <2>8 DEF FollowCheck, UnFollowCheck, At
    <3>. QED  BY <2>2, <2>u, <3>1
  <2>9. CASE ReadPost(c)
    BY <2>2, <2>9, <2>u DEF ReadPost, At
  <2>10. CASE Distribute(c)
    <3>1. CASE WriteOwn(c)
      BY <2>2, <2>u, <3>1 DEF WriteOwn, At
    <3>2. ASSUME NEW v \in Users, WriteFollower(c, v) PROVE task' = task /\ arg' = arg
      BY <3>2 DEF WriteFollower
    <3>3. CASE NextRead(c)
      <4>1. arg' = arg /\ task[c] \in {"write followers", "read"}
            /\ \E there \in {"read", "idle"} : Goto(c, there)
        BY <3>3 DEF NextRead, At
      <4>. QED  BY <2>2, <2>u, <4>1
    <3>. QED  BY <2>1, <2>10, <3>1, <3>2, <3>3 DEF Distribute
  <2>. QED  BY <2>3, <2>4, <2>5, <2>6, <2>7, <2>8, <2>9, <2>10
<1>. QED  BY <1>1, <1>2, <1>3, BalanceQuiet

LEMMA BalanceStep ==
    ASSUME OneClientEach, Strong, NonNegative, Balance, [Next]_vars
    PROVE  Balance'
<1> SUFFICES ASSUME server' = "up" PROVE Balance'
  BY DEF Balance
<1>1. CASE RunServer
  <2>1. /\ ReplayableFile(users_txt) /\ following' = Recorded /\ followers' = RecordedFollowers
        /\ UNCHANGED <<users_txt, task, arg>> /\ server = "down"
    BY <1>1, FileForms DEF RunServer, Strong, TypeOK
  <2>2. ASSUME NEW u \in Users, NEW v \in Users
        PROVE  /\ following'[u][v] = NetIn(users_txt, u, v)
               /\ followers'[v][u] = NetIn(users_txt, u, v)
               /\ NetIn(users_txt, u, v) \in Int
    <3>1. /\ NetIn(users_txt, u, v) \in Int
          /\ Recorded[u][v] = IF NetIn(users_txt, u, v) > 0 THEN NetIn(users_txt, u, v) ELSE 0
      BY FileForms DEF Strong, TypeOK, NetNow
    <3>2. NetIn(users_txt, u, v) >= 0
      BY <2>1 DEF NonNegative
    <3>3. Recorded[u][v] = NetIn(users_txt, u, v)
      BY <3>1, <3>2
    <3>4. RecordedFollowers[v][u] = Recorded[u][v]
      BY DEF RecordedFollowers
    <3>. QED  BY <2>1, <3>1, <3>3, <3>4
  <2>3. \A c \in Clients : task'[c] = "idle" /\ OwnerOf[c] \in Users
    BY <2>1, LineTypes DEF Strong, HandlersBusy
  <2>4. "idle" \notin UpdateSteps
    BY DEF UpdateSteps
  <2>5. ASSUME NEW c \in Clients, NEW v PROVE About(task', arg', c, v) = "idle"
    BY <2>3 DEF About
  <2>6. ASSUME NEW u \in Users, NEW v \in Users
        PROVE  Balanced(following'[u][v], followers'[v][u], NetIn(users_txt, u, v), "idle")
    BY <2>2, <2>4, BalanceIdle
  <2>7. OwnBalance' /\ OtherBalance'
    BY <2>1, <2>3, <2>5, <2>6 DEF OwnBalance, OtherBalance
  <2>. QED  BY <2>7 DEF Balance
<1>2. ASSUME server # "up" PROVE RunServer \/ UNCHANGED vars
  BY <1>2 DEF Next, vars, Distribute, At, connectTo, Command, EnterTimeline, Poll, Quit,
       LoginCheck, LoginEnter, LoginRecord, LoginActivate, FollowCheck, FollowWrite,
       FollowAddFollowing, FollowAddFollower, UnFollowCheck, UnFollowWrite,
       UnFollowDropFollowing, UnFollowDropFollower, List, ReadPost, WriteOwn, WriteFollower,
       NextRead, Kill
<1>3. CASE UNCHANGED vars
  BY <1>3 DEF vars, memory, Balance, OwnBalance, OtherBalance, About
<1>4. CASE server = "up"
  BY <1>1, <1>3, <1>4, BalanceUpdates, BalanceElse DEF Next, Kill
<1>. QED  BY <1>1, <1>2, <1>3, <1>4

LEMMA BalanceInit == Init => Balance
<1> SUFFICES ASSUME Init PROVE OwnBalance /\ OtherBalance
  BY DEF Balance
<1>1. ASSUME NEW u \in Users, NEW v \in Users
      PROVE  Balanced(following[u][v], followers[v][u], NetIn(users_txt, u, v), "idle")
  <2>1. users_txt = <<>> /\ Len(users_txt) = 0 /\ 1..0 = {}
    BY DEF Init
  <2>2. \A l : {j \in 1..Len(users_txt) : users_txt[j] = l} = {}
    BY <2>1
  <2>3. \A l : CountOf(users_txt, l, Len(users_txt)) = 0
    BY <2>2, FS_EmptySet DEF CountOf
  <2>4. NetIn(users_txt, u, v) = 0
    BY <2>3 DEF NetIn, NetOf
  <2>5. following[u][v] = 0 /\ followers[v][u] = 0
    BY DEF Init, NoCounts
  <2>6. "idle" \notin UpdateSteps
    BY DEF UpdateSteps
  <2>. QED  BY <2>4, <2>5, <2>6, BalanceIdle
<1>2. \A c \in Clients : OwnerOf[c] \in Users
  BY LineTypes
<1>3. ASSUME NEW c \in Clients, NEW v PROVE About(task, arg, c, v) = "idle"
  BY DEF Init, About
<1>. QED  BY <1>1, <1>2, <1>3 DEF OwnBalance, OtherBalance

\* Both maps agree with each other and with the file wherever nobody is busy.
LEMMA BalanceMeans ==
    ASSUME Strong, Balance, server = "up", NEW u \in Users, NEW v \in Users,
           ~ \E c \in Clients : OwnerOf[c] = u /\ arg[c] = v /\ task[c] \in UpdateSteps
    PROVE  following[u][v] = NetIn(users_txt, u, v) /\ followers[v][u] = NetIn(users_txt, u, v)
<1>1. NetIn(users_txt, u, v) \in Int
  BY NetMoves, LineTypes DEF Strong, TypeOK
<1>2. "idle" \notin UpdateSteps
  BY DEF UpdateSteps
<1>3. CASE \A c \in Clients : OwnerOf[c] # u
  BY <1>1, <1>2, <1>3, BalanceIdle DEF Balance, OtherBalance
<1>4. ASSUME NEW c \in Clients, OwnerOf[c] = u
      PROVE  following[u][v] = NetIn(users_txt, u, v) /\ followers[v][u] = NetIn(users_txt, u, v)
  <2>1. About(task, arg, c, v) \notin UpdateSteps
    BY <1>2, <1>4 DEF About
  <2>2. Balanced(following[u][v], followers[v][u], NetIn(users_txt, u, v), About(task, arg, c, v))
    BY <1>4 DEF Balance, OwnBalance
  <2>. QED  BY <1>1, <2>1, <2>2, BalanceIdle
<1>. QED  BY <1>3, <1>4

\* In between they differ only by the update in hand.
SecondSteps == {"add follower", "drop follower"}

LEMMA MirrorHolds == Strong /\ Balance => Mirror
<1> SUFFICES ASSUME Strong, Balance, server = "up", NEW u \in Users, NEW v \in Users,
                    ~ \E c \in Clients : /\ OwnerOf[c] = u /\ arg[c] = v
                                         /\ task[c] \in SecondSteps
             PROVE  following[u][v] = followers[v][u]
  BY DEF Mirror, SecondSteps
<1>t. following[u][v] \in Int
  <2>1. following[u][v] \in Nat
    BY DEF Strong, TypeOK, Counts
  <2>. QED  BY <2>1
<1>b. ASSUME NEW n, NEW h, h \notin SecondSteps,
             Balanced(following[u][v], followers[v][u], n, h)
      PROVE  following[u][v] = followers[v][u]
  <2>1. One(h = "add follower") = 0 /\ One(h = "drop follower") = 0
    BY <1>b DEF One, SecondSteps
  <2>2. followers[v][u] = following[u][v] - 0 + 0
    BY <1>b, <2>1 DEF Balanced
  <2>. QED  BY <1>t, <2>2
<1>1. CASE \A c \in Clients : OwnerOf[c] # u
  <2>1. Balanced(following[u][v], followers[v][u], NetIn(users_txt, u, v), "idle")
    BY <1>1 DEF Balance, OtherBalance
  <2>2. "idle" \notin SecondSteps
    BY DEF SecondSteps
  <2>. QED  BY <1>b, <2>1, <2>2
<1>2. ASSUME NEW c \in Clients, OwnerOf[c] = u PROVE following[u][v] = followers[v][u]
  <2>1. About(task, arg, c, v) \notin SecondSteps
    BY <1>2 DEF About, SecondSteps
  <2>2. Balanced(following[u][v], followers[v][u], NetIn(users_txt, u, v), About(task, arg, c, v))
    BY <1>2 DEF Balance, OwnBalance
  <2>. QED  BY <1>b, <2>1, <2>2
<1>. QED  BY <1>1, <1>2

LEMMA ReplayMeans ==
    ASSUME Strong, Balance, server = "up", NEW u \in Users, NEW v \in Users,
           ~ \E c \in Clients : OwnerOf[c] = u /\ arg[c] = v /\ task[c] \in UpdateSteps
    PROVE  following[u][v] = Recorded[u][v] /\ followers[v][u] = Recorded[u][v]
<1>1. following[u][v] = NetIn(users_txt, u, v) /\ followers[v][u] = NetIn(users_txt, u, v)
  BY BalanceMeans
<1>2. following[u][v] \in Nat
  BY DEF Strong, TypeOK, Counts
<1>3. Recorded[u][v] = IF NetIn(users_txt, u, v) > 0 THEN NetIn(users_txt, u, v) ELSE 0
  BY FileForms DEF Strong, TypeOK, NetNow
<1>. QED  BY <1>1, <1>2, <1>3

LEMMA ReplayHolds == Strong /\ Balance => ReplayAgrees
<1> SUFFICES ASSUME Strong, Balance, server = "up", NEW u \in Users, NEW v \in Users,
                    ~ \E c \in Clients : /\ OwnerOf[c] = u /\ arg[c] = v
                                         /\ task[c] \in UpdateSteps
             PROVE  following[u][v] = Recorded[u][v] /\ followers[v][u] = Recorded[u][v]
  BY DEF ReplayAgrees, UpdateSteps
<1>. QED  BY ReplayMeans

LEMMA BalanceAlways ==
    ASSUME OneClientEach
    PROVE  Spec => [](Strong /\ NonNegative /\ Balance)
<1>1. Strong /\ NonNegative /\ Balance /\ [Next]_vars => (Strong /\ NonNegative /\ Balance)'
  <2>1. Strong => TypeOK
    BY DEF Strong
  <2>. QED  BY <2>1, StrongStep, NonNegativeStep, BalanceStep
<1>. QED  BY <1>1, InitStrong, NonNegativeInit, BalanceInit, PTL DEF Spec

\* following and followers mirror each other, but for the update in hand.
THEOREM MapsMirror ==
    ASSUME OneClientEach
    PROVE  Spec => []Mirror
<1>. QED  BY BalanceAlways, MirrorHolds, PTL

\* A running server holds what a restart would make it hold.
THEOREM RestartWouldAgree ==
    ASSUME OneClientEach
    PROVE  Spec => []ReplayAgrees
<1>. QED  BY BalanceAlways, ReplayHolds, PTL

-----------------------------------------------------------------------------
(* CarefulUsersSafe                                                         *)

AddSteps == {"add following", "add follower"}

\* The follows that a client may still take back stand in the file, without
\* the one whose answer has not come yet.
OwedBound(o, n, h) == o <= n - One(h \in AddSteps)
OwedCovered ==
    \A c \in Clients : \A v \in Users :
        OwedBound(owed[c][v], NetIn(users_txt, OwnerOf[c], v), About(task, arg, c, v))
Careful == ~careless => OwedCovered /\ ReplayableFile(users_txt) /\ server # "wrecked"

LEMMA CarefulInit == Init => Careful
<1> SUFFICES ASSUME Init PROVE OwedCovered /\ ReplayableFile(users_txt) /\ server # "wrecked"
  BY DEF Careful
<1>1. users_txt = <<>> /\ Len(users_txt) = 0 /\ 1..0 = {} /\ server # "wrecked"
      /\ DOMAIN users_txt = {}
  BY DEF Init
<1>2. \A l : {j \in 1..Len(users_txt) : users_txt[j] = l} = {}
  BY <1>1
<1>3. \A l : CountOf(users_txt, l, Len(users_txt)) = 0
  BY <1>2, FS_EmptySet DEF CountOf
<1>4. ASSUME NEW c \in Clients, NEW v \in Users
      PROVE  OwedBound(owed[c][v], NetIn(users_txt, OwnerOf[c], v), About(task, arg, c, v))
  <2>1. NetIn(users_txt, OwnerOf[c], v) = 0
    BY <1>3 DEF NetIn, NetOf
  <2>2. owed[c][v] = 0 /\ About(task, arg, c, v) = "idle"
    BY DEF Init, About
  <2>. QED  BY <2>1, <2>2 DEF OwedBound, One, AddSteps
<1>. QED  BY <1>1, <1>4 DEF OwedCovered, ReplayableFile

\* What a client has in hand may lose its weight, never gain any.
LEMMA OwedWeaker ==
    ASSUME NEW o \in Nat, NEW n \in Int, NEW h, OwedBound(o, n, h)
    PROVE  /\ OwedBound(o, n, "idle") /\ o <= n
           /\ \A k : k \notin AddSteps => OwedBound(o, n, k)
<1>1. o <= n
  <2>1. CASE h \in AddSteps
    <3>1. o <= n - 1
      BY <2>1 DEF OwedBound, One
    <3>. QED  BY <3>1
  <2>2. CASE h \notin AddSteps
    <3>1. o <= n - 0
      BY <2>2 DEF OwedBound, One
    <3>. QED  BY <3>1
  <2>. QED  BY <2>1, <2>2
<1>2. ASSUME NEW k, k \notin AddSteps PROVE OwedBound(o, n, k)
  <2>1. One(k \in AddSteps) = 0
    BY <1>2 DEF One
  <2>2. o <= n - 0
    BY <1>1
  <2>. QED  BY <2>1, <2>2 DEF OwedBound
<1>3. "idle" \notin AddSteps
  BY DEF AddSteps
<1>. QED  BY <1>1, <1>2, <1>3

LEMMA OwedArithmetic ==
    ASSUME NEW o \in Nat, NEW n \in Int
    PROVE  /\ OwedBound(o, n, "write follow") => OwedBound(o, n + 1, "add following")
           /\ OwedBound(o, n, "add following") => OwedBound(o, n, "add follower")
           /\ OwedBound(o, n, "add follower") => OwedBound(o + 1, n, "idle")
           /\ OwedBound(o, n, "write unfollow") => OwedBound(o - 1, n - 1, "drop following")
<1>1. OwedBound(o, n, "write follow") => OwedBound(o, n + 1, "add following")
  BY DEF OwedBound, One, AddSteps
<1>2. OwedBound(o, n, "add following") => OwedBound(o, n, "add follower")
  BY DEF OwedBound, One, AddSteps
<1>3. OwedBound(o, n, "add follower") => OwedBound(o + 1, n, "idle")
  BY DEF OwedBound, One, AddSteps
<1>4. OwedBound(o, n, "write unfollow") => OwedBound(o - 1, n - 1, "drop following")
  BY DEF OwedBound, One, AddSteps
<1>. QED  BY <1>1, <1>2, <1>3, <1>4

\* What a step does to what is owed: nothing, or it is one of the three that
\* begin, acknowledge or take back a follow.
LEMMA OwedSteps ==
    ASSUME [Next]_vars
    PROVE  \/ UNCHANGED <<owed, careless>>
           \/ \E c \in Clients : FollowAddFollower(c) \/ UnFollowWrite(c)
  BY DEF Next, Distribute, vars, user, connectTo, Command, EnterTimeline, Poll, Quit,
     LoginCheck, LoginEnter, LoginRecord, LoginActivate, FollowCheck, FollowWrite,
     FollowAddFollowing, UnFollowCheck, UnFollowDropFollowing, UnFollowDropFollower, List,
     ReadPost, WriteOwn, WriteFollower, NextRead, Kill, RunServer

\* A step that neither follows, acknowledges nor unfollows leaves all bounds.
LEMMA OwedQuiet ==
    ASSUME Strong, OwedCovered, owed' = owed,
           \A u, v \in Users : NetIn(users_txt', u, v) = NetIn(users_txt, u, v),
           \A c \in Clients : \/ task'[c] = task[c] /\ arg'[c] = arg[c]
                              \/ task'[c] \notin AddSteps
                              \/ task'[c] \in AddSteps /\ task[c] \in AddSteps /\ arg'[c] = arg[c]
    PROVE  OwedCovered'
<1>t. /\ \A c \in Clients : OwnerOf[c] \in Users
      /\ \A u, v \in Users : NetIn(users_txt, u, v) \in Int
      /\ \A c \in Clients : \A v \in Users : owed[c][v] \in Nat
  BY LineTypes, NetMoves DEF Strong, TypeOK
<1>1. ASSUME NEW c \in Clients, NEW v \in Users
      PROVE  OwedBound(owed[c][v], NetIn(users_txt, OwnerOf[c], v), About(task', arg', c, v))
  <2>1. OwedBound(owed[c][v], NetIn(users_txt, OwnerOf[c], v), About(task, arg, c, v))
    BY DEF OwedCovered
  <2>2. CASE task'[c] = task[c] /\ arg'[c] = arg[c]
    BY <2>1, <2>2 DEF About
  <2>3. CASE task'[c] \notin AddSteps
    <3>1. About(task', arg', c, v) \notin AddSteps
      BY <2>3 DEF About, AddSteps
    <3>. QED  BY <1>t, <2>1, <3>1, OwedWeaker
  <2>4. CASE task'[c] \in AddSteps /\ task[c] \in AddSteps /\ arg'[c] = arg[c]
    <3>1. CASE arg[c] = v
      BY <2>1, <2>4, <3>1 DEF About, OwedBound
    <3>2. CASE arg[c] # v
      BY <2>1, <2>4, <3>2 DEF About
    <3>. QED  BY <3>1, <3>2
  <2>. QED  BY <2>2, <2>3, <2>4
<1>. QED  BY <1>t, <1>1 DEF OwedCovered

\* A step of one client that touches only what it owes one user.
LEMMA OwedMove ==
    ASSUME OneClientEach, Strong, OwedCovered, NEW c \in Clients, NEW u \in Users, NEW v \in Users,
           u = OwnerOf[c], v = arg[c], arg' = arg,
           \A d \in Clients : d # c => task'[d] = task[d],
           \A d \in Clients, y \in Users : d # c \/ y # v => owed'[d][y] = owed[d][y],
           \A x, y \in Users : x # u \/ y # v => NetIn(users_txt', x, y) = NetIn(users_txt, x, y),
           OwedBound(owed'[c][v], NetIn(users_txt', u, v), task'[c])
    PROVE  OwedCovered'
<1>1. ASSUME NEW d \in Clients, NEW y \in Users
      PROVE  OwedBound(owed'[d][y], NetIn(users_txt', OwnerOf[d], y), About(task', arg', d, y))
  <2>1. OwedBound(owed[d][y], NetIn(users_txt, OwnerOf[d], y), About(task, arg, d, y))
    BY DEF OwedCovered
  <2>2. CASE d # c
    <3>1. /\ OwnerOf[d] # u /\ OwnerOf[d] \in Users
          /\ About(task', arg', d, y) = About(task, arg, d, y)
      BY <2>2, LineTypes DEF OneClientEach, About
    <3>. QED  BY <2>1, <2>2, <3>1
  <2>3. CASE d = c /\ y # v
    <3>1. About(task', arg', d, y) = About(task, arg, d, y)
      BY <2>3 DEF About
    <3>. QED  BY <2>1, <2>3, <3>1
  <2>4. CASE d = c /\ y = v
    BY <2>4 DEF About
  <2>. QED  BY <2>2, <2>3, <2>4
<1>. QED  BY <1>1 DEF OwedCovered

LEMMA TaskMoves ==
    ASSUME TypeOK, NEW c \in Clients, NEW there, Goto(c, there)
    PROVE  task'[c] = there /\ \A d \in Clients : d # c => task'[d] = task[d]
  BY DEF TypeOK, Goto

LEMMA OwedStep ==
    ASSUME OneClientEach, Strong, OwedCovered, [Next]_vars, ~careless'
    PROVE  OwedCovered'
<1>t. /\ users_txt \in Seq(Lines) /\ owed \in [Clients -> [Users -> Nat]]
      /\ \A c \in Clients : OwnerOf[c] \in Users /\ arg[c] \in Users
      /\ \A u, v \in Users : NetIn(users_txt, u, v) \in Int
      /\ TypeOK
  BY LineTypes, NetMoves DEF Strong, TypeOK
<1>1. ASSUME NEW c \in Clients, FollowWrite(c) PROVE OwedCovered'
  <2>1. PICK u \in Users : u = OwnerOf[c]
    BY <1>t
  <2>2. PICK v \in Users : v = arg[c]
    BY <1>t
  <2>3. /\ arg' = arg /\ owed' = owed /\ task[c] = "write follow" /\ Goto(c, "add following")
        /\ users_txt' = With(users_txt, Line("follow", u, v))
    BY <1>1, <2>1, <2>2 DEF FollowWrite, AfterFollow, At, user, With
  <2>4. NetIn(With(users_txt, Line("follow", u, v)), u, v) = NetIn(users_txt, u, v) + 1
    BY <1>t, LineElsewhere
  <2>5. ASSUME NEW x \in Users, NEW y \in Users, x # u \/ y # v
        PROVE  NetIn(With(users_txt, Line("follow", u, v)), x, y) = NetIn(users_txt, x, y)
    BY <1>t, <2>5, LineElsewhere
  <2>6. OwedBound(owed[c][v], NetIn(users_txt, u, v), "write follow")
    BY <2>1, <2>2, <2>3 DEF OwedCovered, About
  <2>7. OwedBound(owed[c][v], NetIn(users_txt, u, v) + 1, "add following")
    <3>1. owed[c][v] \in Nat /\ NetIn(users_txt, u, v) \in Int
      BY <1>t
    <3>. QED  BY <2>6, <3>1, OwedArithmetic
  <2>8. task'[c] = "add following" /\ \A d \in Clients : d # c => task'[d] = task[d]
    BY <1>t, <2>3, TaskMoves
  <2>9. OwedBound(owed'[c][v], NetIn(users_txt', u, v), task'[c])
    BY <2>3, <2>4, <2>7, <2>8
  <2>. QED  BY <2>1, <2>2, <2>3, <2>5, <2>8, <2>9, OwedMove
<1>2. ASSUME NEW c \in Clients, FollowAddFollower(c) PROVE OwedCovered'
  <2>1. PICK u \in Users : u = OwnerOf[c]
    BY <1>t
  <2>2. PICK v \in Users : v = arg[c]
    BY <1>t
  <2>3. /\ arg' = arg /\ owed' = [owed EXCEPT ![c][v] = owed[c][v] + 1]
        /\ task[c] = "add follower" /\ Goto(c, "idle") /\ users_txt' = users_txt
    BY <1>2, <2>2 DEF FollowAddFollower, At
  <2>4. /\ owed'[c][v] = owed[c][v] + 1
        /\ \A d \in Clients, y \in Users : d # c \/ y # v => owed'[d][y] = owed[d][y]
    BY <1>t, <2>3
  <2>6. OwedBound(owed[c][v], NetIn(users_txt, u, v), "add follower")
    BY <2>1, <2>2, <2>3 DEF OwedCovered, About
  <2>7. OwedBound(owed[c][v] + 1, NetIn(users_txt, u, v), "idle")
    <3>1. owed[c][v] \in Nat /\ NetIn(users_txt, u, v) \in Int
      BY <1>t
    <3>. QED  BY <2>6, <3>1, OwedArithmetic
  <2>8. task'[c] = "idle" /\ \A d \in Clients : d # c => task'[d] = task[d]
    BY <1>t, <2>3, TaskMoves
  <2>9. OwedBound(owed'[c][v], NetIn(users_txt', u, v), task'[c])
    BY <2>3, <2>4, <2>7, <2>8
  <2>. QED  BY <2>1, <2>2, <2>3, <2>4, <2>8, <2>9, OwedMove
<1>3. ASSUME NEW c \in Clients, UnFollowWrite(c) PROVE OwedCovered'
  <2>1. PICK u \in Users : u = OwnerOf[c]
    BY <1>t
  <2>2. PICK v \in Users : v = arg[c]
    BY <1>t
  <2>3. /\ arg' = arg /\ owed' = [owed EXCEPT ![c][v] = owed[c][v] - 1]
        /\ task[c] = "write unfollow" /\ Goto(c, "drop following")
        /\ users_txt' = With(users_txt, Line("unfollow", u, v))
    BY <1>3, <2>1, <2>2 DEF UnFollowWrite, At, With
  <2>4. /\ owed'[c][v] = owed[c][v] - 1
        /\ \A d \in Clients, y \in Users : d # c \/ y # v => owed'[d][y] = owed[d][y]
    BY <1>t, <2>3
  <2>5. NetIn(With(users_txt, Line("unfollow", u, v)), u, v) = NetIn(users_txt, u, v) - 1
    BY <1>t, LineElsewhere
  <2>6. ASSUME NEW x \in Users, NEW y \in Users, x # u \/ y # v
        PROVE  NetIn(With(users_txt, Line("unfollow", u, v)), x, y) = NetIn(users_txt, x, y)
    <3>1. users_txt \in Seq(Lines)
      BY <1>t
    <3>. QED  BY <2>6, <3>1, LineElsewhere
  <2>7. OwedBound(owed[c][v], NetIn(users_txt, u, v), "write unfollow")
    BY <2>1, <2>2, <2>3 DEF OwedCovered, About
  <2>8. OwedBound(owed[c][v] - 1, NetIn(users_txt, u, v) - 1, "drop following")
    <3>1. owed[c][v] \in Nat /\ NetIn(users_txt, u, v) \in Int
      BY <1>t
    <3>. QED  BY <2>7, <3>1, OwedArithmetic
  <2>9. task'[c] = "drop following" /\ \A d \in Clients : d # c => task'[d] = task[d]
    BY <1>t, <2>3, TaskMoves
  <2>10. OwedBound(owed'[c][v], NetIn(users_txt', u, v), task'[c])
    BY <2>3, <2>4, <2>5, <2>8, <2>9
  <2>11. \A x, y \in Users : x # u \/ y # v => NetIn(users_txt', x, y) = NetIn(users_txt, x, y)
    BY <2>3, <2>6
  <2>. QED  BY <2>1, <2>2, <2>3, <2>4, <2>9, <2>10, <2>11, OwedMove
<1>4. CASE \A c \in Clients : ~FollowWrite(c) /\ ~FollowAddFollower(c) /\ ~UnFollowWrite(c)
  <2>1. owed' = owed
    BY <1>4, OwedSteps
  <2>2. ASSUME NEW u \in Users, NEW v \in Users
        PROVE  NetIn(users_txt', u, v) = NetIn(users_txt, u, v)
    <3>1. CASE users_txt' = users_txt
      BY <3>1
    <3>2. ASSUME NEW c \in Clients, LoginRecord(c)
          PROVE  NetIn(users_txt', u, v) = NetIn(users_txt, u, v)
      <4>1. users_txt' = Append(users_txt, Line("newuser", OwnerOf[c], OwnerOf[c]))
        BY <3>2 DEF LoginRecord
      <4>2. NetIn(Append(users_txt, Line("newuser", OwnerOf[c], OwnerOf[c])), u, v) = NetIn(users_txt, u, v)
        BY <1>t, LineMoves
      <4>. QED  BY <4>1, <4>2
    <3>. QED  BY <1>4, <3>1, <3>2, FileSteps
  <2>3. ASSUME NEW c \in Clients
        PROVE  \/ task'[c] = task[c] /\ arg'[c] = arg[c]
               \/ task'[c] \notin AddSteps
               \/ task'[c] \in AddSteps /\ task[c] \in AddSteps /\ arg'[c] = arg[c]
    <3>1. CASE FollowAddFollowing(c)
      <4>1. task[c] = "add following" /\ Goto(c, "add follower") /\ arg' = arg
        BY <3>1 DEF FollowAddFollowing, At
      <4>. QED  BY <1>t, <4>1, TaskMoves DEF AddSteps
    <3>2. CASE UnFollowDropFollowing(c)
      <4>1. arg' = arg /\ (task' = task \/ Goto(c, "drop follower"))
        BY <3>2 DEF UnFollowDropFollowing
      <4>2. CASE task' = task
        BY <4>1, <4>2
      <4>3. CASE Goto(c, "drop follower")
        <5>1. task'[c] = "drop follower"
          BY <1>t, <4>3, TaskMoves
        <5>. QED  BY <5>1 DEF AddSteps
      <4>. QED  BY <4>1, <4>2, <4>3
    <3>3. CASE WriteOwn(c)
      <4>1. Goto(c, "write followers")
        BY <3>3 DEF WriteOwn
      <4>2. task'[c] = "write followers"
        BY <1>t, <4>1, TaskMoves
      <4>. QED  BY <4>2 DEF AddSteps
    <3>4. CASE task'[c] \in Steps \ MidSteps
      BY <3>4 DEF MidSteps, AddSteps
    <3>. QED  BY <1>4, <1>t, <3>1, <3>2, <3>3, <3>4, HandlerMoves
  <2>. QED  BY <2>1, <2>2, <2>3, OwedQuiet
<1>. QED  BY <1>1, <1>2, <1>3, <1>4

LEMMA CarefulStep ==
    ASSUME OneClientEach, Strong, Balance, Careful, [Next]_vars
    PROVE  Careful'
<1> SUFFICES ASSUME ~careless'
             PROVE  OwedCovered' /\ ReplayableFile(users_txt') /\ server' # "wrecked"
  BY DEF Careful
<1>c. ~careless
  BY OwedSteps DEF FollowAddFollower, UnFollowWrite
<1>t. /\ users_txt \in Seq(Lines) /\ owed \in [Clients -> [Users -> Nat]]
      /\ \A c \in Clients : OwnerOf[c] \in Users /\ arg[c] \in Users
      /\ \A u, v \in Users : NetIn(users_txt, u, v) \in Int
      /\ \A u, v \in Users : following[u][v] \in Nat /\ followers[u][v] \in Nat
  BY LineTypes, NetMoves DEF Strong, TypeOK, Counts
<1>h. OwedCovered /\ ReplayableFile(users_txt) /\ server # "wrecked"
  BY <1>c DEF Careful
<1>n. ASSUME NEW c \in Clients
      PROVE  owed[c][arg[c]] <= NetIn(users_txt, OwnerOf[c], arg[c])
  BY <1>h, <1>t, OwedWeaker DEF OwedCovered
<1>1. OwedCovered'
  BY <1>h, OwedStep
<1>2. ReplayableFile(users_txt')
  <2>1. CASE users_txt' = users_txt
    BY <1>h, <2>1
  <2>2. ASSUME NEW l \in Lines, users_txt' = Append(users_txt, l),
               l.kind = "unfollow" => NetIn(users_txt, l.a, l.b) > 0
        PROVE  ReplayableFile(users_txt')
    <3>1. ReplayableFile(Append(users_txt, l))
      BY <1>h, <1>t, <2>2, NetMoves
    <3>. QED  BY <2>2, <3>1
  <2>3. ASSUME NEW c \in Clients, LoginRecord(c) \/ FollowWrite(c)
        PROVE  ReplayableFile(users_txt')
    <3>1. \E k \in {"newuser", "follow"}, u \in Users, v \in Users :
              users_txt' = Append(users_txt, Line(k, u, v))
      BY <1>t, <2>3 DEF LoginRecord, FollowWrite, AfterFollow
    <3>2. \A k \in {"newuser", "follow"}, u \in Users, v \in Users :
              Line(k, u, v) \in Lines /\ Line(k, u, v).kind # "unfollow"
      BY LineTypes
    <3>. QED  BY <2>2, <3>1, <3>2
  <2>4. ASSUME NEW c \in Clients, UnFollowWrite(c) PROVE ReplayableFile(users_txt')
    <3>1. owed[c][arg[c]] # 0 /\ users_txt' = Append(users_txt, Line("unfollow", OwnerOf[c], arg[c]))
      BY <2>4 DEF UnFollowWrite
    <3>2. NetIn(users_txt, OwnerOf[c], arg[c]) > 0
      BY <1>n, <1>t, <3>1
    <3>3. /\ Line("unfollow", OwnerOf[c], arg[c]) \in Lines
          /\ Line("unfollow", OwnerOf[c], arg[c]).a = OwnerOf[c]
          /\ Line("unfollow", OwnerOf[c], arg[c]).b = arg[c]
      BY <1>t, LineTypes
    <3>. QED  BY <2>2, <3>1, <3>2, <3>3
  <2>. QED  BY <2>1, <2>3, <2>4, FileSteps
<1>3. server' # "wrecked"
  <2>1. ASSUME NEW c \in Clients, server = "up"
        PROVE  Balanced(following[OwnerOf[c]][arg[c]], followers[arg[c]][OwnerOf[c]],
                        NetIn(users_txt, OwnerOf[c], arg[c]), task[c])
    BY <1>t, <2>1 DEF Balance, OwnBalance, About
  <2>2. ASSUME NEW c \in Clients, UnFollowDropFollowing(c) PROVE server' # "wrecked"
    <3>1. task[c] = "drop following" /\ server = "up"
      BY <2>2 DEF UnFollowDropFollowing, At
    <3>2. following[OwnerOf[c]][arg[c]] = NetIn(users_txt, OwnerOf[c], arg[c]) - 0 + 1
      <4>1. One(task[c] = "add following") = 0 /\ One(task[c] = "drop following") = 1
        BY <3>1 DEF One
      <4>. QED  BY <2>1, <3>1, <4>1 DEF Balanced
    <3>3. following[OwnerOf[c]][arg[c]] > 0
      <4>1. owed[c][arg[c]] \in Nat /\ NetIn(users_txt, OwnerOf[c], arg[c]) \in Int
        BY <1>t
      <4>. QED  BY <1>n, <3>2, <4>1
    <3>. QED  BY <1>h, <2>2, <3>3 DEF UnFollowDropFollowing
  <2>3. ASSUME NEW c \in Clients, UnFollowDropFollower(c) PROVE server' # "wrecked"
    <3>1. task[c] = "drop follower" /\ server = "up"
      BY <2>3 DEF UnFollowDropFollower, At
    <3>2. followers[arg[c]][OwnerOf[c]] = following[OwnerOf[c]][arg[c]] - 0 + 1
      <4>1. One(task[c] = "add follower") = 0 /\ One(task[c] = "drop follower") = 1
        BY <3>1 DEF One
      <4>. QED  BY <2>1, <3>1, <4>1 DEF Balanced
    <3>3. followers[arg[c]][OwnerOf[c]] > 0
      <4>1. following[OwnerOf[c]][arg[c]] \in Nat
        BY <1>t
      <4>. QED  BY <3>2, <4>1
    <3>. QED  BY <1>h, <2>3, <3>3 DEF UnFollowDropFollower
  <2>4. CASE RunServer
    BY <1>h, <1>t, <2>4, FileForms DEF RunServer
  <2>5. CASE UNCHANGED server
    BY <1>h, <2>5
  <2>6. CASE Kill
    BY <2>6 DEF Kill
  <2>. QED
    BY <2>2, <2>3, <2>4, <2>5, <2>6
       DEF Next, Distribute, vars, connectTo, Command, EnterTimeline, Poll, Quit,
           LoginCheck, LoginEnter, LoginRecord, LoginActivate, FollowCheck, FollowWrite,
           FollowAddFollowing, FollowAddFollower, UnFollowCheck, UnFollowWrite, List,
           ReadPost, WriteOwn, WriteFollower, NextRead
<1>. QED  BY <1>1, <1>2, <1>3

\* Who unfollows only users he was told he follows never breaks the server.
THEOREM CarefulUsersAreSafe ==
    ASSUME OneClientEach
    PROVE  Spec => []CarefulUsersSafe
<1>1. Strong /\ NonNegative /\ Balance /\ Careful => CarefulUsersSafe
  BY FileForms DEF Strong, TypeOK, Careful, CarefulUsersSafe
<1>2. (Strong /\ Balance) /\ Careful /\ [Next]_vars => Careful'
  BY CarefulStep
<1>. QED  BY <1>1, <1>2, BalanceAlways, CarefulInit, PTL DEF Spec

-----------------------------------------------------------------------------
(* The server implements SocialGraph                                        *)

\* What a restart would make of a file.
RecordedIn(txt) ==
    [u \in Users |-> [v \in Users |-> IF NetIn(txt, u, v) > 0 THEN NetIn(txt, u, v) ELSE 0]]

LEMMA RecordedForm == Recorded = RecordedIn(users_txt) /\ Recorded' = RecordedIn(users_txt')
<1>1. \A u, v, k : Net(u, v, k) = NetOf(users_txt, u, v, k)
  BY DEF Net, NetOf, Occurs, CountOf
<1>2. Recorded = RecordedIn(users_txt)
  BY <1>1 DEF Recorded, RecordedIn, NetIn
<1>3. Recorded' = RecordedIn(users_txt')
  BY DEF Recorded, RecordedIn, NetIn, Net, NetOf, Occurs, CountOf
<1>. QED  BY <1>2, <1>3

LEMMA RecordedSame ==
    ASSUME \A u, v \in Users : NetIn(users_txt', u, v) = NetIn(users_txt, u, v)
    PROVE  Recorded' = Recorded
  BY RecordedForm DEF RecordedIn

LEMMA GraphInit == Init => Graph!Init
<1> SUFFICES ASSUME Init PROVE Graph!Init
  OBVIOUS
<1>1. users_txt = <<>> /\ Len(users_txt) = 0 /\ 1..0 = {}
  BY DEF Init
<1>2. \A l : {j \in 1..Len(users_txt) : users_txt[j] = l} = {}
  BY <1>1
<1>3. \A l : CountOf(users_txt, l, Len(users_txt)) = 0
  BY <1>2, FS_EmptySet DEF CountOf
<1>4. \A u, v \in Users : NetIn(users_txt, u, v) = 0
  BY <1>3 DEF NetIn, NetOf
<1>5. Recorded = [u \in Users |-> [v \in Users |-> 0]]
  BY <1>4, RecordedForm DEF RecordedIn
<1>. QED  BY <1>5 DEF Init, Graph!Init

LEMMA TwoLevels ==
    ASSUME NEW e \in [Users -> [Users -> Nat]], NEW w \in [Users -> [Users -> Nat]],
           NEW u \in Users, NEW v \in Users,
           \A x, y \in Users : x # u \/ y # v => w[x][y] = e[x][y]
    PROVE  w = [e EXCEPT ![u][v] = w[u][v]]
<1> DEFINE new == [e EXCEPT ![u][v] = w[u][v]]
<1>1. new \in [Users -> [Users -> Nat]]
  OBVIOUS
<1>2. ASSUME NEW x \in Users, NEW y \in Users PROVE new[x][y] = w[x][y]
  OBVIOUS
<1> HIDE DEF new
<1>3. ASSUME NEW x \in Users PROVE new[x] = w[x]
  <2>1. new[x] \in [Users -> Nat] /\ w[x] \in [Users -> Nat]
    BY <1>1
  <2>. QED  BY <1>2, <2>1
<1>4. new = w
  BY <1>1, <1>3
<1>. QED  BY <1>4 DEF new

LEMMA RecordedTypes ==
    ASSUME NEW txt \in Seq(Lines)
    PROVE  /\ RecordedIn(txt) \in [Users -> [Users -> Nat]]
           /\ \A u, v \in Users :
                  RecordedIn(txt)[u][v] = IF NetIn(txt, u, v) > 0 THEN NetIn(txt, u, v) ELSE 0
<1>1. \A u, v \in Users : NetIn(txt, u, v) \in Int
  <2>1. CASE Users = {}
    BY <2>1
  <2>2. ASSUME NEW x \in Users PROVE \A u, v \in Users : NetIn(txt, u, v) \in Int
    <3>1. Line("newuser", x, x) \in Lines
      BY LineTypes
    <3>. QED  BY <3>1, NetMoves
  <2>. QED  BY <2>1, <2>2
<1>2. \A u \in Users : [v \in Users |-> IF NetIn(txt, u, v) > 0 THEN NetIn(txt, u, v) ELSE 0]
                           \in [Users -> Nat]
  BY <1>1
<1>. QED  BY <1>2 DEF RecordedIn

\* A line of a client moves one edge by one, or none: a follow after too many
\* unfollows, or an unfollow too many, changes nothing.
LEMMA GraphLine ==
    ASSUME Strong, NEW c \in Clients, FollowWrite(c) \/ UnFollowWrite(c)
    PROVE  Graph!Next \/ UNCHANGED <<Recorded, shown>>
<1>p. PICK u \in Users : u = OwnerOf[c]
  BY LineTypes
<1>q. PICK v \in Users : v = arg[c]
  BY DEF Strong, TypeOK
<1>t. users_txt \in Seq(Lines) /\ users_txt' \in Seq(Lines)
  <2>1. users_txt \in Seq(Lines) /\ OwnerOf[c] \in Users /\ arg[c] \in Users
    BY LineTypes DEF Strong, TypeOK
  <2>2. \E l \in Lines : users_txt' = Append(users_txt, l)
    BY <2>1, LineTypes DEF FollowWrite, AfterFollow, UnFollowWrite
  <2>. QED  BY <2>1, <2>2, AppendFacts
<1>r. /\ Recorded \in [Users -> [Users -> Nat]] /\ Recorded' \in [Users -> [Users -> Nat]]
      /\ \A x, y \in Users :
             /\ NetIn(users_txt, x, y) \in Int
             /\ Recorded[x][y] =
                    IF NetIn(users_txt, x, y) > 0 THEN NetIn(users_txt, x, y) ELSE 0
             /\ Recorded'[x][y] =
                    IF NetIn(users_txt', x, y) > 0 THEN NetIn(users_txt', x, y) ELSE 0
  <2>1. \A x, y \in Users : NetIn(users_txt, x, y) \in Int
    BY <1>t, NetMoves, LineTypes
  <2>2. /\ RecordedIn(users_txt) \in [Users -> [Users -> Nat]]
        /\ \A x, y \in Users : RecordedIn(users_txt)[x][y] =
               IF NetIn(users_txt, x, y) > 0 THEN NetIn(users_txt, x, y) ELSE 0
    BY <1>t, RecordedTypes
  <2>3. /\ RecordedIn(users_txt') \in [Users -> [Users -> Nat]]
        /\ \A x, y \in Users : RecordedIn(users_txt')[x][y] =
               IF NetIn(users_txt', x, y) > 0 THEN NetIn(users_txt', x, y) ELSE 0
    BY <1>t, RecordedTypes
  <2>. QED  BY <2>1, <2>2, <2>3, RecordedForm
<1>s. shown' = shown
  BY DEF FollowWrite, UnFollowWrite
<1>1. CASE FollowWrite(c)
  <2>1. users_txt' = With(users_txt, Line("follow", u, v)) /\ u # v
    BY <1>1, <1>p, <1>q
       DEF FollowWrite, AfterFollow, With, Strong, HandlersBusy, FollowSteps, At
  <2>2. NetIn(users_txt', u, v) = NetIn(users_txt, u, v) + 1
    <3>1. NetIn(With(users_txt, Line("follow", u, v)), u, v) = NetIn(users_txt, u, v) + 1
      BY <1>t, LineElsewhere
    <3>. QED  BY <2>1, <3>1
  <2>3. ASSUME NEW x \in Users, NEW y \in Users, x # u \/ y # v
        PROVE  Recorded'[x][y] = Recorded[x][y]
    <3>1. users_txt \in Seq(Lines)
      BY <1>t
    <3>2. NetIn(With(users_txt, Line("follow", u, v)), x, y) = NetIn(users_txt, x, y)
      BY <2>3, <3>1, LineElsewhere
    <3>. QED  BY <1>r, <2>1, <3>2
  <2>4. Recorded' = [Recorded EXCEPT ![u][v] = Recorded'[u][v]]
    BY <1>r, <2>3, TwoLevels
  <2>5. Recorded'[u][v] = Recorded[u][v] + 1 \/ Recorded'[u][v] = Recorded[u][v]
    BY <1>r, <2>2
  <2>6. CASE Recorded'[u][v] = Recorded[u][v] + 1
    <3>1. Graph!Follow(u, v)
      BY <1>s, <2>1, <2>4, <2>6 DEF Graph!Follow
    <3>. QED  BY <3>1 DEF Graph!Next
  <2>7. CASE Recorded'[u][v] = Recorded[u][v]
    BY <1>r, <1>s, <2>4, <2>7
  <2>. QED  BY <2>5, <2>6, <2>7
<1>2. CASE UnFollowWrite(c)
  <2>1. users_txt' = With(users_txt, Line("unfollow", u, v))
    BY <1>2, <1>p, <1>q DEF UnFollowWrite, With
  <2>2. NetIn(users_txt', u, v) = NetIn(users_txt, u, v) - 1
    <3>1. NetIn(With(users_txt, Line("unfollow", u, v)), u, v) = NetIn(users_txt, u, v) - 1
      BY <1>t, LineElsewhere
    <3>. QED  BY <2>1, <3>1
  <2>3. ASSUME NEW x \in Users, NEW y \in Users, x # u \/ y # v
        PROVE  Recorded'[x][y] = Recorded[x][y]
    <3>1. users_txt \in Seq(Lines)
      BY <1>t
    <3>2. NetIn(With(users_txt, Line("unfollow", u, v)), x, y) = NetIn(users_txt, x, y)
      BY <2>3, <3>1, LineElsewhere
    <3>. QED  BY <1>r, <2>1, <3>2
  <2>4. Recorded' = [Recorded EXCEPT ![u][v] = Recorded'[u][v]]
    BY <1>r, <2>3, TwoLevels
  <2>5. \/ Recorded[u][v] > 0 /\ Recorded'[u][v] = Recorded[u][v] - 1
        \/ Recorded'[u][v] = Recorded[u][v]
    BY <1>r, <2>2
  <2>6. CASE Recorded[u][v] > 0 /\ Recorded'[u][v] = Recorded[u][v] - 1
    <3>1. Graph!Unfollow(u, v)
      BY <1>s, <2>4, <2>6 DEF Graph!Unfollow
    <3>. QED  BY <3>1 DEF Graph!Next
  <2>7. CASE Recorded'[u][v] = Recorded[u][v]
    BY <1>r, <1>s, <2>4, <2>7
  <2>. QED  BY <2>5, <2>6, <2>7
<1>. QED  BY <1>1, <1>2

\* LIST shows the graph as it stands: the client that asks has no call under way.
LEMMA GraphList ==
    ASSUME OneClientEach, Strong, Balance, NEW c \in Clients, List(c)
    PROVE  Graph!List(c)
<1>1. /\ shown' = [shown EXCEPT ![c] = Followed(OwnerOf[c])] /\ users_txt' = users_txt
      /\ server = "up" /\ task[c] = "idle" /\ OwnerOf[c] \in Users
  BY LineTypes DEF List
<1>2. Recorded' = Recorded
  BY <1>1, RecordedForm
<1>3. ASSUME NEW v \in Users PROVE following[OwnerOf[c]][v] = Recorded[OwnerOf[c]][v]
  <2>1. "idle" \notin UpdateSteps
    BY DEF UpdateSteps
  <2>2. ~ \E d \in Clients : OwnerOf[d] = OwnerOf[c] /\ arg[d] = v /\ task[d] \in UpdateSteps
    BY <1>1, <2>1 DEF OneClientEach
  <2>. QED  BY <1>1, <2>2, ReplayMeans
<1>4. Followed(OwnerOf[c]) = Graph!Followed(OwnerOf[c])
  BY <1>3 DEF Followed, Graph!Followed
<1>. QED  BY <1>1, <1>2, <1>4 DEF Graph!List

LEMMA ShownSteps ==
    ASSUME [Next]_vars
    PROVE  shown' = shown \/ \E c \in Clients : List(c)
  BY DEF Next, Distribute, vars, connectTo, Command, EnterTimeline, Poll, Quit, LoginCheck,
     LoginEnter, LoginRecord, LoginActivate, FollowCheck, FollowWrite, FollowAddFollowing,
     FollowAddFollower, UnFollowCheck, UnFollowWrite, UnFollowDropFollowing,
     UnFollowDropFollower, ReadPost, WriteOwn, WriteFollower, NextRead, Kill, RunServer

LEMMA GraphStep ==
    ASSUME OneClientEach, Strong, Balance, [Next]_vars
    PROVE  Graph!Next \/ UNCHANGED <<Recorded, shown>>
<1>1. CASE \E c \in Clients : List(c)
  BY <1>1, GraphList DEF Graph!Next
<1>2. CASE \E c \in Clients : FollowWrite(c) \/ UnFollowWrite(c)
  BY <1>2, GraphLine
<1>3. CASE shown' = shown /\ users_txt' = users_txt
  BY <1>3, RecordedForm
<1>4. ASSUME NEW c \in Clients, LoginRecord(c), shown' = shown PROVE UNCHANGED <<Recorded, shown>>
  <2>1. users_txt' = Append(users_txt, Line("newuser", OwnerOf[c], OwnerOf[c])) /\ OwnerOf[c] \in Users
    BY <1>4, LineTypes DEF LoginRecord
  <2>2. \A u, v \in Users : NetIn(users_txt', u, v) = NetIn(users_txt, u, v)
    BY <2>1, LineMoves DEF Strong, TypeOK
  <2>. QED  BY <1>4, <2>2, RecordedSame
<1>. QED  BY <1>1, <1>2, <1>3, <1>4, ShownSteps, FileSteps

\* What clients see in LIST is explained by follows and unfollows that take
\* effect one at a time, and that no kill takes back.
THEOREM ImplementsGraph ==
    ASSUME OneClientEach
    PROVE  Spec => GraphSpec
<1>1. (Strong /\ NonNegative /\ Balance) /\ [Next]_vars => [Graph!Next]_(Graph!graphVars)
  BY GraphStep DEF Graph!graphVars
<1>. QED  BY <1>1, GraphInit, BalanceAlways, PTL DEF Spec, GraphSpec, Graph!Spec
=============================================================================

-------------------------- MODULE ZivpnApplyProofs --------------------------
(***************************************************************************)
(* For any number of accounts and of overlapping calls: the server runs    *)
(* with the config.json on disk, or a call that will restart or start it   *)
(* is under way, unless a call was killed or overwrote a file it had not   *)
(* seen.                                                                   *)
(***************************************************************************)
EXTENDS ZivpnApply, TLAPS

-----------------------------------------------------------------------------
\* Types.  A renewal needs to know that the account it rewrites is one.

Renewing == \A p \in Procs : frame[p].at \in {"renew", "rewrite"} => frame[p].user \in Users

ApplyType == TypeOK /\ Renewing

LEMMA IdleType == Idle \in Frames /\ NoConf \in Confs /\ Down \in [up : BOOLEAN, conf : Confs, mem : SUBSET Users]
BY DEF Idle, Frames, Labels, Jobs, NoConf, Confs, Down

LEMMA ApplyInit == Init => ApplyType
<1> SUFFICES ASSUME Init PROVE ApplyType
  OBVIOUS
<1>1. [auth |-> Users, quota |-> Limited] \in Confs
  BY LimitedAssumption DEF Confs, Names
<1>2. frame \in [Procs -> Frames] /\ Renewing
  <2>1. \A p \in Procs : frame[p].at = "idle"
    BY DEF Init, Idle
  <2> QED
    BY <2>1, IdleType DEF Init, Renewing
<1>3. srv \in [up : BOOLEAN, conf : Confs, mem : SUBSET Users] /\ conf \in Confs
  BY <1>1 DEF Init
<1>4. state \in [ok : BOOLEAN, keys : SUBSET Users, writer : Procs \cup {Nobody}]
  BY DEF Init
<1>5. events \in 0..MaxEvents
  BY BoundsAssumption DEF Init
<1> QED
  BY <1>2, <1>3, <1>4, <1>5 DEF Init, ApplyType, TypeOK

\* Fields of a frame are replaced.
LEMMA FrameFields ==
  ASSUME NEW f \in Frames, NEW x \in Labels
  PROVE  /\ [f EXCEPT !.at = x] \in Frames
         /\ \A b \in BOOLEAN : [f EXCEPT !.keep = b, !.at = x] \in Frames
         /\ \A b \in BOOLEAN : [f EXCEPT !.bounce = b, !.at = x] \in Frames
         /\ \A k \in SUBSET Users : [f EXCEPT !.keys = k, !.at = x] \in Frames
         /\ \A k \in SUBSET Users : [f EXCEPT !.auth = k, !.at = x] \in Frames
         /\ \A k \in SUBSET Users : [f EXCEPT !.want = k, !.at = x] \in Frames
         /\ [f EXCEPT !.auth = {}, !.want = {}, !.at = x] \in Frames
         /\ \A c \in Confs : [f EXCEPT !.before = c, !.at = x] \in Frames
         /\ \A c \in Confs : [f EXCEPT !.before = c] \in Frames
BY DEF Frames

\* One frame is replaced.
LEMMA FrameReplaced ==
  ASSUME ApplyType, NEW p \in Procs, NEW f \in Frames,
         f.at \notin {"renew", "rewrite"} \/ f.user \in Users,
         frame' = [frame EXCEPT ![p] = f]
  PROVE  frame' \in [Procs -> Frames] /\ Renewing'
BY DEF ApplyType, TypeOK, Renewing

LEMMA GotoType ==
  ASSUME ApplyType, NEW p \in Procs, NEW x \in Labels \ {"renew", "rewrite"}, Goto(p, x)
  PROVE  frame' \in [Procs -> Frames] /\ Renewing'
<1>1. frame[p] \in Frames /\ frame' = [frame EXCEPT ![p] = [frame[p] EXCEPT !.at = x]]
  BY DEF ApplyType, TypeOK, Goto
<1>2. [frame[p] EXCEPT !.at = x] \in Frames /\ [frame[p] EXCEPT !.at = x].at = x
  BY <1>1, FrameFields DEF Frames
<1> QED
  BY <1>1, <1>2, FrameReplaced

LEMMA EndType ==
  ASSUME ApplyType, NEW p \in Procs, End(p) \/ Apply(p)
  PROVE  frame' \in [Procs -> Frames] /\ Renewing'
<1>1. [Idle EXCEPT !.at = "auth"] \in Frames /\ "auth" \in Labels
  BY IdleType, FrameFields DEF Labels
<1> QED
  BY <1>1, IdleType, FrameReplaced DEF End, Apply, Idle

LEMMA StartedType ==
  ASSUME ApplyType, NEW c \in Confs
  PROVE  Started(c) \in [up : BOOLEAN, conf : Confs, mem : SUBSET Users]
BY IdleType DEF ApplyType, TypeOK, Started

LEMMA StartCallType ==
  ASSUME ApplyType, NEW p \in Procs, StartCall(p)
  PROVE  ApplyType'
<1>1. PICK u \in live, job \in {"lock", "unlock", "renew", "delete"} :
        frame' = [frame EXCEPT ![p] = [Idle EXCEPT !.job = job, !.at = job, !.user = u]]
  BY DEF StartCall
<1>2. u \in Users
  BY DEF ApplyType, TypeOK
<1>3. [Idle EXCEPT !.job = job, !.at = job, !.user = u] \in Frames
  BY <1>2, IdleType DEF Idle, Frames, Labels, Jobs
<1>4. [Idle EXCEPT !.job = job, !.at = job, !.user = u].user = u
  BY DEF Idle
<1>5. frame' \in [Procs -> Frames] /\ Renewing'
  BY <1>1, <1>2, <1>3, <1>4, FrameReplaced
<1>6. events' \in 0..MaxEvents
  BY BoundsAssumption DEF StartCall, ApplyType, TypeOK
<1> QED
  BY <1>5, <1>6 DEF StartCall, ApplyType, TypeOK, meta, files

LEMMA CallStepType ==
  ASSUME ApplyType, NEW p \in Procs, CallStep(p)
  PROVE  ApplyType'
<1> DEFINE f == frame[p]
<1>0. f \in Frames
  BY DEF ApplyType, TypeOK
<1>1. CASE SetLocked(p)
  BY <1>1, EndType DEF SetLocked, ApplyType, TypeOK, files, rest
<1>2. CASE Keep(p)
  <2>1. [f EXCEPT !.keep = (f.user \in locked), !.at = "rewrite"] \in Frames
    <3>1. (f.user \in locked) \in BOOLEAN /\ "rewrite" \in Labels
      BY DEF Labels
    <3> QED
      BY <1>0, <3>1, FrameFields
  <2>2. f.user \in Users
    BY <1>2 DEF Keep, At, ApplyType, Renewing
  <2>3. [f EXCEPT !.keep = (f.user \in locked), !.at = "rewrite"].user = f.user
    BY <1>0 DEF Frames
  <2>4. frame' = [frame EXCEPT ![p] = [f EXCEPT !.keep = (f.user \in locked), !.at = "rewrite"]]
    BY <1>2 DEF Keep, User, ApplyType, TypeOK
  <2>5. frame' \in [Procs -> Frames] /\ Renewing'
    BY <2>1, <2>2, <2>3, <2>4, FrameReplaced
  <2> QED
    BY <1>2, <2>5 DEF Keep, ApplyType, TypeOK, meta, files, rest
<1>3. CASE Rewrite(p)
  <2>1. f.user \in Users
    BY <1>3 DEF Rewrite, At, ApplyType, Renewing
  <2>2. frame' \in [Procs -> Frames] /\ Renewing'
    BY <1>3, GotoType DEF Rewrite, Labels
  <2> QED
    BY <1>3, <2>1, <2>2 DEF Rewrite, User, ApplyType, TypeOK, files, rest
<1>4. CASE PutBack(p)
  BY <1>4, EndType DEF PutBack, ApplyType, TypeOK, files, rest
<1>5. CASE Unlink(p)
  <2>1. frame' \in [Procs -> Frames] /\ Renewing'
    BY <1>5, GotoType DEF Unlink, Labels
  <2> QED
    BY <1>5, <2>1 DEF Unlink, ApplyType, TypeOK, files, rest
<1>6. CASE Stop(p)
  <2>1. [f EXCEPT !.bounce = srv.up, !.at = "purge"] \in Frames
    <3>1. srv.up \in BOOLEAN /\ "purge" \in Labels
      BY DEF ApplyType, TypeOK, Labels
    <3> QED
      BY <1>0, <3>1, FrameFields
  <2>2. [f EXCEPT !.bounce = srv.up, !.at = "purge"].at = "purge"
    BY <1>0 DEF Frames
  <2>3. frame' = [frame EXCEPT ![p] = [f EXCEPT !.bounce = srv.up, !.at = "purge"]]
    BY <1>6 DEF Stop, ApplyType, TypeOK
  <2>4. frame' \in [Procs -> Frames] /\ Renewing'
    BY <2>1, <2>2, <2>3, FrameReplaced
  <2> QED
    BY <1>6, <2>4, IdleType DEF Stop, ApplyType, TypeOK, meta, files, rest
<1>7. CASE Purge(p)
  <2>1. CASE state.ok /\ User(p) \in state.keys
    <3> DEFINE k == state.keys \ {User(p)}
               g == [f EXCEPT !.keys = k, !.at = "purged"]
    <3>1. k \in SUBSET Users /\ "purged" \in Labels
      BY DEF ApplyType, TypeOK, Labels
    <3>2. g \in Frames
      BY <1>0, <3>1, FrameFields
    <3>3. g.at = "purged"
      BY <1>0 DEF Frames
    <3>4. frame' = [frame EXCEPT ![p] = g]
      BY <1>7, <2>1 DEF Purge, ApplyType, TypeOK
    <3> HIDE DEF g
    <3>5. frame' \in [Procs -> Frames] /\ Renewing'
      BY <3>2, <3>3, <3>4, FrameReplaced
    <3> QED
      BY <1>7, <2>1, <3>5 DEF Purge, ApplyType, TypeOK, meta, rest
  <2>2. CASE ~(state.ok /\ User(p) \in state.keys)
    <3>1. frame' \in [Procs -> Frames] /\ Renewing'
      BY <1>7, <2>2, GotoType DEF Purge, Labels
    <3> QED
      BY <1>7, <2>2, <3>1 DEF Purge, ApplyType, TypeOK, meta, rest
  <2> QED
    BY <2>1, <2>2
<1>8. CASE Purged(p)
  <2>1. frame' \in [Procs -> Frames] /\ Renewing'
    BY <1>8, GotoType DEF Purged, Labels
  <2>2. f.keys \subseteq Users
    BY <1>0 DEF Frames
  <2> QED
    BY <1>8, <2>1, <2>2 DEF Purged, ApplyType, TypeOK, meta, rest
<1>9. CASE Mirror(p)
  <2> DEFINE g == [f EXCEPT !.keys = {}, !.at = "auth"]
  <2>1. g \in Frames
    BY <1>0, FrameFields DEF Labels
  <2>2. g.at = "auth" /\ f.keys \subseteq Users
    BY <1>0 DEF Frames
  <2>3. frame' = [frame EXCEPT ![p] = g]
    BY <1>9 DEF Mirror, ApplyType, TypeOK
  <2> HIDE DEF g
  <2>4. frame' \in [Procs -> Frames] /\ Renewing'
    BY <2>1, <2>2, <2>3, FrameReplaced
  <2> QED
    BY <1>9, <2>2, <2>4 DEF Mirror, ApplyType, TypeOK, meta, rest
<1>10. CASE Start(p)
  <2> DEFINE g == [f EXCEPT !.bounce = FALSE, !.at = "free"]
  <2>1. g \in Frames
    BY <1>0, FrameFields DEF Labels
  <2>2. g.at = "free"
    BY <1>0 DEF Frames
  <2>3. frame' = [frame EXCEPT ![p] = g]
    BY <1>10 DEF Start, ApplyType, TypeOK
  <2> HIDE DEF g
  <2>4. frame' \in [Procs -> Frames] /\ Renewing'
    BY <2>1, <2>2, <2>3, FrameReplaced
  <2>5. Started(conf) \in [up : BOOLEAN, conf : Confs, mem : SUBSET Users]
    BY StartedType DEF ApplyType, TypeOK
  <2> QED
    BY <1>10, <2>4, <2>5 DEF Start, ApplyType, TypeOK, meta, files, rest
<1>11. CASE Free(p)
  BY <1>11, EndType DEF Free, ApplyType, TypeOK, meta, rest
<1> QED
  BY <1>1, <1>2, <1>3, <1>4, <1>5, <1>6, <1>7, <1>8, <1>9, <1>10, <1>11 DEF CallStep

LEMMA AfterApplyType ==
  ASSUME NEW f \in Frames, f.at \notin {"renew", "rewrite"}
  PROVE  AfterApply(f) \in Frames /\ AfterApply(f).at \notin {"renew", "rewrite"}
<1>1. CASE f.job = "guard"
  <2>1. [Idle EXCEPT !.job = "guard", !.at = "cool"] \in Frames
    BY IdleType DEF Idle, Frames, Labels, Jobs
  <2> QED
    BY <1>1, <2>1 DEF AfterApply, Idle
<1>2. CASE f.job = "delete"
  <2>1. [f EXCEPT !.at = "start"] \in Frames /\ [f EXCEPT !.at = "start"].at = "start"
    BY DEF Frames, Labels
  <2> QED
    BY <1>2, <2>1 DEF AfterApply
<1>3. CASE f.job \notin {"guard", "delete"}
  BY <1>3, IdleType DEF AfterApply, Idle
<1> QED
  BY <1>1, <1>2, <1>3

LEMMA ApplyStepType ==
  ASSUME ApplyType, NEW p \in Procs, ApplyStep(p)
  PROVE  ApplyType'
<1> DEFINE f == frame[p]
<1>0. f \in Frames
  BY DEF ApplyType, TypeOK
<1>a. Active \in SUBSET Users /\ conf \in Confs
  BY DEF ApplyType, TypeOK, Active
<1>1. CASE ReadAuth(p)
  <2> DEFINE g == [f EXCEPT !.auth = Active, !.at = "quota"]
  <2>1. g \in Frames
    BY <1>0, <1>a, FrameFields DEF Labels
  <2>2. g.at = "quota"
    BY <1>0 DEF Frames
  <2>3. frame' = [frame EXCEPT ![p] = g]
    BY <1>1 DEF ReadAuth, ApplyType, TypeOK
  <2> HIDE DEF g
  <2>4. frame' \in [Procs -> Frames] /\ Renewing'
    BY <2>1, <2>2, <2>3, FrameReplaced
  <2> QED
    BY <1>1, <2>4 DEF ReadAuth, ApplyType, TypeOK, meta, files, rest
<1>2. CASE ReadQuota(p)
  <2> DEFINE g == [f EXCEPT !.want = Active \cap Limited, !.at = "look"]
  <2>1. g \in Frames
    <3>1. Active \cap Limited \in SUBSET Users /\ "look" \in Labels
      BY <1>a DEF Labels
    <3> QED
      BY <1>0, <3>1, FrameFields
  <2>2. g.at = "look"
    BY <1>0 DEF Frames
  <2>3. frame' = [frame EXCEPT ![p] = g]
    BY <1>2 DEF ReadQuota, ApplyType, TypeOK
  <2> HIDE DEF g
  <2>4. frame' \in [Procs -> Frames] /\ Renewing'
    BY <2>1, <2>2, <2>3, FrameReplaced
  <2> QED
    BY <1>2, <2>4 DEF ReadQuota, ApplyType, TypeOK, meta, files, rest
<1>3. CASE Look(p)
  <2> DEFINE g == [f EXCEPT !.before = conf, !.at = "replace"]
  <2>1. g \in Frames
    BY <1>0, <1>a, FrameFields DEF Labels
  <2>2. g.at = "replace"
    BY <1>0 DEF Frames
  <2>3. frame' = [frame EXCEPT ![p] = g]
    BY <1>3 DEF Look, ApplyType, TypeOK
  <2> HIDE DEF g
  <2>4. frame' \in [Procs -> Frames] /\ Renewing'
    BY <2>1, <2>2, <2>3, FrameReplaced
  <2> QED
    BY <1>3, <2>4 DEF Look, ApplyType, TypeOK, meta, files, rest
<1>4. CASE Replace(p)
  <2> DEFINE g == [f EXCEPT !.auth = {}, !.want = {}, !.at = "check"]
  <2>1. g \in Frames
    BY <1>0, FrameFields DEF Labels
  <2>2. g.at = "check"
    BY <1>0 DEF Frames
  <2>3. frame' = [frame EXCEPT ![p] = g]
    BY <1>4 DEF Replace, ApplyType, TypeOK
  <2> HIDE DEF g
  <2>4. frame' \in [Procs -> Frames] /\ Renewing'
    BY <2>1, <2>2, <2>3, FrameReplaced
  <2>5. [auth |-> f.auth, quota |-> f.want] \in Confs
    BY <1>0 DEF Frames, Confs, Names
  <2>6. raced' \in BOOLEAN
    BY <1>4 DEF Replace
  <2> QED
    BY <1>4, <2>4, <2>5, <2>6 DEF Replace, ApplyType, TypeOK, meta
<1>5. CASE Check(p)
  <2> DEFINE g == [f EXCEPT !.before = NoConf]
             h == IF Changed(p) THEN [g EXCEPT !.at = "restart"] ELSE AfterApply(g)
  <2>1. g \in Frames
    BY <1>0, IdleType, FrameFields DEF Labels
  <2>2. g.at = "check"
    BY <1>0, <1>5 DEF Check, At, Frames
  <2>3. frame' = [frame EXCEPT ![p] = h]
    BY <1>5 DEF Check, ApplyType, TypeOK
  <2>4. [g EXCEPT !.at = "restart"] \in Frames /\ [g EXCEPT !.at = "restart"].at = "restart"
    <3> HIDE DEF g
    <3>1. "restart" \in Labels
      BY DEF Labels
    <3> QED
      BY <2>1, <3>1, FrameFields DEF Frames
  <2>5. AfterApply(g) \in Frames /\ AfterApply(g).at \notin {"renew", "rewrite"}
    <3> HIDE DEF g
    <3> QED
      BY <2>1, <2>2, AfterApplyType
  <2> HIDE DEF g
  <2>6. h \in Frames /\ h.at \notin {"renew", "rewrite"}
    BY <2>4, <2>5
  <2> HIDE DEF h
  <2>7. frame' \in [Procs -> Frames] /\ Renewing'
    BY <2>3, <2>6, FrameReplaced
  <2> QED
    BY <1>5, <2>7 DEF Check, ApplyType, TypeOK, meta, files, rest
<1>6. CASE Restart(p)
  <2> DEFINE h == AfterApply(f)
  <2>1. f.at = "restart"
    BY <1>6 DEF Restart, At
  <2>2. h \in Frames /\ h.at \notin {"renew", "rewrite"}
    BY <1>0, <2>1, AfterApplyType
  <2>3. frame' = [frame EXCEPT ![p] = h]
    BY <1>6 DEF Restart, ApplyType, TypeOK
  <2> HIDE DEF h
  <2>4. frame' \in [Procs -> Frames] /\ Renewing'
    BY <2>2, <2>3, FrameReplaced
  <2>5. Started(conf) \in [up : BOOLEAN, conf : Confs, mem : SUBSET Users]
    BY <1>a, StartedType
  <2> QED
    BY <1>6, <2>4, <2>5 DEF Restart, ApplyType, TypeOK, meta, files, rest
<1> QED
  BY <1>1, <1>2, <1>3, <1>4, <1>5, <1>6 DEF ApplyStep

LEMMA GuardStepType ==
  ASSUME ApplyType, NEW p \in Procs, GuardStep(p)
  PROVE  ApplyType'
<1> DEFINE f == frame[p]
<1>0. f \in Frames
  BY DEF ApplyType, TypeOK
<1>a. Active \in SUBSET Users /\ conf \in Confs
  BY DEF ApplyType, TypeOK, Active
<1>1. CASE StartGuard(p)
  <2> DEFINE g == [Idle EXCEPT !.job = "guard", !.at = "expect"]
  <2>1. g \in Frames /\ g.at = "expect"
    BY IdleType DEF Idle, Frames, Labels, Jobs
  <2>2. frame' = [frame EXCEPT ![p] = g] \/ frame' = frame
    BY <1>1 DEF StartGuard
  <2> HIDE DEF g
  <2>3. frame' \in [Procs -> Frames] /\ Renewing'
    BY <2>1, <2>2, FrameReplaced DEF ApplyType, TypeOK, Renewing
  <2>4. Started(conf) \in [up : BOOLEAN, conf : Confs, mem : SUBSET Users]
    BY <1>a, StartedType
  <2> QED
    BY <1>1, <2>3, <2>4 DEF StartGuard, ApplyType, TypeOK, meta, files, rest
<1>2. CASE Expect(p)
  <2> DEFINE g == [f EXCEPT !.want = Active \cap Limited, !.at = "seed"]
  <2>1. g \in Frames
    <3>1. Active \cap Limited \in SUBSET Users /\ "seed" \in Labels
      BY <1>a DEF Labels
    <3> QED
      BY <1>0, <3>1, FrameFields
  <2>2. g.at = "seed"
    BY <1>0 DEF Frames
  <2>3. frame' = [frame EXCEPT ![p] = g]
    BY <1>2 DEF Expect, ApplyType, TypeOK
  <2> HIDE DEF g
  <2>4. frame' \in [Procs -> Frames] /\ Renewing'
    BY <2>1, <2>2, <2>3, FrameReplaced
  <2> QED
    BY <1>2, <2>4 DEF Expect, ApplyType, TypeOK, meta, files, rest
<1>3. CASE SeedRegistry(p)
  <2>1. frame' \in [Procs -> Frames] /\ Renewing'
    BY <1>3, GotoType DEF SeedRegistry, Labels
  <2> QED
    BY <1>3, <2>1 DEF SeedRegistry, ApplyType, TypeOK, meta, rest
<1>4. CASE Repair(p)
  <2>1. frame' \in [Procs -> Frames] /\ Renewing'
    BY <1>4, GotoType DEF Repair, Labels
  <2>2. state' \in [ok : BOOLEAN, keys : SUBSET Users, writer : Procs \cup {Nobody}]
    BY <1>4 DEF Repair, ApplyType, TypeOK
  <2> QED
    BY <1>4, <2>1, <2>2 DEF Repair, ApplyType, TypeOK, meta, rest
<1>5. CASE Fill(p)
  <2> DEFINE g == [Idle EXCEPT !.before = conf, !.at = "place"]
  <2>1. g \in Frames
    BY <1>a, IdleType, FrameFields DEF Labels
  <2>2. g.at = "place"
    BY DEF Idle
  <2>3. frame' = [frame EXCEPT ![p] = g] \/ End(p)
    BY <1>5 DEF Fill
  <2> HIDE DEF g
  <2>4. frame' \in [Procs -> Frames] /\ Renewing'
    BY <2>1, <2>2, <2>3, FrameReplaced, EndType
  <2> QED
    BY <1>5, <2>4 DEF Fill, ApplyType, TypeOK, meta, files, rest
<1>6. CASE Place(p)
  <2> DEFINE g == [Idle EXCEPT !.at = "restart"]
  <2>1. g \in Frames
    BY IdleType, FrameFields DEF Labels
  <2>2. g.at = "restart"
    BY DEF Idle
  <2>3. frame' = [frame EXCEPT ![p] = g]
    BY <1>6 DEF Place
  <2> HIDE DEF g
  <2>4. frame' \in [Procs -> Frames] /\ Renewing'
    BY <2>1, <2>2, <2>3, FrameReplaced
  <2>5. [f.before EXCEPT !.auth = {Placeholder}] \in Confs
    BY <1>0 DEF Frames, Confs, Names
  <2> QED
    BY <1>6, <2>4, <2>5 DEF Place, ApplyType, TypeOK, meta, rest
<1>7. CASE Compare(p)
  <2> DEFINE g == [f EXCEPT !.want = {}, !.at = "auth"]
  <2>1. g \in Frames
    BY <1>0, FrameFields DEF Labels
  <2>2. g.at = "auth"
    BY <1>0 DEF Frames
  <2>3. frame' = [frame EXCEPT ![p] = g] \/ End(p)
    BY <1>7 DEF Compare, ApplyType, TypeOK
  <2> HIDE DEF g
  <2>4. frame' \in [Procs -> Frames] /\ Renewing'
    BY <2>1, <2>2, <2>3, FrameReplaced, EndType
  <2> QED
    BY <1>7, <2>4 DEF Compare, ApplyType, TypeOK, meta, files, rest
<1>8. CASE Cool(p)
  <2>1. cooling' \in BOOLEAN
    BY <1>8 DEF Cool
  <2> QED
    BY <1>8, <2>1, EndType DEF Cool, ApplyType, TypeOK, meta, files
<1> QED
  BY <1>1, <1>2, <1>3, <1>4, <1>5, <1>6, <1>7, <1>8 DEF GuardStep

LEMMA StepType == ApplyType /\ [Next]_vars => ApplyType'
<1> SUFFICES ASSUME ApplyType, [Next]_vars PROVE ApplyType'
  OBVIOUS
<1>1. CASE \E p \in Procs : Step(p) \/ StartCall(p)
  BY <1>1, StartCallType, CallStepType, ApplyStepType, GuardStepType DEF Step
<1>2. CASE \E p \in Procs : Kill(p)
  <2> PICK p \in Procs : Kill(p)
    BY <1>2
  <2>1. events' \in 0..MaxEvents
    BY BoundsAssumption DEF Kill, ApplyType, TypeOK
  <2>2. frame' \in [Procs -> Frames] /\ Renewing'
    BY EndType DEF Kill
  <2> QED
    BY <2>1, <2>2 DEF Kill, ApplyType, TypeOK, meta, files
<1>3. CASE \E u \in Users : Use(u)
  BY <1>3 DEF Use, ApplyType, TypeOK, Renewing, meta, files, rest
<1>4. CASE Flush
  BY <1>4 DEF Flush, ApplyType, TypeOK, Renewing, meta, rest
<1>5. CASE CooldownEnds
  BY <1>5 DEF CooldownEnds, ApplyType, TypeOK, Renewing, meta, files
<1>6. CASE UNCHANGED vars
  BY <1>6 DEF vars, ApplyType, TypeOK, Renewing, meta, files
<1> QED
  BY <1>1, <1>2, <1>3, <1>4, <1>5, <1>6 DEF Next

\* Whatever the calls and wherever they are killed, every shared file and every
\* frame keeps its type, and only accounts that exist are locked: no write of
\* a meta file that is gone leaves a lock behind.
THEOREM TypeCorrect == Spec => []TypeOK
<1>1. Spec => []ApplyType
  BY ApplyInit, StepType, PTL DEF Spec
<1>2. ApplyType => TypeOK
  BY DEF ApplyType
<1> QED
  BY <1>1, <1>2, PTL

-----------------------------------------------------------------------------
\* A call that has stopped the server is a deletion, and remembers it up to its
\* own start of the server.

DeleteLabels == {"purge", "purged", "mirror", "auth", "quota", "look", "replace", "check", "restart", "start"}

Deletes(f) ==
  /\ f.at \in {"delete", "stop"} => f.job = "delete"
  /\ f.bounce => f.job = "delete" /\ f.at \in DeleteLabels

Remembering == \A p \in Procs : Deletes(frame[p])

\* What a step of p does to the frames.
Remembers(p) ==
  /\ \A q \in Procs \ {p} : frame'[q] = frame[q]
  /\ Deletes(frame'[p])
  /\ frame[p].bounce /\ frame[p].at # "start" => frame'[p].bounce

\* A frame that is fresh, or that only moved on.
LEMMA Fresh ==
  ASSUME ApplyType, Remembering, NEW p \in Procs, NEW g,
         frame' = [frame EXCEPT ![p] = g], frame[p].at \notin DeleteLabels,
         ~g.bounce, g.at \notin {"delete", "stop"} \/ g.job = "delete"
  PROVE  Remembers(p)
BY DEF ApplyType, TypeOK, Remembering, Remembers, Deletes

LEMMA MovedOn ==
  ASSUME ApplyType, Remembering, NEW p \in Procs, NEW g,
         frame' = [frame EXCEPT ![p] = g],
         g.bounce = frame[p].bounce, g.job = frame[p].job, g.at # "delete",
         \/ g.at \in DeleteLabels
         \/ frame[p].at \notin DeleteLabels /\ (g.at = "stop" => frame[p].at = "delete")
  PROVE  Remembers(p)
BY DEF ApplyType, TypeOK, Remembering, Remembers, Deletes, DeleteLabels

LEMMA CallStepRemembers ==
  ASSUME ApplyType, Remembering, NEW p \in Procs, CallStep(p) \/ StartCall(p)
  PROVE  Remembers(p)
<1> DEFINE f == frame[p]
<1>0. f \in Frames /\ frame \in [Procs -> Frames] /\ srv.up \in BOOLEAN
  BY DEF ApplyType, TypeOK
<1>1. CASE SetLocked(p) \/ PutBack(p)
  <2> DEFINE g == [Idle EXCEPT !.at = "auth"]
  <2>1. f.at \notin DeleteLabels /\ frame' = [frame EXCEPT ![p] = g]
    BY <1>1 DEF SetLocked, PutBack, At, Apply, DeleteLabels
  <2>2. ~g.bounce /\ g.at = "auth"
    BY DEF Idle
  <2> HIDE DEF g
  <2> QED
    BY <2>1, <2>2, Fresh
<1>2. CASE StartCall(p)
  <2>1. f.at \notin DeleteLabels
    BY <1>2 DEF StartCall, At, DeleteLabels
  <2>2. PICK u \in live, job \in {"lock", "unlock", "renew", "delete"} :
          frame' = [frame EXCEPT ![p] = [Idle EXCEPT !.job = job, !.at = job, !.user = u]]
    BY <1>2 DEF StartCall
  <2> DEFINE g == [Idle EXCEPT !.job = job, !.at = job, !.user = u]
  <2>3. ~g.bounce /\ g.at = job /\ g.job = job
    BY DEF Idle
  <2> HIDE DEF g
  <2>4. frame' = [frame EXCEPT ![p] = g]
    BY <2>2 DEF g
  <2> QED
    BY <2>1, <2>2, <2>3, <2>4, Fresh
<1>3. CASE Keep(p)
  <2> DEFINE g == [f EXCEPT !.keep = (f.user \in locked), !.at = "rewrite"]
  <2>1. f.at \notin DeleteLabels
    BY <1>3 DEF Keep, At, DeleteLabels
  <2>2. g.bounce = f.bounce /\ g.job = f.job /\ g.at = "rewrite"
    BY <1>0 DEF Frames
  <2>3. frame' = [frame EXCEPT ![p] = g]
    BY <1>0, <1>3 DEF Keep, User
  <2> HIDE DEF g
  <2> QED
    BY <2>1, <2>2, <2>3, MovedOn
<1>4. CASE Rewrite(p) \/ Unlink(p)
  <2> PICK x \in {"putback", "stop"} : Goto(p, x) /\ (x = "stop" => f.at = "delete")
    BY <1>4 DEF Rewrite, Unlink, At
  <2> DEFINE g == [f EXCEPT !.at = x]
  <2>1. f.at \notin DeleteLabels
    BY <1>4 DEF Rewrite, Unlink, At, DeleteLabels
  <2>2. g.bounce = f.bounce /\ g.job = f.job /\ g.at = x
    BY <1>0 DEF Frames
  <2>3. frame' = [frame EXCEPT ![p] = g]
    BY <1>0 DEF Goto
  <2> HIDE DEF g
  <2> QED
    BY <2>1, <2>2, <2>3, MovedOn
<1>5. CASE Stop(p)
  <2> DEFINE g == [f EXCEPT !.bounce = srv.up, !.at = "purge"]
  <2>1. f.at = "stop" /\ f.job = "delete" /\ ~f.bounce
    BY <1>5 DEF Stop, At, Remembering, Deletes, DeleteLabels
  <2>2. g.job = f.job /\ g.at = "purge"
    BY <1>0 DEF Frames
  <2>3. frame' = [frame EXCEPT ![p] = g]
    BY <1>0, <1>5 DEF Stop
  <2> HIDE DEF g
  <2> QED
    BY <1>0, <2>1, <2>2, <2>3 DEF Remembers, Deletes, DeleteLabels
<1>6. CASE Purge(p) \/ Purged(p) \/ Mirror(p)
  <2>1. PICK k \in SUBSET Users, x \in {"auth", "purged", "mirror"} :
          frame' = [frame EXCEPT ![p] = [f EXCEPT !.keys = k, !.at = x]]
    <3>1. CASE Purge(p) /\ state.ok /\ User(p) \in state.keys
      BY <1>0, <3>1 DEF Purge, ApplyType, TypeOK
    <3>2. ASSUME NEW x \in {"auth", "mirror"}, Goto(p, x)
          PROVE  frame' = [frame EXCEPT ![p] = [f EXCEPT !.keys = f.keys, !.at = x]] /\ f.keys \in SUBSET Users
      BY <1>0, <3>2 DEF Goto, Frames
    <3>3. CASE Mirror(p)
      BY <1>0, <3>3 DEF Mirror
    <3> QED
      BY <1>6, <3>1, <3>2, <3>3 DEF Purge, Purged
  <2> DEFINE g == [f EXCEPT !.keys = k, !.at = x]
  <2>2. g.bounce = f.bounce /\ g.job = f.job /\ g.at = x
    BY <1>0 DEF Frames
  <2>3. x \in DeleteLabels /\ x # "delete" /\ frame' = [frame EXCEPT ![p] = g]
    BY <2>1 DEF DeleteLabels
  <2> HIDE DEF g
  <2> QED
    BY <2>2, <2>3, MovedOn
<1>7. CASE Start(p)
  <2> DEFINE g == [f EXCEPT !.bounce = FALSE, !.at = "free"]
  <2>1. ~g.bounce /\ g.at = "free" /\ f.at = "start"
    BY <1>0, <1>7 DEF Frames, Start, At
  <2>2. frame' = [frame EXCEPT ![p] = g]
    BY <1>0, <1>7 DEF Start
  <2> HIDE DEF g
  <2> QED
    BY <1>0, <2>1, <2>2 DEF Remembers, Deletes
<1>8. CASE Free(p)
  <2>1. f.at \notin DeleteLabels /\ frame' = [frame EXCEPT ![p] = Idle]
    BY <1>8 DEF Free, At, End, DeleteLabels
  <2>2. ~Idle.bounce /\ Idle.at = "idle"
    BY DEF Idle
  <2> QED
    BY <2>1, <2>2, Fresh
<1> QED
  BY <1>1, <1>2, <1>3, <1>4, <1>5, <1>6, <1>7, <1>8 DEF CallStep

LEMMA ApplyStepRemembers ==
  ASSUME ApplyType, Remembering, NEW p \in Procs, ApplyStep(p)
  PROVE  Remembers(p)
<1> DEFINE f == frame[p]
<1>0. f \in Frames /\ frame \in [Procs -> Frames]
  BY DEF ApplyType, TypeOK
<1>1. ASSUME NEW a, NEW w, NEW b, NEW x \in {"quota", "look", "replace", "check"},
             frame' = [frame EXCEPT ![p] = [f EXCEPT !.auth = a, !.want = w, !.before = b, !.at = x]]
      PROVE  Remembers(p)
  <2> DEFINE g == [f EXCEPT !.auth = a, !.want = w, !.before = b, !.at = x]
  <2>1. g.bounce = f.bounce /\ g.job = f.job /\ g.at = x
    BY <1>0 DEF Frames
  <2>2. x \in DeleteLabels /\ x # "delete" /\ frame' = [frame EXCEPT ![p] = g]
    BY <1>1 DEF DeleteLabels
  <2> HIDE DEF g
  <2> QED
    BY <2>1, <2>2, MovedOn
<1>5. CASE ReadAuth(p)
  <2>1. frame' = [frame EXCEPT ![p] = [f EXCEPT !.auth = Active, !.want = f.want, !.before = f.before, !.at = "quota"]]
    BY <1>0, <1>5 DEF ReadAuth, Frames
  <2> QED
    BY <1>1, <2>1
<1>6. CASE ReadQuota(p)
  <2>1. frame' = [frame EXCEPT ![p] = [f EXCEPT !.auth = f.auth, !.want = Active \cap Limited, !.before = f.before, !.at = "look"]]
    BY <1>0, <1>6 DEF ReadQuota, Frames
  <2> QED
    BY <1>1, <2>1
<1>7. CASE Look(p)
  <2>1. frame' = [frame EXCEPT ![p] = [f EXCEPT !.auth = f.auth, !.want = f.want, !.before = conf, !.at = "replace"]]
    BY <1>0, <1>7 DEF Look, Frames
  <2> QED
    BY <1>1, <2>1
<1>8. CASE Replace(p)
  <2>1. frame' = [frame EXCEPT ![p] = [f EXCEPT !.auth = {}, !.want = {}, !.before = f.before, !.at = "check"]]
    BY <1>0, <1>8 DEF Replace, Frames
  <2> QED
    BY <1>1, <2>1
<1>2. ASSUME NEW h, h.bounce = f.bounce, h.job = f.job, h.at \in {"check", "restart"},
             f.at \in {"check", "restart"}, h \in Frames,
             frame' = [frame EXCEPT ![p] = AfterApply(h)]
      PROVE  Remembers(p)
  <2>1. CASE h.job = "delete"
    <3> DEFINE g == [h EXCEPT !.at = "start"]
    <3>1. g.bounce = f.bounce /\ g.job = f.job /\ g.at = "start"
      BY <1>2 DEF Frames
    <3>2. frame' = [frame EXCEPT ![p] = g]
      BY <1>2, <2>1 DEF AfterApply
    <3> HIDE DEF g
    <3> QED
      BY <3>1, <3>2, MovedOn DEF DeleteLabels
  <2>2. CASE h.job # "delete"
    <3>1. ~f.bounce
      BY <1>2, <2>2 DEF Remembering, Deletes
    <3>2. ~AfterApply(h).bounce /\ AfterApply(h).at \in {"cool", "idle"}
      BY <2>2 DEF AfterApply, Idle
    <3>3. Deletes(AfterApply(h))
      BY <3>2 DEF Deletes
    <3> QED
      BY <1>0, <1>2, <3>1, <3>3 DEF Remembers
  <2> QED
    BY <2>1, <2>2
<1>3. CASE Check(p)
  <2> DEFINE h == [f EXCEPT !.before = NoConf]
             g == [h EXCEPT !.at = "restart"]
  <2>1. f.at = "check"
    BY <1>3 DEF Check, At
  <2>2. h \in Frames /\ h.bounce = f.bounce /\ h.job = f.job /\ h.at = f.at
    BY <1>0, IdleType DEF Frames
  <2>3. CASE Changed(p)
    <3>1. frame' = [frame EXCEPT ![p] = g]
      BY <1>0, <1>3, <2>3 DEF Check
    <3> HIDE DEF h
    <3>2. g.bounce = f.bounce /\ g.job = f.job /\ g.at = "restart"
      BY <2>2 DEF Frames
    <3> HIDE DEF g
    <3> QED
      BY <3>1, <3>2, MovedOn DEF DeleteLabels
  <2>4. CASE ~Changed(p)
    <3>1. frame' = [frame EXCEPT ![p] = AfterApply(h)]
      BY <1>0, <1>3, <2>4 DEF Check
    <3> HIDE DEF h
    <3> QED
      BY <1>2, <2>1, <2>2, <3>1
  <2> QED
    BY <2>3, <2>4
<1>4. CASE Restart(p)
  <2>1. f.at = "restart" /\ frame' = [frame EXCEPT ![p] = AfterApply(f)]
    BY <1>0, <1>4 DEF Restart, At
  <2> QED
    BY <1>0, <1>2, <2>1
<1> QED
  BY <1>3, <1>4, <1>5, <1>6, <1>7, <1>8 DEF ApplyStep

LEMMA GuardStepRemembers ==
  ASSUME ApplyType, Remembering, NEW p \in Procs, GuardStep(p)
  PROVE  Remembers(p)
<1> DEFINE f == frame[p]
<1>0. f \in Frames /\ frame \in [Procs -> Frames]
  BY DEF ApplyType, TypeOK
<1>1. frame[p].at \notin DeleteLabels
  BY DEF GuardStep, StartGuard, Expect, SeedRegistry, Repair, Fill, Place, Compare, Cool, At, DeleteLabels
<1>2. ~f.bounce /\ f.at \notin {"delete", "stop"}
  <2>1. f.at \notin {"delete", "stop"}
    BY DEF GuardStep, StartGuard, Expect, SeedRegistry, Repair, Fill, Place, Compare, Cool, At
  <2> QED
    BY <1>1, <2>1 DEF Remembering, Deletes
<1>3. ASSUME NEW w, NEW x \in {"seed", "repair", "fill", "compare", "auth"},
             frame' = [frame EXCEPT ![p] = [f EXCEPT !.want = w, !.at = x]]
      PROVE  Remembers(p)
  <2> DEFINE g == [f EXCEPT !.want = w, !.at = x]
  <2>1. ~g.bounce /\ g.at = x
    BY <1>0, <1>2 DEF Frames
  <2>2. frame' = [frame EXCEPT ![p] = g]
    BY <1>3
  <2> HIDE DEF g
  <2> QED
    BY <1>1, <2>1, <2>2, Fresh
<1>4. ASSUME NEW g, ~g.bounce, g.at \in {"idle", "expect", "place", "restart"},
             frame' = [frame EXCEPT ![p] = g]
      PROVE  Remembers(p)
  BY <1>1, <1>4, Fresh
<1>5. CASE StartGuard(p)
  <2> DEFINE g == [Idle EXCEPT !.job = "guard", !.at = "expect"]
  <2>1. ~g.bounce /\ g.at = "expect"
    BY DEF Idle
  <2>2. frame' = [frame EXCEPT ![p] = g] \/ frame' = frame
    BY <1>5 DEF StartGuard
  <2> HIDE DEF g
  <2>3. CASE frame' = frame
    BY <1>2, <2>3 DEF Remembers, Remembering
  <2> QED
    BY <1>4, <2>1, <2>2, <2>3
<1>6. CASE Expect(p)
  BY <1>0, <1>3, <1>6 DEF Expect
<1>7. CASE SeedRegistry(p) \/ Repair(p)
  <2>1. PICK x \in {"repair", "fill", "compare"} : Goto(p, x)
    BY <1>7 DEF SeedRegistry, Repair
  <2>2. frame' = [frame EXCEPT ![p] = [f EXCEPT !.want = f.want, !.at = x]]
    BY <1>0, <2>1 DEF Goto, Frames
  <2> QED
    BY <1>3, <2>2
<1>8. CASE Fill(p) \/ Place(p)
  <2> DEFINE g == [Idle EXCEPT !.before = conf, !.at = "place"]
             h == [Idle EXCEPT !.at = "restart"]
  <2>1. /\ ~g.bounce /\ g.at = "place"
        /\ ~h.bounce /\ h.at = "restart"
        /\ ~Idle.bounce /\ Idle.at = "idle"
    BY DEF Idle
  <2>2. \/ frame' = [frame EXCEPT ![p] = g]
        \/ frame' = [frame EXCEPT ![p] = h]
        \/ frame' = [frame EXCEPT ![p] = Idle]
    BY <1>8 DEF Fill, Place, End
  <2> HIDE DEF g, h
  <2> QED
    BY <1>4, <2>1, <2>2
<1>9. CASE Compare(p) \/ Cool(p)
  <2>1. ~Idle.bounce /\ Idle.at = "idle"
    BY DEF Idle
  <2>2. \/ frame' = [frame EXCEPT ![p] = Idle]
        \/ frame' = [frame EXCEPT ![p] = [f EXCEPT !.want = {}, !.at = "auth"]]
    BY <1>0, <1>9 DEF Compare, Cool, End
  <2> QED
    BY <1>3, <1>4, <2>1, <2>2
<1> QED
  BY <1>5, <1>6, <1>7, <1>8, <1>9 DEF GuardStep

-----------------------------------------------------------------------------
\* The server is current.

Settled ==
  \/ killed \/ raced
  \/ srv.up /\ srv.conf = conf
  \/ ~srv.up /\ conf.auth = {}

ApplyInv == ApplyType /\ Remembering /\ ServerIsCurrent

LEMMA CurrentDef == ServerIsCurrent <=> Settled \/ \E p \in Procs : Due(p)
BY DEF ServerIsCurrent, Settled

\* Starting the server settles everything.
LEMMA StartedSettles ==
  ASSUME srv' = Started(conf), conf' = conf
  PROVE  Settled'
BY DEF Settled, Started, Down, NoConf

\* A step of p that leaves the file and the server alone, but for its counters,
\* leaves it current if p moves on to what it owes.
LEMMA QuietStep ==
  ASSUME ApplyInv, NEW p \in Procs, Remembers(p),
         conf' = conf, srv'.up = srv.up, srv'.conf = srv.conf,
         killed' = killed, raced' = raced,
         frame[p].at # "start" \/ ~frame[p].bounce \/ srv.up,
         frame[p].at # "restart",
         frame[p].at = "check" /\ frame[p].before # conf => frame'[p].at = "restart"
  PROVE  ServerIsCurrent'
<1>1. CASE Settled
  BY <1>1 DEF ServerIsCurrent, Settled
<1>2. CASE \E q \in Procs \ {p} : Due(q)
  BY <1>2 DEF Remembers, Due, At, ServerIsCurrent
<1>3. CASE Due(p)
  <2>1. Due(p)'
    BY <1>3 DEF Due, At, Remembers
  <2> QED
    BY <2>1 DEF ServerIsCurrent
<1> QED
  BY <1>1, <1>2, <1>3, CurrentDef DEF ApplyInv

LEMMA StepCurrent ==
  ASSUME ApplyInv, NEW p \in Procs, Step(p) \/ StartCall(p)
  PROVE  Remembering' /\ ServerIsCurrent'
<1>0. Remembers(p) /\ frame \in [Procs -> Frames] /\ frame[p] \in Frames
  BY CallStepRemembers, ApplyStepRemembers, GuardStepRemembers DEF Step, ApplyInv, ApplyType, TypeOK
<1>a. Remembering'
  BY <1>0 DEF Remembers, ApplyInv, Remembering
<1>1. CASE StartCall(p) \/ SetLocked(p) \/ Keep(p) \/ Rewrite(p) \/ PutBack(p) \/ Unlink(p)
           \/ Purge(p) \/ Purged(p) \/ Mirror(p) \/ Free(p)
  <2>1. frame[p].at \notin {"start", "restart", "check"}
    BY <1>1 DEF StartCall, SetLocked, Keep, Rewrite, PutBack, Unlink, Purge, Purged, Mirror, Free, At
  <2>2. conf' = conf /\ srv' = srv /\ killed' = killed /\ raced' = raced
    BY <1>1 DEF StartCall, SetLocked, Keep, Rewrite, PutBack, Unlink, Purge, Purged, Mirror, Free, files, rest
  <2> QED
    BY <1>0, <1>a, <2>1, <2>2, QuietStep
<1>2. CASE ReadAuth(p) \/ ReadQuota(p) \/ Look(p) \/ Expect(p) \/ SeedRegistry(p) \/ Repair(p)
           \/ Fill(p) \/ Compare(p) \/ Cool(p)
  <2>1. frame[p].at \notin {"start", "restart", "check"}
    BY <1>2 DEF ReadAuth, ReadQuota, Look, Expect, SeedRegistry, Repair, Fill, Compare, Cool, At
  <2>2. conf' = conf /\ srv' = srv /\ killed' = killed /\ raced' = raced
    BY <1>2 DEF ReadAuth, ReadQuota, Look, Expect, SeedRegistry, Repair, Fill, Compare, Cool, files, rest
  <2> QED
    BY <1>0, <1>a, <2>1, <2>2, QuietStep
<1>3. CASE Stop(p)
  <2>1. conf' = conf /\ ~srv'.up /\ srv' = Down /\ killed' = killed /\ raced' = raced
    BY <1>3 DEF Stop, Down, files, rest
  <2>2. CASE srv.up
    <3>1. frame'[p].bounce
      BY <1>0, <1>3, <2>2 DEF Stop, Frames
    <3>2. Due(p)'
      BY <2>1, <3>1 DEF Due
    <3> QED
      BY <1>a, <3>2 DEF ServerIsCurrent
  <2>3. CASE ~srv.up
    <3>1. CASE Settled
      BY <1>a, <2>1, <2>3, <3>1 DEF Settled, ServerIsCurrent
    <3>2. ~Due(p)
      BY <1>3 DEF Stop, Due, At, ApplyInv, Remembering, Deletes, DeleteLabels
    <3>3. CASE \E q \in Procs \ {p} : Due(q)
      BY <1>0, <1>a, <2>1, <3>3 DEF Remembers, Due, At, ServerIsCurrent
    <3> QED
      BY <3>1, <3>2, <3>3, CurrentDef DEF ApplyInv
  <2> QED
    BY <2>2, <2>3
<1>4. CASE Start(p)
  <2>1. conf' = conf /\ killed' = killed /\ raced' = raced
    BY <1>4 DEF Start, files, rest
  <2>2. CASE frame[p].bounce /\ ~srv.up
    BY <1>4, <1>a, <2>1, <2>2, StartedSettles DEF Start, Settled, ServerIsCurrent
  <2>3. CASE ~(frame[p].bounce /\ ~srv.up)
    <3>1. srv' = srv /\ frame[p].at = "start"
      BY <1>4, <2>3 DEF Start, At
    <3> QED
      BY <1>0, <1>a, <2>1, <2>3, <3>1, QuietStep
  <2> QED
    BY <2>2, <2>3
<1>5. CASE Replace(p)
  <2>1. srv' = srv /\ killed' = killed /\ raced' = (raced \/ frame[p].before # conf)
    BY <1>5 DEF Replace
  <2>2. CASE raced'
    BY <1>a, <2>2 DEF ServerIsCurrent
  <2>3. CASE ~raced' /\ conf' # conf
    <3>1. frame'[p].at = "check" /\ frame'[p].before = frame[p].before
      BY <1>0, <1>5 DEF Replace, Frames
    <3>2. Due(p)'
      BY <2>1, <2>3, <3>1 DEF Due, At
    <3> QED
      BY <1>a, <3>2 DEF ServerIsCurrent
  <2>4. CASE ~raced' /\ conf' = conf
    <3>1. raced' = raced /\ frame[p].at = "replace"
      BY <1>5, <2>1, <2>4 DEF Replace, At, ApplyInv, ApplyType, TypeOK
    <3> QED
      BY <1>0, <1>a, <2>1, <2>4, <3>1, QuietStep
  <2> QED
    BY <2>2, <2>3, <2>4
<1>6. CASE Check(p)
  <2>1. conf' = conf /\ srv' = srv /\ killed' = killed /\ raced' = raced /\ frame[p].at = "check"
    BY <1>6 DEF Check, At, files, rest
  <2>2. frame[p].before # conf => frame'[p].at = "restart"
    BY <1>0, <1>6, IdleType DEF Check, Changed, Frames
  <2> QED
    BY <1>0, <1>a, <2>1, <2>2, QuietStep
<1>7. CASE Restart(p)
  BY <1>7, <1>a, StartedSettles DEF Restart, files, Settled, ServerIsCurrent
<1>8. CASE StartGuard(p)
  <2>1. conf' = conf /\ killed' = killed /\ raced' = raced /\ frame[p].at = "idle"
    BY <1>8 DEF StartGuard, At, files, rest
  <2>2. CASE srv.up
    BY <1>0, <1>8, <1>a, <2>1, <2>2, QuietStep DEF StartGuard
  <2>3. CASE ~srv.up
    BY <1>8, <1>a, <2>1, <2>3, StartedSettles DEF StartGuard, Settled, ServerIsCurrent
  <2> QED
    BY <2>2, <2>3
<1>9. CASE Place(p)
  <2>1. frame'[p].at = "restart"
    BY <1>0, <1>9 DEF Place, Idle
  <2>2. Due(p)'
    BY <2>1 DEF Due, At
  <2> QED
    BY <1>a, <2>2 DEF ServerIsCurrent
<1> QED
  BY <1>1, <1>2, <1>3, <1>4, <1>5, <1>6, <1>7, <1>8, <1>9, <1>a DEF Step, CallStep, ApplyStep, GuardStep

LEMMA InvStep == ApplyInv /\ [Next]_vars => ApplyInv'
<1> SUFFICES ASSUME ApplyInv, [Next]_vars PROVE ApplyInv'
  OBVIOUS
<1>1. ApplyType'
  BY StepType DEF ApplyInv
<1>2. CASE \E p \in Procs : Step(p) \/ StartCall(p)
  BY <1>1, <1>2, StepCurrent DEF ApplyInv
<1>3. CASE \E p \in Procs : Kill(p)
  <2> PICK p \in Procs : Kill(p)
    BY <1>3
  <2>1. killed' /\ frame' = [frame EXCEPT ![p] = Idle]
    BY DEF Kill, End
  <2>2. Deletes(Idle)
    BY DEF Deletes, Idle
  <2>3. Remembering'
    BY <2>1, <2>2 DEF ApplyInv, ApplyType, TypeOK, Remembering
  <2> QED
    BY <1>1, <2>1, <2>3 DEF ApplyInv, ServerIsCurrent
<1>4. CASE UNCHANGED <<frame, conf, srv.up, srv.conf, killed, raced>>
  <2>1. Remembering'
    BY <1>4 DEF ApplyInv, Remembering
  <2>2. ServerIsCurrent'
    BY <1>4 DEF ApplyInv, ServerIsCurrent, Due, At
  <2> QED
    BY <1>1, <2>1, <2>2 DEF ApplyInv
<1>5. CASE \E u \in Users : Use(u)
  <2>1. PICK u \in Users : Use(u)
    BY <1>5
  <2>2. srv'.up = srv.up /\ srv'.conf = srv.conf
    BY <2>1 DEF Use, ApplyInv, ApplyType, TypeOK
  <2> QED
    BY <1>4, <2>1, <2>2 DEF Use, files, rest
<1>6. CASE Flush \/ CooldownEnds \/ UNCHANGED vars
  BY <1>4, <1>6 DEF Flush, CooldownEnds, vars, files, rest
<1> QED
  BY <1>2, <1>3, <1>5, <1>6 DEF Next

LEMMA InvInit == Init => ApplyInv
<1> SUFFICES ASSUME Init PROVE Remembering /\ ServerIsCurrent
  BY ApplyInit DEF ApplyInv
<1>1. \A p \in Procs : Deletes(frame[p])
  BY DEF Init, Idle, Deletes
<1>2. srv.up /\ srv.conf = conf
  BY DEF Init
<1> QED
  BY <1>1, <1>2 DEF Remembering, ServerIsCurrent

\* However many calls of the panel and guards overlap around config.json, the
\* server runs with the list on disk, or a call that will restart or start it
\* is under way, as long as no call was killed and none overwrote a file that
\* had changed since it looked (_zivpn_sync_config, delete_user, the guard).
THEOREM Current == Spec => []ServerIsCurrent
<1>1. Spec => []ApplyInv
  BY InvInit, InvStep, PTL DEF Spec
<1>2. ApplyInv => ServerIsCurrent
  BY DEF ApplyInv
<1> QED
  BY <1>1, <1>2, PTL
=============================================================================

---------------------------- MODULE Qualify_proofs ----------------------------
(***************************************************************************)
(* Proofs about tag qualification: what makes one node's names safe to mix *)
(* with another's, for tags of any number of words.                        *)
(***************************************************************************)
EXTENDS Qualify, SequenceTheorems, TLAPS

\* A tag a save accepts for a node: not blank, not qualified for it already.
LocalInbound(tag, node) == tag # EmptyTag /\ ~IsQualifiedInboundTag(tag, node)
LocalOutbound(tag, node) == tag # EmptyTag /\ ~IsQualifiedOutboundTag(tag, node)

\* A qualified inbound name ends with its node, a qualified outbound name
\* begins with it.
LEMMA QualifiedInbound ==
    ASSUME NEW Word, NEW node \in Word, NEW tag \in Seq(Word), tag # << >>, tag # EmptyTag
    PROVE  /\ QualifiedInboundTag(tag, node) \in Seq(Word)
           /\ IsQualifiedInboundTag(QualifiedInboundTag(tag, node), node)
  <1>1. CASE IsQualifiedInboundTag(tag, node)
    BY <1>1 DEF QualifiedInboundTag
  <1>2. CASE ~IsQualifiedInboundTag(tag, node)
    <2>1. QualifiedInboundTag(tag, node) = Append(tag, node)
      BY <1>2 DEF QualifiedInboundTag
    <2>2. Len(tag) \in Nat /\ Len(tag) > 0
      BY EmptySeq, LenProperties
    <2>3. /\ Append(tag, node) \in Seq(Word) /\ Len(Append(tag, node)) = Len(tag) + 1
          /\ Append(tag, node)[Len(tag) + 1] = node
      BY AppendProperties
    <2> QED
      BY <2>1, <2>2, <2>3 DEF IsQualifiedInboundTag
  <1> QED
    BY <1>1, <1>2

\* Qualifying a name again changes nothing.
THEOREM InboundIdempotent ==
    ASSUME NEW Word, NEW node \in Word, NEW tag \in Seq(Word), tag # << >>
    PROVE  QualifiedInboundTag(QualifiedInboundTag(tag, node), node)
             = QualifiedInboundTag(tag, node)
  <1>1. CASE tag = EmptyTag
    BY <1>1 DEF QualifiedInboundTag
  <1>2. CASE tag # EmptyTag
    BY <1>2, QualifiedInbound DEF QualifiedInboundTag
  <1> QED
    BY <1>1, <1>2

\* The label of a link shows the name the admin gave.
THEOREM BaseUndoesInbound ==
    ASSUME NEW Word, NEW node \in Word, NEW tag \in Seq(Word), tag # << >>,
           LocalInbound(tag, node)
    PROVE  BaseInboundTag(QualifiedInboundTag(tag, node), node) = tag
  <1>1. QualifiedInboundTag(tag, node) = Append(tag, node)
    BY DEF QualifiedInboundTag, LocalInbound
  <1>2. IsQualifiedInboundTag(Append(tag, node), node)
    BY <1>1, QualifiedInbound DEF LocalInbound
  <1>3. Len(Append(tag, node)) - 1 = Len(tag) /\ Len(tag) \in Nat
    BY AppendProperties, LenProperties
  <1>4. SubSeq(Append(tag, node), 1, Len(tag)) = tag
    BY AppendProperties
  <1> QED
    BY <1>1, <1>2, <1>3, <1>4 DEF BaseInboundTag

\* Two inbounds of one node never get one name: of what a save accepts,
\* qualification is injective.
THEOREM InboundsStayApart ==
    ASSUME NEW Word, NEW node \in Word, NEW s \in Seq(Word), NEW t \in Seq(Word),
           s # << >>, t # << >>, LocalInbound(s, node), LocalInbound(t, node),
           QualifiedInboundTag(s, node) = QualifiedInboundTag(t, node)
    PROVE  s = t
  BY BaseUndoesInbound

\* Names of two nodes are never the same, whatever their tags: the last word
\* tells them apart, so a runtime config and a subscription of many nodes can
\* be read together.
THEOREM NodesNeverShareInbound ==
    ASSUME NEW Word, NEW m \in Word, NEW n \in Word, m # n,
           NEW s \in Seq(Word), NEW t \in Seq(Word),
           s # << >>, t # << >>, s # EmptyTag, t # EmptyTag
    PROVE  QualifiedInboundTag(s, m) # QualifiedInboundTag(t, n)
  BY QualifiedInbound DEF IsQualifiedInboundTag

-----------------------------------------------------------------------------
(* Outbounds: the node comes first, and BLOCK belongs to every node.       *)

LEMMA OutboundPrefix ==
    ASSUME NEW Word, NEW node \in Word, NEW tag \in Seq(Word), tag # << >>
    PROVE  /\ <<node>> \o tag \in Seq(Word)
           /\ Len(<<node>> \o tag) = Len(tag) + 1 /\ Len(tag) \in Nat \ {0}
           /\ (<<node>> \o tag)[1] = node
           /\ SubSeq(<<node>> \o tag, 2, Len(tag) + 1) = tag
  <1>1. <<node>> \in Seq(Word) /\ Len(<<node>>) = 1 /\ <<node>>[1] = node
    OBVIOUS
  <1>2. /\ <<node>> \o tag \in Seq(Word) /\ Len(<<node>> \o tag) = 1 + Len(tag)
        /\ \A i \in 1 .. 1 + Len(tag) : (<<node>> \o tag)[i] =
              IF i <= 1 THEN <<node>>[i] ELSE tag[i - 1]
    BY <1>1, ConcatProperties
  <1>3. Len(tag) \in Nat \ {0}
    BY EmptySeq, LenProperties
  <1> DEFINE sub == SubSeq(<<node>> \o tag, 2, Len(tag) + 1)
  <1>4. \A i \in 2 .. Len(tag) + 1 : (<<node>> \o tag)[i] \in Word
    BY <1>2, <1>3, ElementOfSeq
  <1>5. /\ sub \in Seq(Word) /\ Len(sub) = Len(tag)
        /\ \A i \in 1 .. Len(tag) : sub[i] = (<<node>> \o tag)[2 + i - 1]
    BY <1>3, <1>4, SubSeqProperties
  <1>6. \A i \in 1 .. Len(sub) : sub[i] = tag[i]
    BY <1>2, <1>3, <1>5
  <1>7. sub = tag
    BY <1>5, <1>6, SeqEqual
  <1> QED
    BY <1>1, <1>2, <1>3, <1>7

LEMMA QualifiedOutbound ==
    ASSUME NEW Word, NEW node \in Word, NEW tag \in Seq(Word), tag # << >>,
           tag # EmptyTag, tag # Block
    PROVE  /\ QualifiedOutboundTag(tag, node) \in Seq(Word)
           /\ IsQualifiedOutboundTag(QualifiedOutboundTag(tag, node), node)
  <1>1. CASE IsQualifiedOutboundTag(tag, node)
    BY <1>1 DEF QualifiedOutboundTag
  <1>2. CASE ~IsQualifiedOutboundTag(tag, node)
    <2>1. QualifiedOutboundTag(tag, node) = <<node>> \o tag
      BY <1>2 DEF QualifiedOutboundTag
    <2> QED
      BY <2>1, OutboundPrefix DEF IsQualifiedOutboundTag
  <1> QED
    BY <1>1, <1>2

\* Qualifying a name again changes nothing, so an exit qualified in a rule and
\* again in an email names one outbound.
THEOREM OutboundIdempotent ==
    ASSUME NEW Word, NEW node \in Word, NEW tag \in Seq(Word), tag # << >>
    PROVE  QualifiedOutboundTag(QualifiedOutboundTag(tag, node), node)
             = QualifiedOutboundTag(tag, node)
  <1>1. CASE tag = EmptyTag \/ tag = Block
    BY <1>1 DEF QualifiedOutboundTag
  <1>2. CASE tag # EmptyTag /\ tag # Block
    BY <1>2, QualifiedOutbound DEF QualifiedOutboundTag
  <1> QED
    BY <1>1, <1>2

\* The label of a link shows the exit as the admin named it.
THEOREM BaseUndoesOutbound ==
    ASSUME NEW Word, NEW node \in Word, NEW tag \in Seq(Word), tag # << >>,
           LocalOutbound(tag, node)
    PROVE  BaseOutboundTag(QualifiedOutboundTag(tag, node), node) = tag
  <1>1. CASE tag = Block
    BY <1>1 DEF QualifiedOutboundTag, BaseOutboundTag, LocalOutbound
  <1>2. CASE tag # Block
    <2>1. QualifiedOutboundTag(tag, node) = <<node>> \o tag
      BY <1>2 DEF QualifiedOutboundTag, LocalOutbound
    <2>2. IsQualifiedOutboundTag(<<node>> \o tag, node)
      BY <1>2, <2>1, QualifiedOutbound DEF LocalOutbound
    <2> QED
      BY <2>1, <2>2, OutboundPrefix DEF BaseOutboundTag
  <1> QED
    BY <1>1, <1>2

\* Two exits of one node never get one name, BLOCK among them.
THEOREM OutboundsStayApart ==
    ASSUME NEW Word, NEW node \in Word, NEW s \in Seq(Word), NEW t \in Seq(Word),
           s # << >>, t # << >>, LocalOutbound(s, node), LocalOutbound(t, node),
           QualifiedOutboundTag(s, node) = QualifiedOutboundTag(t, node)
    PROVE  s = t
  BY BaseUndoesOutbound

\* Names of two nodes are never the same, but for BLOCK, which every node
\* drops traffic under.
THEOREM NodesShareOnlyBlock ==
    ASSUME NEW Word, NEW m \in Word, NEW n \in Word, m # n,
           NEW s \in Seq(Word), NEW t \in Seq(Word),
           s # << >>, t # << >>, s # EmptyTag, t # EmptyTag,
           QualifiedOutboundTag(s, m) = QualifiedOutboundTag(t, n)
    PROVE  s = Block /\ t = Block
  <1>1. CASE s # Block /\ t # Block
    BY <1>1, QualifiedOutbound DEF IsQualifiedOutboundTag
  <1>2. QualifiedOutboundTag(Block, m) = Block /\ QualifiedOutboundTag(Block, n) = Block
    BY DEF QualifiedOutboundTag
  <1>3. Len(Block) = 1
    BY DEF Block
  <1>4. CASE s = Block /\ t # Block
    <2>1. IsQualifiedOutboundTag(Block, n)
      BY <1>2, <1>4, QualifiedOutbound
    <2> QED
      BY <1>3, <2>1 DEF IsQualifiedOutboundTag
  <1>5. CASE s # Block /\ t = Block
    <2>1. IsQualifiedOutboundTag(Block, m)
      BY <1>2, <1>5, QualifiedOutbound
    <2> QED
      BY <1>3, <2>1 DEF IsQualifiedOutboundTag
  <1> QED
    BY <1>1, <1>4, <1>5

-----------------------------------------------------------------------------
(* Whole configs and clients.                                              *)

\* Of a config that a save accepts, entries of different tags keep different
\* names, inbounds and outbounds: no two inbounds of a runtime config merge
\* because of their node.
THEOREM AcceptedConfigStaysApart ==
    ASSUME NEW Word, NEW node \in Word, NEW config, LocalTagErrors(config, node) = {},
           \A e \in EntrySet(config.inbounds) \cup EntrySet(config.outbounds) :
              e.tag \in Seq(Word) /\ e.tag # << >>
    PROVE  /\ \A d, e \in EntrySet(config.inbounds) :
                 QualifiedInboundTag(d.tag, node) = QualifiedInboundTag(e.tag, node)
                    => d.tag = e.tag
           /\ \A d, e \in EntrySet(config.outbounds) :
                 QualifiedOutboundTag(d.tag, node) = QualifiedOutboundTag(e.tag, node)
                    => d.tag = e.tag
  <1>1. \A e \in EntrySet(config.inbounds) : LocalInbound(e.tag, node)
    BY DEF LocalTagErrors, TagErrors, LocalInbound
  <1>2. \A e \in EntrySet(config.outbounds) : LocalOutbound(e.tag, node)
    BY DEF LocalTagErrors, TagErrors, LocalOutbound
  <1>3. ASSUME NEW d \in EntrySet(config.inbounds), NEW e \in EntrySet(config.inbounds),
               QualifiedInboundTag(d.tag, node) = QualifiedInboundTag(e.tag, node)
        PROVE  d.tag = e.tag
    BY <1>1, <1>3, InboundsStayApart
  <1>4. ASSUME NEW d \in EntrySet(config.outbounds), NEW e \in EntrySet(config.outbounds),
               QualifiedOutboundTag(d.tag, node) = QualifiedOutboundTag(e.tag, node)
        PROVE  d.tag = e.tag
    BY <1>2, <1>4, OutboundsStayApart
  <1> QED
    BY <1>3, <1>4

\* A client of one node is no client of another: an email names the node by
\* its exit, so traffic is counted and routed for one node alone.
THEOREM EmailsNameTheirNode ==
    ASSUME NEW Word, NEW m \in Word, NEW n \in Word, m # n, NEW u, NEW v,
           NEW s \in Seq(Word), NEW t \in Seq(Word),
           s # << >>, t # << >>, s # EmptyTag, t # EmptyTag, s # Block
    PROVE  QualifyEmailKey(Email(u, s), m) # QualifyEmailKey(Email(v, t), n)
  <1> SUFFICES ASSUME QualifyEmailKey(Email(u, s), m) = QualifyEmailKey(Email(v, t), n)
               PROVE  FALSE
    OBVIOUS
  <1>1. QualifiedOutboundTag(s, m) = QualifiedOutboundTag(t, n)
    BY DEF QualifyEmailKey, Email
  <1> QED
    BY <1>1, NodesShareOnlyBlock
=============================================================================

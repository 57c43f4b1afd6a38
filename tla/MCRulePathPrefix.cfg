SPECIFICATION Spec
CONSTANTS
  Byte = 4
  EtherDev = 1
  Star = 15
  Types <- AllTypes
  Concats <- MCConcats
  MetaKeys <- AllMeta
  CtKeys <- AllCt
  Protos <- AllProtos
  IcmpDep <- IcmpTypes
  IcmpReply <- IcmpAnswers
  NamedSets <- MCNamedSets
  Loads <- MCLoads
  PortUnreach <- MCPortUnreach
  Evaluated <- RuleEvaluated
  Generated <- RuleGenerated
  Listed <- RuleListed
  Read <- RuleRead
  Says <- RuleMeans
  Acts <- RuleDoes
  Rules <- PrefixRules
  PacketsOf <- MCPackets
  FormatsOf <- TextOnly
  LoadKind <- MCLoadKind
  ExtFields <- MCExtFields
  PrefixTypes <- AllPrefixTypes
INVARIANT LoadsAgain
CHECK_DEADLOCK FALSE

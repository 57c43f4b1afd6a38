SPECIFICATION Spec
CONSTANTS
  Byte = 4
  Types <- AllTypes
  Concats <- MCConcats
  MetaKeys <- AllMeta
  CtKeys <- AllCt
  Protos <- AllProtos
  Evaluated <- DeclEvaluated
  Generated <- DeclGenerated
  Listed <- DeclListed
  Read <- DeclRead
  Says <- DeclMeans
  Acts <- DeclDoes
  Rules <- MCDecls
  PacketsOf <- MCFamily
  FormatsOf <- MCFormats
INVARIANTS NoBug SaysWhatItDoes ListsWhatItDoes LoadsAgain ListsTheSame
CHECK_DEADLOCK FALSE

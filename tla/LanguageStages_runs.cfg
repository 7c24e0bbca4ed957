SPECIFICATION Spec
CONSTANTS
  IdProperty <- MCIdProperty
  Ends <- MCEnds
  Types <- MCTypes
  Snake <- MCSnake
  Metrics <- MCMetrics
  PathPatterns <- MCPathPatterns
  ValidValues <- MCValidValues
  Synonyms <- MCSynonyms
  Indexed <- MCIndexed
  Similarity <- MCSimilarity
  Includes <- MCIncludes
  Parses <- MCParses
  VertexWords <- MCVertexWords
  PropertyWords <- MCPropertyWords
  OperatorWords <- MCOperatorWords
  IdLike <- MCIdLike
  IdWords <- MCIdWords
  IdPrefixes <- MCIdPrefixes
  PropertyOrder <- MCPropertyOrder
  ReservedAliases <- MCReservedAliases
  Placeholders <- MCPlaceholders
  AggregateIntents <- MCAggregateIntents
  AggregateWords <- MCAggregateWords
  RelationWords <- MCRelationWords
  Directions <- MCDirections
  Counts <- MCCounts
  FieldWords <- MCFieldWords
  WholeWords <- MCWholeWords
  VagueWords <- MCVagueWords
  Compounds <- MCCompounds
  QuantityWords <- MCQuantityWords
  NodeWords <- MCNodeWords
  ModifierWords <- MCModifierWords
  Surfaces <- MCSurfaces
  CountMetrics <- MCCountMetrics
  Resembles <- MCResembles
  Phrases <- MCPhrases
  Coordinating <- MCCoordinating
  EndWords <- MCEndWords
  SourceWords <- MCSourceWords
  TargetWords <- MCTargetWords
  NameWord <- MCNameWord
  VertexOrder <- MCVertexOrder
  VertexNames <- MCVertexNames
  Tells <- MCTells
  Means <- MCMeans
  Domains <- MCDomains
  DomainMeans <- MCDomainMeans
  NoiseWords <- MCNoiseWords
  ShareWords <- MCShareWords
  Likely <- MCLikely
  CountedWords <- MCCountedWords
  NonEmptyWords <- MCNonEmptyWords
  TotalWords <- MCTotalWords
  NumberWord <- MCNumberWord
  Cases <- MCCases
CHECK_DEADLOCK FALSE
INVARIANTS
  ConditionsFaithful
  NothingLost
  StagesAgree
  WrittenAnswers

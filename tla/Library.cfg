SPECIFICATION Spec
CONSTANTS
  part0 = {"exceptions", "runtime", "strings", "objects", "sockets", "http", "files", "handles", "numbers", "unsigned", "words", "base64", "checks", "twister", "bounds", "keccak", "hashes", "commands", "urls", "texts", "addresses", "documents", "literals", "values"}
  Function <- MCFunction
  Image <- MCImage
  Info <- MCInfo
  Start <- MCStart
  Ips <- MCIps
  Thrown <- MCThrown
  MaxFrames = 2
  MaxThrows = 3
  Initialisers <- MCInitialisers
  ScrtCount = 1
  RtThreads = {u1, u2}
  MaxNodes = 6
  MsNames = {a, b, c}
  MsBytes = {x}
  MsMaxLength = 2
  JtRoots = {1, 2}
  JtSteps <- MCSteps
  JtMaxPath = 2
  JtMaxNodes = 3
  QwordBits = 8
  EXP_SHIFT = 4
  ExpBits = 4
  PlainDigits = 3
  PlainZeros = 1
  WordBits = 2
  MaxPort = 10
  Sockets = {1, 2}
  Peers = {p, q}
  MaxHandles = 2
  Tokens <- MCTokens
  Transmittable <- MCMessages
  ReasonRoom = 4
  MaxMessages = 2
  Actors = {1, 2}
  Paths <- MCPaths
  FsCalls = 4
  Owners = {1, 2, 3, 4, 5, 6, 7}
  KindOf <- MCKinds
  MaxOpen = 3
  MaxSuspend = 1
  TwisterBits = 6
  TwisterWords = 4
  TwisterMiddle = 2
  TwisterLow = 3
  KeccakL = 2
CHECK_DEADLOCK FALSE
INVARIANTS
  ObjectDestroyedOnce
  ExitOrder
  StringsOwn
  TreesOwned
  HandlesOwned
  PeerRecorded
  MessagesArrive
  TrueIsMine
  ClosedOnce
  NumbersExact
  CodesExact
  TextsExact
  JsonExact
PROPERTIES
  NearestHandler
  ReadonlyKept
  CallsAlone

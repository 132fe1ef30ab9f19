SPECIFICATION Spec
CONSTANTS
    Empty = Empty
    NoText = Empty
    NoItem = NoItem
    Null = Null
    Array = Array
    Nowhere = Nowhere
    Object = "Object"
    Self = "B"
    Texts <- MCTexts
    Encoding <- MCEncoding
    Arity <- MCArity
    Meaning <- MCMeaning
    Primitives <- MCPrimitives
    Order <- MCOrder
    Worlds <- MCWorlds
    Base <- MCBase
    InterfaceNames <- MCInterfaces
    Registered <- MCRegistered
    ArrayPairs <- MCArrayPairs
    Switches <- MCSwitches
    Bits = 4
    ShiftBits = 2
    ByteBits = 2
    Size = 2
    MaxOps = 2
INVARIANTS
    ReadsWhatWasWritten
    CallsFollowJava
    FieldsFollowJava
    CastsFollowJava
    NumbersFollowJava
    ArraysFollowJava
CHECK_DEADLOCK FALSE

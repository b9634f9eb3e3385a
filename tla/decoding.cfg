CONSTANTS
    Block <- MCBlock
    Parent <- MCParent
    Bits <- MCBits
    Body <- MCBody
    Setups <- MCSetups
    KnownMagics = {7}
    Magic = 7
    XorCell <- MCXor
    FileCap = 9
    MaxRecords = 5
    SampleBlocks <- MCSampleBlocks
    Cuts <- MCCuts
    MaxItems = 4000000
SPECIFICATION Spec
INVARIANTS ChainBest ChainReadable RetainedActive ParseExact AddressNamesScript CodecExact
CHECK_DEADLOCK FALSE

CONSTANTS
    Polls = {p1, p2}
    Bluetooth = {TRUE, FALSE}
    BLE_RETRY = 1
    AWS_RETRY = 1
    AWS_RECHECK = 2
SPECIFICATION FairSpec
INVARIANTS TypeOK
PROPERTIES BluetoothRetried Settles NeverLost
